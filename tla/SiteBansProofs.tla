---------------------------- MODULE SiteBansProofs ----------------------------
(***************************************************************************)
(* Theorems about SiteBans for every set of workflows, work units and       *)
(* sites, every threshold and duration, and any number of DAGs and faults.  *)
(***************************************************************************)
EXTENDS SiteBans, FiniteSetTheorems, TLAPS

\* A post.json is that of a work unit that has landed, and an infrastructure
\* failure is a case against the site.
Landed ==
    \A w \in Workflows : \A u \in UnitsOf[w] :
        /\ unit[w][u].state = "running" => unit[w][u].site \in Sites
        /\ unit[w][u].post # "none" =>
              unit[w][u].site \in Sites /\ unit[w][u].state \notin {"waiting", "idle"}
        /\ unit[w][u].post = "infrastructure" => w \in against[unit[w][u].site]

\* A workflow's ban has a case, and a promotion enough of them.
Grounded == \A r \in bans : r.scope # System => r.scope \in against[r.site]

\* A failure of the last DAG is remembered by a ban that lasts as long.
Remembered ==
    \A w \in Workflows : \A s \in Sites : lessons[w][s] > now =>
        \E r \in bans : r.site = s /\ r.scope = w /\ r.expires >= lessons[w][s]

-------------------------------------------------------------------------------
(* What the operators of the model return.                                    *)

\* A ban that is made is a row.
LEMMA RowType ==
    ASSUME TypeOK, NEW s \in Sites, NEW scope \in Workflows \cup {System},
           NEW by \in {"mid", "end", "operator", "promotion"}
    PROVE  Row(s, scope, by) \in Ban
BY SiteBansAssumption DEF Row, Ban, Days, TypeOK, BansOK

\* ban_site keeps the rows it finds, adds its own and at most a promotion, which
\* enough workflows have earned.
LEMMA WithBanRows ==
    ASSUME TypeOK, NEW rs \in SUBSET Ban, NEW s \in Sites, NEW w \in Workflows,
           NEW by \in {"mid", "end", "operator"}
    PROVE  /\ WithBan(rs, s, w, by) \subseteq Ban
           /\ rs \subseteq WithBan(rs, s, w, by)
           /\ Row(s, w, by) \in WithBan(rs, s, w, by)
           /\ \A r \in WithBan(rs, s, w, by) :
                 \/ r \in rs \/ r = Row(s, w, by)
                 \/ /\ r = Row(s, System, "promotion")
                    /\ Cardinality(WorkflowsBanning(rs \cup {Row(s, w, by)}, s)) >= Threshold
<1>1. Row(s, w, by) \in Ban /\ Row(s, System, "promotion") \in Ban
  BY RowType
<1>. QED
  BY <1>1 DEF WithBan

\* Banning several sites adds rows and takes none.
LEMMA WithBansRows ==
    ASSUME TypeOK, NEW S \in SUBSET Sites, NEW w \in Workflows,
           NEW by \in {"mid", "end", "operator"}
    PROVE  /\ WithBans(bans, S, w, by) \subseteq Ban
           /\ bans \subseteq WithBans(bans, S, w, by)
           /\ \A s \in S : Row(s, w, by) \in WithBans(bans, S, w, by)
<1>1. bans \in SUBSET Ban
  BY DEF TypeOK, BansOK
<1>2. ASSUME NEW s \in S
      PROVE  /\ WithBan(bans, s, w, by) \subseteq Ban
             /\ Row(s, w, by) \in WithBan(bans, s, w, by)
  BY <1>1, WithBanRows
<1>. QED
  BY <1>1, <1>2 DEF WithBans

\* The problem sites are sites of work units that failed for the infrastructure.
LEMMA ProblemType ==
    ASSUME TypeOK, Landed, NEW w \in Workflows, NEW s \in Problem(w)
    PROVE  s \in Sites /\ w \in against[s]
<1>. DEFINE all == {u \in UnitsOf[w] : unit[w][u].site = s /\ unit[w][u].post # "none"}
            bad == {u \in all : unit[w][u].post = "infrastructure"}
<1>1. s \in Sites /\ 2 * Cardinality(bad) > Cardinality(all)
  BY DEF Problem
<1>2. bad # {}
  <2>1. SUFFICES ASSUME bad = {} PROVE FALSE
    OBVIOUS
  <2>2. IsFiniteSet(all) /\ Cardinality(bad) = 0
    BY <2>1, FS_EmptySet, FS_Subset, SiteBansAssumption
  <2>3. Cardinality(all) \in Nat
    BY <2>2, FS_CardinalityType
  <2>. HIDE DEF all, bad
  <2>. QED
    BY <1>1, <2>2, <2>3
<1>. QED
  BY <1>1, <1>2 DEF Landed

\* The failed work units of a workflow are counted in numbers.
LEMMA FailedNat ==
    ASSUME NEW w \in Workflows
    PROVE  Failed(w) \in Nat
<1>1. IsFiniteSet(InState(w, "failed"))
  BY FS_Subset, SiteBansAssumption DEF InState
<1>. QED
  BY <1>1, FS_CardinalityType DEF Failed

-------------------------------------------------------------------------------
(* Type correctness. *)

\* What an editing of landing jobs leaves of the work units of a workflow.
Edited(w, edited, sites) ==
    [u \in UnitsOf[w] |-> IF u \in edited THEN [unit[w][u] EXCEPT !.req = Narrowed(@, sites)]
                          ELSE unit[w][u]]

\* An edited landing job has its type.
LEMMA EditedType ==
    ASSUME UnitsOK, NEW w \in Workflows, NEW edited, NEW sites
    PROVE  Edited(w, edited, sites) \in [UnitsOf[w] -> Unit]
<1>1. ASSUME NEW u \in UnitsOf[w] PROVE Edited(w, edited, sites)[u] \in Unit
  <2>1. unit[w][u] \in Unit
    BY DEF UnitsOK
  <2>2. [unit[w][u] EXCEPT !.req = Narrowed(@, sites)] \in Unit
    BY <2>1 DEF Unit, Narrowed
  <2>3. Edited(w, edited, sites)[u] \in {unit[w][u], [unit[w][u] EXCEPT !.req = Narrowed(@, sites)]}
    BY DEF Edited
  <2>. QED
    BY <2>1, <2>2, <2>3
<1>. QED
  BY <1>1 DEF Edited

\* A change of a work unit of one workflow keeps the types of the others'.
LEMMA UnitsChange ==
    ASSUME UnitsOK, NEW w \in Workflows, NEW g \in [UnitsOf[w] -> Unit],
           unit' = [unit EXCEPT ![w] = g]
    PROVE  UnitsOK'
BY DEF UnitsOK

\* A change of one work unit keeps the types of all.
LEMMA UnitChange ==
    ASSUME UnitsOK, NEW w \in Workflows, NEW u \in UnitsOf[w], NEW e \in Unit,
           unit' = [unit EXCEPT ![w][u] = e]
    PROVE  UnitsOK'
<1>1. [unit[w] EXCEPT ![u] = e] \in [UnitsOf[w] -> Unit]
  BY DEF UnitsOK
<1>. QED
  BY <1>1, UnitsChange

\* Every step keeps the types of the work units.
LEMMA UnitsStep ==
    ASSUME TypeOK, [Next]_vars
    PROVE  UnitsOK'
<1>. UnitsOK
  BY DEF TypeOK
<1>1. CASE UNCHANGED unit
  BY <1>1 DEF UnitsOK
<1>2. ASSUME NEW w \in Workflows, NEW u \in UnitsOf[w],
             LandingQueued(w, u) \/ Lands(w, u) \/ LandingFails(w, u) \/ UnitEnds(w, u)
      PROVE  UnitsOK'
  <2>0. unit[w][u] \in Unit /\ sub[w] \in SUBSET Sites
    BY DEF UnitsOK, TypeOK, DagsOK
  <2>1. CASE LandingQueued(w, u)
    <3>1. [unit[w][u] EXCEPT !.state = "idle", !.req = sub[w]] \in Unit
      BY <2>0 DEF Unit
    <3>2. unit' = [unit EXCEPT ![w][u] = [unit[w][u] EXCEPT !.state = "idle", !.req = sub[w]]]
      BY <2>1 DEF LandingQueued, UnitsOK
    <3>. QED
      BY <3>1, <3>2, UnitChange
  <2>2. CASE Lands(w, u)
    <3>0. PICK s \in unit[w][u].req :
             unit' = [unit EXCEPT ![w][u].state = "running", ![w][u].site = s, ![w][u].req = {}]
      BY <2>2 DEF Lands
    <3>1. /\ s \in Sites
          /\ unit' = [unit EXCEPT ![w][u] = [unit[w][u] EXCEPT !.state = "running", !.site = s, !.req = {}]]
      BY <3>0, <2>0 DEF Unit, UnitsOK
    <3>2. [unit[w][u] EXCEPT !.state = "running", !.site = s, !.req = {}] \in Unit
      BY <2>0 DEF Unit
    <3>. QED
      BY <3>1, <3>2, UnitChange
  <2>3. CASE LandingFails(w, u)
    <3>1. [unit[w][u] EXCEPT !.state = "failed", !.req = {}] \in Unit
      BY <2>0 DEF Unit
    <3>2. unit' = [unit EXCEPT ![w][u] = [unit[w][u] EXCEPT !.state = "failed", !.req = {}]]
      BY <2>3 DEF LandingFails, UnitsOK
    <3>. QED
      BY <3>1, <3>2, UnitChange
  <2>4. CASE UnitEnds(w, u)
    <3>0. PICK post \in {"success"} \cup Categories :
             unit' = [unit EXCEPT ![w][u].state = IF post = "success" THEN "done" ELSE "failed",
                                  ![w][u].post = post]
      BY <2>4 DEF UnitEnds
    <3>. DEFINE st == IF post = "success" THEN "done" ELSE "failed"
    <3>1. unit' = [unit EXCEPT ![w][u] = [unit[w][u] EXCEPT !.state = st, !.post = post]]
      BY <3>0 DEF UnitsOK
    <3>2. [unit[w][u] EXCEPT !.state = st, !.post = post] \in Unit
      BY <2>0, SiteBansAssumption DEF Unit
    <3>. QED
      BY <3>1, <3>2, UnitChange
  <2>. QED
    BY <1>2, <2>1, <2>2, <2>3, <2>4
<1>3. ASSUME NEW w \in Workflows, Exclude(w) \/ ExcludeRolledBack(w)
      PROVE  UnitsOK'
  <2>1. PICK edited \in SUBSET InState(w, "idle") :
            unit' = [unit EXCEPT ![w] = Edited(w, edited, nc[w].excluded \cup NewProblems(w))]
    BY <1>3 DEF Exclude, ExcludeRolledBack, EditLandings, Edited
  <2>. QED
    BY <2>1, EditedType, UnitsChange
<1>4. ASSUME NEW w \in Workflows, NEW state, Ended(w, state)
      PROVE  UnitsOK'
  <2>1. [u \in UnitsOf[w] |-> NewUnit] \in [UnitsOf[w] -> Unit]
    BY DEF NewUnit, Unit
  <2>. QED
    BY <1>4, <2>1, UnitsChange DEF Ended
<1>5. ASSUME NEW w \in Workflows, Fails(w) PROVE UnitsOK'
  <2>1. \A u \in UnitsOf[w] : Resumed(unit[w][u]) \in Unit
    BY DEF Resumed, UnitsOK, Unit
  <2>2. [u \in UnitsOf[w] |-> Resumed(unit[w][u])] \in [UnitsOf[w] -> Unit]
    BY <2>1
  <2>. QED
    BY <1>4, <1>5, <2>2, UnitsChange DEF Fails
<1>6. ASSUME NEW w \in Workflows, Complete(w) PROVE UnitsOK'
  BY <1>4, <1>6 DEF Complete
<1>. QED
  BY <1>1, <1>2, <1>3, <1>5, <1>6
     DEF Next, vars, Day, OperatorBans, OperatorRemoves, Plan, FailsRolledBack, NothingToEdit

\* Every step keeps the types of the bans.
LEMMA BansStep ==
    ASSUME TypeOK, [Next]_vars
    PROVE  BansOK'
<1>. BansOK
  BY DEF TypeOK
<1>1. CASE UNCHANGED <<now, bans, against, lessons>>
  BY <1>1 DEF BansOK
<1>2. CASE Day
  BY <1>2, SiteBansAssumption DEF BansOK, Day, Days
<1>3. ASSUME NEW s \in Sites, OperatorRemoves(s) PROVE BansOK'
  BY <1>3, SiteBansAssumption DEF BansOK, OperatorRemoves, Days
<1>4. ASSUME NEW s \in Sites, NEW scope \in Workflows \cup {System}, OperatorBans(s, scope)
      PROVE  BansOK'
  <2>1. bans' \subseteq Ban
    <3>1. CASE scope = System
      BY <1>4, <3>1, RowType DEF OperatorBans, BansOK
    <3>2. CASE scope # System
      <4>1. scope \in Workflows /\ bans \in SUBSET Ban
        BY <3>2 DEF BansOK
      <4>2. bans' = WithBan(bans, s, scope, "operator")
        BY <1>4, <3>2 DEF OperatorBans
      <4>. QED
        BY <4>1, <4>2, WithBanRows
    <3>. QED
      BY <3>1, <3>2
  <2>. QED
    BY <1>4, <2>1 DEF BansOK, OperatorBans
<1>5. ASSUME NEW w \in Workflows, Fails(w) PROVE BansOK'
  <2>0. Problem(w) \subseteq Sites
    BY DEF Problem
  <2>1. bans' \subseteq Ban
    BY <1>5, <2>0, WithBansRows DEF Fails, ProblemsAtEnd
  <2>2. lessons' \in [Workflows -> [Sites -> Days]]
    BY <1>5, SiteBansAssumption DEF Fails, BansOK, Days
  <2>. QED
    BY <1>5, <2>1, <2>2 DEF BansOK, Fails
<1>6. ASSUME NEW w \in Workflows, Exclude(w) PROVE BansOK'
  <2>0. NewProblems(w) \subseteq Sites
    BY DEF NewProblems, Problem
  <2>1. bans' \subseteq Ban
    BY <1>6, <2>0, WithBansRows DEF Exclude
  <2>. QED
    BY <1>6, <2>1 DEF BansOK, Exclude
<1>7. ASSUME NEW w \in Workflows, NEW u \in UnitsOf[w], UnitEnds(w, u) PROVE BansOK'
  <2>1. \/ against' = against
        \/ against' = [against EXCEPT ![unit[w][u].site] = @ \cup {w}]
    BY <1>7 DEF UnitEnds
  <2>2. against' \in [Sites -> SUBSET Workflows]
    BY <2>1 DEF BansOK
  <2>. QED
    BY <1>7, <2>2 DEF BansOK, UnitEnds
<1>8. ASSUME NEW w \in Workflows,
             \/ Plan(w) \/ Complete(w) \/ FailsRolledBack(w) \/ NothingToEdit(w) \/ ExcludeRolledBack(w)
             \/ \E u \in UnitsOf[w] : LandingQueued(w, u) \/ Lands(w, u) \/ LandingFails(w, u)
      PROVE  UNCHANGED <<now, bans, against, lessons>>
  <2>1. ASSUME Plan(w) PROVE UNCHANGED <<now, bans, against, lessons>>
    BY <2>1 DEF Plan
  <2>2. ASSUME Complete(w) PROVE UNCHANGED <<now, bans, against, lessons>>
    BY <2>2 DEF Complete
  <2>3. ASSUME FailsRolledBack(w) \/ ExcludeRolledBack(w)
        PROVE  UNCHANGED <<now, bans, against, lessons>>
    BY <2>3 DEF FailsRolledBack, ExcludeRolledBack, RolledBack
  <2>4. ASSUME NothingToEdit(w) PROVE UNCHANGED <<now, bans, against, lessons>>
    BY <2>4 DEF NothingToEdit
  <2>5. ASSUME NEW u \in UnitsOf[w], LandingQueued(w, u) \/ Lands(w, u) \/ LandingFails(w, u)
        PROVE  UNCHANGED <<now, bans, against, lessons>>
    BY <2>5 DEF LandingQueued, Lands, LandingFails
  <2>. QED
    BY <1>8, <2>1, <2>2, <2>3, <2>4, <2>5
<1>. QED
  BY <1>1, <1>2, <1>3, <1>4, <1>5, <1>6, <1>7, <1>8 DEF Next, vars

\* Every step keeps the types of the DAGs.
LEMMA DagsStep ==
    ASSUME TypeOK, [Next]_vars
    PROVE  DagsOK'
<1>. DagsOK
  BY DEF TypeOK
<1>1. CASE UNCHANGED <<dag, rounds, rescues, sub, nc>>
  BY <1>1 DEF DagsOK
<1>2. ASSUME NEW w \in Workflows, Plan(w) PROVE DagsOK'
  BY <1>2 DEF DagsOK, Plan
<1>3. ASSUME NEW w \in Workflows, NEW state \in {"none", "held"}, Ended(w, state), UNCHANGED rounds
      PROVE  DagsOK'
  <2>1. NewCounts \in [checked : Nat, excluded : SUBSET Sites]
    BY DEF NewCounts
  <2>. QED
    BY <1>3, <2>1 DEF DagsOK, Ended
<1>4. ASSUME NEW w \in Workflows, Complete(w) PROVE DagsOK'
  BY <1>3, <1>4 DEF Complete
<1>5. ASSUME NEW w \in Workflows, ApplySiteExclusions(w)
      PROVE  sub' \in [Workflows -> SUBSET Sites]
  BY <1>5 DEF ApplySiteExclusions, DagsOK
<1>6. ASSUME NEW w \in Workflows, Fails(w) PROVE DagsOK'
  <2>1. CASE ToBeRescued(w)
    BY <1>5, <1>6, <2>1 DEF Fails, DagsOK
  <2>2. CASE ~ToBeRescued(w)
    BY <1>3, <1>6, <2>2 DEF Fails
  <2>. QED
    BY <2>1, <2>2
<1>7. ASSUME NEW w \in Workflows, FailsRolledBack(w) PROVE DagsOK'
  BY <1>5, <1>7 DEF FailsRolledBack, RolledBack, DagsOK
<1>8. ASSUME NEW w \in Workflows, NothingToEdit(w) \/ Exclude(w) PROVE DagsOK'
  <2>1. nc' = Recorded(w, NewProblems(w)) /\ UNCHANGED <<dag, rounds, rescues, sub>>
    BY <1>8 DEF NothingToEdit, Exclude
  <2>2. NewProblems(w) \subseteq Sites
    BY DEF NewProblems, Problem
  <2>. QED
    BY <2>1, <2>2, FailedNat DEF Recorded, DagsOK
<1>9. ASSUME Day \/ \E s \in Sites : \/ OperatorRemoves(s)
                                      \/ \E scope \in Workflows \cup {System} : OperatorBans(s, scope)
      PROVE  UNCHANGED <<dag, rounds, rescues, sub, nc>>
  BY <1>9 DEF Day, OperatorRemoves, OperatorBans
<1>10. ASSUME NEW w \in Workflows, ExcludeRolledBack(w)
       PROVE  UNCHANGED <<dag, rounds, rescues, sub, nc>>
  BY <1>10 DEF ExcludeRolledBack, RolledBack
<1>11. ASSUME NEW w \in Workflows, NEW u \in UnitsOf[w],
              LandingQueued(w, u) \/ Lands(w, u) \/ LandingFails(w, u) \/ UnitEnds(w, u)
       PROVE  UNCHANGED <<dag, rounds, rescues, sub, nc>>
  BY <1>11 DEF LandingQueued, Lands, LandingFails, UnitEnds
<1>. QED
  BY <1>1, <1>2, <1>4, <1>6, <1>7, <1>8, <1>9, <1>10, <1>11 DEF Next, vars

\* Every step keeps the types of the counters.
LEMMA CountersStep ==
    ASSUME TypeOK, [Next]_vars
    PROVE  faults' \in 0..MaxFaults /\ calls' \in 0..MaxCalls
<1>1. ASSUME UNCHANGED faults \/ Fault PROVE faults' \in 0..MaxFaults
  BY <1>1, SiteBansAssumption DEF TypeOK, Fault
<1>2. ASSUME UNCHANGED calls \/ Call PROVE calls' \in 0..MaxCalls
  BY <1>2, SiteBansAssumption DEF TypeOK, Call
<1>. DEFINE Moves == (UNCHANGED faults \/ Fault) /\ (UNCHANGED calls \/ Call)
<1>4. ASSUME Day \/ \E s \in Sites : \/ OperatorRemoves(s)
                                      \/ \E scope \in Workflows \cup {System} : OperatorBans(s, scope)
      PROVE  Moves
  BY <1>4 DEF Day, OperatorRemoves, OperatorBans
<1>5. ASSUME NEW w \in Workflows, Plan(w) \/ Complete(w) \/ NothingToEdit(w) \/ Fails(w)
      PROVE  Moves
  BY <1>5 DEF Plan, Complete, NothingToEdit, Fails
<1>6. ASSUME NEW w \in Workflows, Exclude(w) \/ ExcludeRolledBack(w) \/ FailsRolledBack(w)
      PROVE  Moves
  <2>1. CASE Exclude(w)
    <3>1. UNCHANGED calls /\ EditLandings(w, nc[w].excluded \cup NewProblems(w))
      BY <2>1 DEF Exclude
    <3>. QED
      <4>1. UNCHANGED faults \/ Fault
        BY <3>1 DEF EditLandings
      <4>. QED
        BY <3>1, <4>1
  <2>2. CASE ExcludeRolledBack(w) \/ FailsRolledBack(w)
    <3>1. UNCHANGED calls
      BY <2>2 DEF ExcludeRolledBack, FailsRolledBack
    <3>2. Fault
      BY <2>2 DEF ExcludeRolledBack, FailsRolledBack, RolledBack
    <3>. QED
      BY <3>1, <3>2
  <2>. QED
    BY <1>6, <2>1, <2>2
<1>7. ASSUME NEW w \in Workflows, NEW u \in UnitsOf[w],
             LandingQueued(w, u) \/ Lands(w, u) \/ LandingFails(w, u) \/ UnitEnds(w, u)
      PROVE  Moves
  <2>1. CASE LandingQueued(w, u)
    BY <2>1 DEF LandingQueued
  <2>2. CASE Lands(w, u)
    BY <2>2 DEF Lands
  <2>3. CASE LandingFails(w, u)
    <3>1. UNCHANGED calls
      BY <2>3 DEF LandingFails
    <3>2. UNCHANGED faults \/ Fault
      BY <2>3 DEF LandingFails
    <3>. QED
      BY <3>1, <3>2
  <2>4. CASE UnitEnds(w, u)
    BY <2>4 DEF UnitEnds
  <2>. QED
    BY <1>7, <2>1, <2>2, <2>3, <2>4
<1>8. Moves
  BY <1>4, <1>5, <1>6, <1>7 DEF Next, vars
<1>. QED
  BY <1>1, <1>2, <1>8

\* The state of the bans, of the DAGs and of the work units is as declared.
THEOREM BansTypes == Spec => []TypeOK
<1>1. Init => TypeOK
  BY SiteBansAssumption
     DEF Init, TypeOK, BansOK, DagsOK, UnitsOK, Unit, NewUnit, NewCounts, Days
<1>2. TypeOK /\ [Next]_vars => TypeOK'
  BY UnitsStep, BansStep, DagsStep, CountersStep DEF TypeOK
<1>. QED
  BY <1>1, <1>2, PTL DEF Spec

-------------------------------------------------------------------------------
(* The edits of landing jobs. *)

\* A landing job in the queue never gets back a site that it does not ask for
\* (_check_mid_dag_site_exclusions adds its clauses to the Requirements).
THEOREM OnlyNarrowed == Spec => EditsOnlyNarrow
<1>. DEFINE Narrower == \A w \in Workflows : \A u \in UnitsOf[w] :
          unit[w][u].state = "idle" /\ unit'[w][u].state = "idle"
              => unit'[w][u].req \subseteq unit[w][u].req
<1>1. ASSUME TypeOK, [Next]_vars PROVE Narrower
  <2>. UnitsOK
    BY <1>1 DEF TypeOK
  <2>1. CASE UNCHANGED unit
    BY <2>1
  <2>2. ASSUME NEW w \in Workflows, Exclude(w) \/ ExcludeRolledBack(w) PROVE Narrower
    <3>1. PICK edited \in SUBSET InState(w, "idle") :
              unit' = [unit EXCEPT ![w] = Edited(w, edited, nc[w].excluded \cup NewProblems(w))]
      BY <2>2 DEF Exclude, ExcludeRolledBack, EditLandings, Edited
    <3>. QED
      BY <3>1 DEF Edited, Narrowed, UnitsOK, Unit
  <2>3. ASSUME NEW w \in Workflows, Over(w),
               NEW g, unit' = [unit EXCEPT ![w] = g] PROVE Narrower
    BY <2>3 DEF Over, UnitsOK
  <2>4. ASSUME NEW w \in Workflows, Complete(w) \/ Fails(w) PROVE Narrower
    BY <2>3, <2>4 DEF Complete, Fails, Ended
  <2>5. ASSUME NEW w \in Workflows, NEW u \in UnitsOf[w],
               LandingQueued(w, u) \/ Lands(w, u) \/ LandingFails(w, u) \/ UnitEnds(w, u)
        PROVE  Narrower
    <3>1. CASE LandingQueued(w, u)
      BY <3>1 DEF LandingQueued, UnitsOK, Unit
    <3>2. CASE Lands(w, u)
      BY <3>2 DEF Lands, UnitsOK, Unit
    <3>3. CASE LandingFails(w, u)
      BY <3>3 DEF LandingFails, UnitsOK, Unit
    <3>4. CASE UnitEnds(w, u)
      BY <3>4 DEF UnitEnds, UnitsOK, Unit
    <3>. QED
      BY <2>5, <3>1, <3>2, <3>3, <3>4
  <2>. QED
    BY <1>1, <2>1, <2>2, <2>4, <2>5
       DEF Next, vars, Day, OperatorBans, OperatorRemoves, Plan, FailsRolledBack, NothingToEdit
<1>. QED
  BY <1>1, BansTypes, PTL DEF Spec, EditsOnlyNarrow

-------------------------------------------------------------------------------
(* Bans last as long as the failures are to be remembered. *)

\* A lesson that has not expired keeps its row.
LEMMA RememberedStep ==
    ASSUME TypeOK, Remembered, [Next]_vars
    PROVE  Remembered'
<1>. BansOK
  BY DEF TypeOK
<1>1. CASE UNCHANGED <<now, lessons>> /\ bans \subseteq bans'
  BY <1>1 DEF Remembered
<1>2. CASE Day
  <2>1. ASSUME NEW w \in Workflows, NEW s \in Sites, lessons'[w][s] > now'
        PROVE  \E r \in bans' : r.site = s /\ r.scope = w /\ r.expires >= lessons'[w][s]
    <3>1. lessons'[w][s] = IF lessons[w][s] > now' THEN lessons[w][s] ELSE 0
      BY <1>2 DEF Day
    <3>2. now' = now + 1 /\ now \in Nat /\ lessons[w][s] \in Nat
      BY <1>2, SiteBansAssumption DEF Day, BansOK, Days
    <3>3. lessons'[w][s] = lessons[w][s] /\ lessons[w][s] > now
      BY <2>1, <3>1, <3>2
    <3>4. PICK r \in bans : r.site = s /\ r.scope = w /\ r.expires >= lessons[w][s]
      BY <3>3 DEF Remembered
    <3>5. r.expires \in Nat
      BY SiteBansAssumption DEF BansOK, Ban, Days
    <3>6. r.expires > now'
      BY <2>1, <3>2, <3>3, <3>4, <3>5
    <3>. QED
      BY <1>2, <3>3, <3>4, <3>6 DEF Day
  <2>. QED
    BY <2>1 DEF Remembered
<1>3. ASSUME NEW s \in Sites, OperatorRemoves(s) PROVE Remembered'
  <2>1. ASSUME NEW w \in Workflows, NEW x \in Sites, lessons'[w][x] > now'
        PROVE  \E r \in bans' : r.site = x /\ r.scope = w /\ r.expires >= lessons'[w][x]
    <3>1. lessons'[w][x] = IF x = s THEN 0 ELSE lessons[w][x]
      BY <1>3 DEF OperatorRemoves, BansOK
    <3>2. x # s
      BY <1>3, <2>1, <3>1, SiteBansAssumption DEF OperatorRemoves, BansOK
    <3>. QED
      BY <1>3, <2>1, <3>1, <3>2 DEF OperatorRemoves, Remembered
  <2>. QED
    BY <2>1 DEF Remembered
<1>4. ASSUME NEW s \in Sites, NEW scope \in Workflows \cup {System}, OperatorBans(s, scope)
      PROVE  UNCHANGED <<now, lessons>> /\ bans \subseteq bans'
  BY <1>4 DEF OperatorBans, WithBan
<1>5. ASSUME NEW w \in Workflows, Fails(w) PROVE Remembered'
  <2>0. Problem(w) \in SUBSET Sites
    BY DEF Problem
  <2>1. /\ bans \subseteq bans'
        /\ \A s \in Problem(w) : Row(s, w, "end") \in bans'
    BY <1>5, <2>0, WithBansRows DEF Fails, ProblemsAtEnd
  <2>2. ASSUME NEW x \in Workflows, NEW s \in Sites, lessons'[x][s] > now'
        PROVE  \E r \in bans' : r.site = s /\ r.scope = x /\ r.expires >= lessons'[x][s]
    <3>1. CASE x = w /\ s \in Problem(w)
      <4>1. lessons'[x][s] = now + Duration
        BY <1>5, <3>1 DEF Fails, BansOK
      <4>2. Row(s, w, "end").site = s /\ Row(s, w, "end").scope = x /\ Row(s, w, "end").expires >= lessons'[x][s]
        BY <3>1, <4>1, SiteBansAssumption DEF Row, BansOK
      <4>. QED
        BY <2>1, <3>1, <4>2
    <3>2. CASE ~(x = w /\ s \in Problem(w))
      <4>1. lessons'[x][s] = lessons[x][s] /\ now' = now
        BY <1>5, <3>2 DEF Fails, BansOK
      <4>. QED
        BY <2>1, <2>2, <4>1 DEF Remembered
    <3>. QED
      BY <3>1, <3>2
  <2>. QED
    BY <2>2 DEF Remembered
<1>6. ASSUME NEW w \in Workflows, Exclude(w) PROVE UNCHANGED <<now, lessons>> /\ bans \subseteq bans'
  BY <1>6 DEF Exclude, WithBans
<1>7. ASSUME NEW w \in Workflows, Plan(w) \/ Complete(w) \/ NothingToEdit(w)
      PROVE  UNCHANGED <<now, lessons>> /\ bans \subseteq bans'
  BY <1>7 DEF Plan, Complete, NothingToEdit
<1>8. ASSUME NEW w \in Workflows, FailsRolledBack(w) \/ ExcludeRolledBack(w)
      PROVE  UNCHANGED <<now, lessons>> /\ bans \subseteq bans'
  BY <1>8 DEF FailsRolledBack, ExcludeRolledBack, RolledBack
<1>9. ASSUME NEW w \in Workflows, NEW u \in UnitsOf[w],
             LandingQueued(w, u) \/ Lands(w, u) \/ LandingFails(w, u) \/ UnitEnds(w, u)
      PROVE  UNCHANGED <<now, lessons>> /\ bans \subseteq bans'
  BY <1>9 DEF LandingQueued, Lands, LandingFails, UnitEnds
<1>10. CASE UNCHANGED vars
  BY <1>1, <1>10 DEF vars
<1>. QED
  BY <1>1, <1>2, <1>3, <1>4, <1>5, <1>6, <1>7, <1>8, <1>9, <1>10 DEF Next

\* No DAG is planned for a site that failed the DAG before, until the ban has
\* expired or was lifted (handle_dag_completion, get_banned_sites).
THEOREM LessonsKept == Spec => LessonsAreKept
<1>. DEFINE Heeded == \A w \in Workflows : rounds'[w] > rounds[w] =>
                          \A s \in sub'[w] : lessons[w][s] <= now
<1>1. Init => Remembered
  BY SiteBansAssumption DEF Init, Remembered
<1>2. ASSUME TypeOK, Remembered, [Next]_vars PROVE Heeded
  <2>0. BansOK /\ DagsOK
    BY <1>2 DEF TypeOK
  <2>1. CASE UNCHANGED rounds
    BY <2>0, <2>1 DEF DagsOK
  <2>2. ASSUME NEW w \in Workflows, Plan(w) PROVE Heeded
    <3>1. ASSUME NEW s \in sub'[w] PROVE lessons[w][s] <= now
      <4>1. s \in Sites /\ s \notin Banned(w)
        BY <2>0, <2>2, <3>1 DEF Plan, DagsOK
      <4>2. ~(lessons[w][s] > now)
        <5>1. SUFFICES ASSUME lessons[w][s] > now PROVE s \in Banned(w)
          BY <4>1
        <5>2. PICK r \in bans : r.site = s /\ r.scope = w
          BY <1>2, <4>1, <5>1 DEF Remembered
        <5>. QED
          BY <5>2 DEF Banned
      <4>3. lessons[w][s] \in Nat /\ now \in Nat
        BY <2>0, <4>1, SiteBansAssumption DEF BansOK, Days
      <4>. QED
        BY <4>2, <4>3
    <3>2. \A x \in Workflows : x # w => rounds'[x] = rounds[x]
      BY <2>0, <2>2 DEF Plan, DagsOK
    <3>. QED
      BY <2>0, <3>1, <3>2 DEF DagsOK
  <2>3. ASSUME Day \/ \E s \in Sites : \/ OperatorRemoves(s)
                                        \/ \E scope \in Workflows \cup {System} : OperatorBans(s, scope)
        PROVE  UNCHANGED rounds
    BY <2>3 DEF Day, OperatorRemoves, OperatorBans
  <2>4. ASSUME NEW w \in Workflows,
               \/ Complete(w) \/ Fails(w) \/ FailsRolledBack(w)
               \/ NothingToEdit(w) \/ Exclude(w) \/ ExcludeRolledBack(w)
               \/ \E u \in UnitsOf[w] : \/ LandingQueued(w, u) \/ Lands(w, u)
                                       \/ LandingFails(w, u) \/ UnitEnds(w, u)
        PROVE  UNCHANGED rounds
    BY <2>4 DEF Complete, Fails, FailsRolledBack, NothingToEdit, Exclude, ExcludeRolledBack,
                LandingQueued, Lands, LandingFails, UnitEnds
  <2>. QED
    BY <1>2, <2>1, <2>2, <2>3, <2>4 DEF Next, vars
<1>3. TypeOK /\ Remembered /\ [Next]_vars => Remembered'
  BY RememberedStep
<1>. QED
  BY <1>1, <1>2, <1>3, BansTypes, PTL DEF Spec, LessonsAreKept

-------------------------------------------------------------------------------
(* Promotions. *)

\* Work units that run or report keep their sites; cases against a site are only
\* added.
LEMMA LandedStep ==
    ASSUME TypeOK, Landed, [Next]_vars
    PROVE  Landed' /\ \A s \in Sites : against[s] \subseteq against'[s]
<1>. UnitsOK /\ BansOK /\ UnitsOK'
  BY UnitsStep DEF TypeOK
<1>. DEFINE More == \A s \in Sites : against[s] \subseteq against'[s]
            Fine(w, u) ==
               /\ unit[w][u].state = "running" => unit[w][u].site \in Sites
               /\ unit[w][u].post # "none" =>
                     unit[w][u].site \in Sites /\ unit[w][u].state \notin {"waiting", "idle"}
               /\ unit[w][u].post = "infrastructure" => w \in against[unit[w][u].site]
<1>0. \A w \in Workflows : \A u \in UnitsOf[w] : Fine(w, u)
  BY DEF Landed
<1>1. CASE UNCHANGED unit /\ More
  BY <1>1, <1>0 DEF Landed
<1>2. ASSUME Day \/ \E s \in Sites : OperatorRemoves(s)
      PROVE  UNCHANGED unit /\ More
  BY <1>2 DEF Day, OperatorRemoves
<1>3. ASSUME NEW s \in Sites, NEW scope \in Workflows \cup {System}, OperatorBans(s, scope)
      PROVE  UNCHANGED unit /\ More
  <2>1. UNCHANGED unit /\ (against' = against \/ against' = [against EXCEPT ![s] = @ \cup {scope}])
    BY <1>3 DEF OperatorBans
  <2>. QED
    BY <2>1 DEF BansOK
<1>4. ASSUME NEW w \in Workflows, Plan(w) \/ FailsRolledBack(w) \/ NothingToEdit(w)
      PROVE  UNCHANGED unit /\ More
  BY <1>4 DEF Plan, FailsRolledBack, NothingToEdit
<1>5. ASSUME NEW w \in Workflows, UNCHANGED against,
             \A x \in Workflows : \A u \in UnitsOf[x] : Fine(x, u)'
      PROVE  Landed' /\ More
  BY <1>5 DEF Landed
<1>6. ASSUME NEW w \in Workflows, Exclude(w) \/ ExcludeRolledBack(w) PROVE Landed' /\ More
  <2>1. PICK edited \in SUBSET InState(w, "idle") :
            unit' = [unit EXCEPT ![w] = Edited(w, edited, nc[w].excluded \cup NewProblems(w))]
    BY <1>6 DEF Exclude, ExcludeRolledBack, EditLandings, Edited
  <2>2. UNCHANGED against
    BY <1>6 DEF Exclude, ExcludeRolledBack
  <2>3. ASSUME NEW x \in Workflows, NEW u \in UnitsOf[x]
        PROVE  /\ unit'[x][u].state = unit[x][u].state /\ unit'[x][u].site = unit[x][u].site
               /\ unit'[x][u].post = unit[x][u].post
    BY <2>1 DEF Edited, UnitsOK, Unit
  <2>. QED
    BY <1>0, <1>5, <2>2, <2>3
<1>7. ASSUME NEW w \in Workflows, NEW state, Ended(w, state), UNCHANGED against
      PROVE  Landed' /\ More
  <2>1. ASSUME NEW x \in Workflows, NEW u \in UnitsOf[x]
        PROVE  unit'[x][u] = unit[x][u] \/ unit'[x][u] = NewUnit
    BY <1>7 DEF Ended, UnitsOK
  <2>2. NewUnit.state = "waiting" /\ NewUnit.post = "none"
    BY DEF NewUnit
  <2>. QED
    BY <1>0, <1>5, <1>7, <2>1, <2>2
<1>8. ASSUME NEW w \in Workflows, Complete(w) PROVE Landed' /\ More
  BY <1>7, <1>8 DEF Complete
<1>9. ASSUME NEW w \in Workflows, Fails(w) PROVE Landed' /\ More
  <2>0. UNCHANGED against
    BY <1>9 DEF Fails
  <2>1. CASE ToBeRescued(w)
    <3>1. ASSUME NEW x \in Workflows, NEW u \in UnitsOf[x]
          PROVE  unit'[x][u] = unit[x][u] \/ unit'[x][u] = Resumed(unit[x][u])
      BY <1>9, <2>1 DEF Fails, UnitsOK
    <3>2. ASSUME NEW x \in Workflows, NEW u \in UnitsOf[x] PROVE Fine(x, u)'
      <4>1. CASE unit'[x][u] = unit[x][u]
        BY <1>0, <2>0, <4>1
      <4>2. CASE unit'[x][u] = Resumed(unit[x][u])
        <5>1. unit[x][u] \in Unit
          BY DEF UnitsOK
        <5>2. Fine(x, u)
          BY <1>0
        <5>3. CASE unit[x][u].state # "failed"
          BY <2>0, <4>2, <5>2, <5>3 DEF Resumed
        <5>4. CASE unit[x][u].state = "failed" /\ unit[x][u].site = None
          <6>1. unit[x][u].post = "none"
            BY <5>2, <5>4, SiteBansAssumption
          <6>2. unit'[x][u].state = "waiting" /\ unit'[x][u].post = "none"
            BY <4>2, <5>1, <5>4, <6>1 DEF Resumed, Unit
          <6>. QED
            BY <6>2
        <5>5. CASE unit[x][u].state = "failed" /\ unit[x][u].site # None
          <6>1. /\ unit'[x][u].state = "running" /\ unit'[x][u].post = unit[x][u].post
                /\ unit'[x][u].site = unit[x][u].site /\ unit[x][u].site \in Sites
            BY <4>2, <5>1, <5>5 DEF Resumed, Unit
          <6>. QED
            BY <2>0, <5>2, <6>1
        <5>. QED
          BY <5>3, <5>4, <5>5
      <4>. QED
        BY <3>1, <4>1, <4>2
    <3>. QED
      BY <1>5, <2>0, <3>2
  <2>2. CASE ~ToBeRescued(w)
    BY <1>7, <1>9, <2>0, <2>2 DEF Fails
  <2>. QED
    BY <2>1, <2>2
<1>10. ASSUME NEW w \in Workflows, NEW u \in UnitsOf[w],
              LandingQueued(w, u) \/ Lands(w, u) \/ LandingFails(w, u) \/ UnitEnds(w, u)
       PROVE  Landed' /\ More
  <2>0. unit[w][u] \in Unit
    BY DEF UnitsOK
  <2>1. ASSUME NEW e, unit' = [unit EXCEPT ![w][u] = e], More, Fine(w, u)'
        PROVE  Landed' /\ More
    <3>1. ASSUME NEW x \in Workflows, NEW y \in UnitsOf[x], x # w \/ y # u PROVE Fine(x, y)'
      <4>1. unit'[x][y] = unit[x][y]
        BY <2>1, <3>1 DEF UnitsOK
      <4>. QED
        BY <1>0, <2>1, <4>1
    <3>. QED
      BY <2>1, <3>1 DEF Landed
  <2>2. CASE LandingQueued(w, u)
    <3>. DEFINE e == [unit[w][u] EXCEPT !.state = "idle", !.req = sub[w]]
    <3>0. UNCHANGED against /\ unit[w][u].state = "waiting"
      BY <2>2 DEF LandingQueued
    <3>1. unit' = [unit EXCEPT ![w][u] = e]
      BY <2>2 DEF LandingQueued, UnitsOK
    <3>2. unit'[w][u] = e
      BY <3>1 DEF UnitsOK
    <3>3. Fine(w, u)'
      BY <1>0, <2>0, <3>0, <3>2 DEF Unit
    <3>. QED
      BY <2>1, <3>0, <3>1, <3>3
  <2>3. CASE Lands(w, u)
    <3>0. PICK s \in unit[w][u].req :
             unit' = [unit EXCEPT ![w][u].state = "running", ![w][u].site = s, ![w][u].req = {}]
      BY <2>3 DEF Lands
    <3>. DEFINE e == [unit[w][u] EXCEPT !.state = "running", !.site = s, !.req = {}]
    <3>1. /\ unit' = [unit EXCEPT ![w][u] = e] /\ UNCHANGED against /\ unit[w][u].state = "idle"
          /\ s \in Sites
      BY <2>0, <2>3, <3>0 DEF Lands, UnitsOK, Unit
    <3>2. unit'[w][u] = e
      BY <3>1 DEF UnitsOK
    <3>3. Fine(w, u)'
      BY <1>0, <2>0, <3>1, <3>2 DEF Unit
    <3>. QED
      BY <2>1, <3>1, <3>3
  <2>4. CASE LandingFails(w, u)
    <3>. DEFINE e == [unit[w][u] EXCEPT !.state = "failed", !.req = {}]
    <3>0. UNCHANGED against /\ unit[w][u].state = "idle"
      BY <2>4 DEF LandingFails
    <3>1. unit' = [unit EXCEPT ![w][u] = e]
      BY <2>4 DEF LandingFails, UnitsOK
    <3>2. unit'[w][u] = e
      BY <3>1 DEF UnitsOK
    <3>3. Fine(w, u)'
      BY <1>0, <2>0, <3>0, <3>2 DEF Unit
    <3>. QED
      BY <2>1, <3>0, <3>1, <3>3
  <2>5. CASE UnitEnds(w, u)
    <3>0. PICK post \in {"success"} \cup Categories :
             /\ unit' = [unit EXCEPT ![w][u].state = IF post = "success" THEN "done" ELSE "failed",
                                     ![w][u].post = post]
             /\ against' = IF post = "infrastructure"
                           THEN [against EXCEPT ![unit[w][u].site] = @ \cup {w}] ELSE against
      BY <2>5 DEF UnitEnds
    <3>. DEFINE st == IF post = "success" THEN "done" ELSE "failed"
                e == [unit[w][u] EXCEPT !.state = st, !.post = post]
    <3>8. unit' = [unit EXCEPT ![w][u].state = st, ![w][u].post = post]
      BY <3>0
    <3>9. st \in {"done", "failed"}
      OBVIOUS
    <3>. HIDE DEF st
    <3>1. unit' = [unit EXCEPT ![w][u] = e]
      BY <3>8 DEF UnitsOK
    <3>7. unit[w][u].state = "running"
      BY <2>5 DEF UnitEnds
    <3>2. unit'[w][u] = e
      BY <3>1 DEF UnitsOK
    <3>3. unit[w][u].site \in Sites
      BY <1>0, <3>7
    <3>4. More /\ (post = "infrastructure" => w \in against'[unit[w][u].site])
      BY <3>0, <3>3 DEF BansOK
    <3>5. e.site = unit[w][u].site /\ e.post = post /\ e.state \in {"done", "failed"}
      BY <2>0, <3>9 DEF Unit
    <3>6. Fine(w, u)'
      BY <3>2, <3>3, <3>4, <3>5
    <3>. QED
      BY <2>1, <3>1, <3>4, <3>6
  <2>. QED
    BY <1>10, <2>2, <2>3, <2>4, <2>5
<1>11. CASE UNCHANGED vars
  BY <1>1, <1>11 DEF vars
<1>. QED
  BY <1>1, <1>2, <1>3, <1>4, <1>6, <1>8, <1>9, <1>10, <1>11 DEF Next

\* Enough workflows that ban a site have enough cases against it, also later.
LEMMA CasesGrow ==
    ASSUME BansOK, BansOK', Grounded, NEW s \in Sites, against[s] \subseteq against'[s],
           NEW w \in Workflows, w \in against'[s],
           NEW by \in {"mid", "end", "operator"},
           Cardinality(WorkflowsBanning(bans \cup {Row(s, w, by)}, s)) >= Threshold
    PROVE  Cardinality(against'[s]) >= Threshold
<1>. DEFINE W == WorkflowsBanning(bans \cup {Row(s, w, by)}, s)
<1>1. W \subseteq against'[s]
  BY DEF WorkflowsBanning, Grounded, Row
<1>2. IsFiniteSet(against'[s])
  BY FS_Subset, SiteBansAssumption DEF BansOK
<1>3. IsFiniteSet(W) /\ Cardinality(W) <= Cardinality(against'[s])
  BY <1>1, <1>2, FS_Subset
<1>4. Cardinality(W) \in Nat /\ Cardinality(against'[s]) \in Nat
  BY <1>2, <1>3, FS_CardinalityType
<1>5. Cardinality(W) >= Threshold
  OBVIOUS
<1>. HIDE DEF W
<1>. QED
  BY <1>3, <1>4, <1>5, SiteBansAssumption

\* Cases are never dropped, so that a promotion stays earned.
LEMMA RowsStep ==
    ASSUME BansOK, BansOK', Grounded, PromotionIsEarned,
           \A s \in Sites : against[s] \subseteq against'[s],
           \A r \in bans' : \/ r \in bans
                            \/ r.by # "promotion" /\ r.scope # System /\ r.scope \in against'[r.site]
                            \/ r.by # "promotion" /\ r.scope = System
                            \/ r.scope = System /\ Cardinality(against'[r.site]) >= Threshold
    PROVE  Grounded' /\ PromotionIsEarned'
<1>1. ASSUME NEW r \in bans PROVE r.site \in Sites
  BY DEF BansOK, Ban
<1>2. ASSUME NEW r \in bans, Cardinality(against[r.site]) >= Threshold
      PROVE  Cardinality(against'[r.site]) >= Threshold
  <2>1. IsFiniteSet(against'[r.site])
    BY <1>1, FS_Subset, SiteBansAssumption DEF BansOK
  <2>2. /\ IsFiniteSet(against[r.site])
        /\ Cardinality(against[r.site]) <= Cardinality(against'[r.site])
    BY <1>1, <2>1, FS_Subset
  <2>3. Cardinality(against[r.site]) \in Nat /\ Cardinality(against'[r.site]) \in Nat
    BY <2>1, <2>2, FS_CardinalityType
  <2>. QED
    BY <1>2, <2>2, <2>3, SiteBansAssumption
<1>3. Grounded'
  BY <1>1 DEF Grounded
<1>4. PromotionIsEarned'
  BY <1>2 DEF PromotionIsEarned
<1>. QED
  BY <1>3, <1>4

\* Every step keeps the grounds of the bans and of the problem sites.
LEMMA EarnedStep ==
    ASSUME TypeOK, Landed, Grounded, PromotionIsEarned, [Next]_vars
    PROVE  Grounded' /\ PromotionIsEarned'
<1>. BansOK /\ BansOK' /\ \A s \in Sites : against[s] \subseteq against'[s]
  BY BansStep, LandedStep DEF TypeOK
<1>. DEFINE Good(r) == \/ r \in bans
                       \/ r.by # "promotion" /\ r.scope # System /\ r.scope \in against'[r.site]
                       \/ r.by # "promotion" /\ r.scope = System
                       \/ r.scope = System /\ Cardinality(against'[r.site]) >= Threshold
<1>0. ASSUME \A r \in bans' : Good(r) PROVE Grounded' /\ PromotionIsEarned'
  BY <1>0, RowsStep
<1>1. ASSUME bans' \subseteq bans PROVE \A r \in bans' : Good(r)
  BY <1>1
<1>2. ASSUME NEW s \in Sites, NEW w \in Workflows, w \in against'[s],
             NEW by \in {"mid", "end", "operator"}
      PROVE  /\ Good(Row(s, w, by))
             /\ Cardinality(WorkflowsBanning(bans \cup {Row(s, w, by)}, s)) >= Threshold
                   => Good(Row(s, System, "promotion"))
  <2>1. Good(Row(s, w, by))
    BY <1>2, SiteBansAssumption DEF Row
  <2>2. ASSUME Cardinality(WorkflowsBanning(bans \cup {Row(s, w, by)}, s)) >= Threshold
        PROVE  Good(Row(s, System, "promotion"))
    <3>1. Cardinality(against'[s]) >= Threshold
      BY <1>2, <2>2, CasesGrow
    <3>. QED
      BY <3>1 DEF Row
  <2>. QED
    BY <2>1, <2>2
<1>3. ASSUME NEW s \in Sites, NEW scope \in Workflows \cup {System}, OperatorBans(s, scope)
      PROVE  \A r \in bans' : Good(r)
  <2>1. CASE scope = System
    <3>1. bans' = bans \cup {Row(s, System, "operator")}
      BY <1>3, <2>1 DEF OperatorBans
    <3>2. Good(Row(s, System, "operator"))
      BY DEF Row
    <3>. QED
      BY <3>1, <3>2
  <2>2. CASE scope # System
    <3>1. scope \in Workflows /\ bans \in SUBSET Ban
      BY <2>2 DEF BansOK
    <3>2. /\ bans' = WithBan(bans, s, scope, "operator")
          /\ against' = [against EXCEPT ![s] = @ \cup {scope}]
      BY <1>3, <2>2 DEF OperatorBans
    <3>3. scope \in against'[s]
      BY <3>2 DEF BansOK
    <3>4. /\ Good(Row(s, scope, "operator"))
          /\ Cardinality(WorkflowsBanning(bans \cup {Row(s, scope, "operator")}, s)) >= Threshold
                => Good(Row(s, System, "promotion"))
      BY <1>2, <3>1, <3>3
    <3>. HIDE DEF Good
    <3>5. \A r \in bans : Good(r)
      BY DEF Good
    <3>6. \A r \in WithBan(bans, s, scope, "operator") :
             \/ r \in bans \/ r = Row(s, scope, "operator")
             \/ /\ r = Row(s, System, "promotion")
                /\ Cardinality(WorkflowsBanning(bans \cup {Row(s, scope, "operator")}, s)) >= Threshold
      BY <3>1, WithBanRows
    <3>. QED
      BY <3>2, <3>4, <3>5, <3>6
  <2>. QED
    BY <2>1, <2>2
<1>4. ASSUME NEW w \in Workflows, NEW S \in SUBSET Sites, \A s \in S : w \in against'[s],
             NEW by \in {"mid", "end"}, bans' = WithBans(bans, S, w, by)
      PROVE  \A r \in bans' : Good(r)
  <2>1. ASSUME NEW s \in S
        PROVE  /\ Good(Row(s, w, by))
               /\ Cardinality(WorkflowsBanning(bans \cup {Row(s, w, by)}, s)) >= Threshold
                     => Good(Row(s, System, "promotion"))
    BY <1>2, <1>4
  <2>. HIDE DEF Good
  <2>2. \A r \in bans : Good(r)
    BY DEF Good
  <2>3. ASSUME NEW r \in bans', r \notin bans PROVE Good(r)
    <3>1. PICK s \in S : r \in WithBan(bans, s, w, by)
      BY <1>4, <2>3 DEF WithBans
    <3>2. \/ r = Row(s, w, by)
          \/ /\ r = Row(s, System, "promotion")
             /\ Cardinality(WorkflowsBanning(bans \cup {Row(s, w, by)}, s)) >= Threshold
      BY <2>3, <3>1 DEF WithBan
    <3>. QED
      BY <2>1, <3>2
  <2>. QED
    BY <2>1, <2>2, <2>3
<1>5. ASSUME NEW w \in Workflows, NEW s \in Problem(w) PROVE s \in Sites /\ w \in against'[s]
  BY <1>5, ProblemType
<1>6. ASSUME NEW w \in Workflows, Fails(w) PROVE \A r \in bans' : Good(r)
  <2>1. bans' = WithBans(bans, Problem(w), w, "end")
    BY <1>6 DEF Fails, ProblemsAtEnd
  <2>. QED
    BY <1>4, <1>5, <2>1
<1>7. ASSUME NEW w \in Workflows, Exclude(w) PROVE \A r \in bans' : Good(r)
  <2>1. bans' = WithBans(bans, NewProblems(w), w, "mid")
    BY <1>7 DEF Exclude
  <2>2. NewProblems(w) \subseteq Problem(w)
    BY DEF NewProblems
  <2>. QED
    BY <1>4, <1>5, <2>1, <2>2
<1>8. ASSUME Day \/ \E s \in Sites : OperatorRemoves(s) PROVE bans' \subseteq bans
  BY <1>8 DEF Day, OperatorRemoves
<1>9. ASSUME NEW w \in Workflows,
             Plan(w) \/ Complete(w) \/ FailsRolledBack(w) \/ NothingToEdit(w) \/ ExcludeRolledBack(w)
      PROVE  bans' \subseteq bans
  BY <1>9 DEF Plan, Complete, FailsRolledBack, NothingToEdit, ExcludeRolledBack, RolledBack
<1>10. ASSUME NEW w \in Workflows, NEW u \in UnitsOf[w],
              LandingQueued(w, u) \/ Lands(w, u) \/ LandingFails(w, u) \/ UnitEnds(w, u)
       PROVE  bans' \subseteq bans
  BY <1>10 DEF LandingQueued, Lands, LandingFails, UnitEnds
<1>11. CASE UNCHANGED vars
  BY <1>0, <1>1, <1>11 DEF vars
<1>12. \/ \A r \in bans' : Good(r) \/ UNCHANGED vars
  <2>. HIDE DEF Good
  <2>. QED
    BY <1>1, <1>3, <1>6, <1>7, <1>8, <1>9, <1>10 DEF Next
<1>. QED
  BY <1>0, <1>11, <1>12

\* A site is banned for all workflows only if enough workflows have a case of
\* their own against it (_check_promotion).
THEOREM PromotionsEarned == Spec => []PromotionIsEarned
<1>. DEFINE IInv == Landed /\ Grounded /\ PromotionIsEarned
<1>1. Init => IInv
  BY DEF Init, Landed, Grounded, PromotionIsEarned, NewUnit
<1>2. TypeOK /\ IInv /\ [Next]_vars => IInv'
  BY LandedStep, EarnedStep
<1>. QED
  BY <1>1, <1>2, BansTypes, PTL DEF Spec

===============================================================================
