------------------------------- MODULE SiteBans --------------------------------
(***************************************************************************)
(* How failing sites are kept out of the work units of several requests:   *)
(* the bans of core/site_manager.py, what the planner and the rescue make   *)
(* of them, the analysis at the end of a DAG (core/error_handler.py) and    *)
(* the exclusion in the middle of a running one (core/lifecycle_manager.py).*)
(*                                                                         *)
(* Each workflow has one DAG at a time.  Of the inner DAGs of WorkUnit only *)
(* the landing job and the end matter here: a work unit has failed after    *)
(* DAGMan's own retry, with at least the three failed jobs that a site needs *)
(* to be a problem, and all work units have as many jobs.                   *)
(***************************************************************************)
EXTENDS Naturals, FiniteSets

CONSTANTS
    Workflows, Sites,
    UnitsOf,     \* the work units of a workflow's DAGs
    Threshold,   \* site_ban_promotion_threshold
    Duration,    \* site_ban_duration_days
    Operations,  \* what the operator does: "ban", "remove"
    Categories,  \* of the failures of jobs: "infrastructure", "other"
    HoldPercent, \* error_hold_threshold
    MaxRescues,  \* error_max_rescue_attempts
    MaxRounds,   \* bound: DAGs planned for each workflow
    LastDay,     \* bound: days
    MaxCalls,    \* bound: the operator's calls
    MaxFaults    \* bound: calls that fail, evaluations rolled back

System == "system"
None == "none"

ASSUME SiteBansAssumption ==
    /\ System \notin Workflows /\ None \notin Sites
    /\ IsFiniteSet(Workflows) /\ \A w \in Workflows : IsFiniteSet(UnitsOf[w])
    /\ Threshold \in Nat \ {0} /\ Duration \in Nat \ {0}
    /\ Operations \subseteq {"ban", "remove"} /\ Categories \subseteq {"infrastructure", "other"}
    /\ MaxRounds \in [Workflows -> Nat]
    /\ {HoldPercent, MaxRescues, LastDay, MaxCalls, MaxFaults} \subseteq Nat

VARIABLES
    now,
    bans,     \* the active rows of site_bans
    dag,      \* the DAG of each workflow: "none", "running", "held"
    rounds, rescues,
    unit,     \* its work units
    sub,      \* the sites that the Requirements in landing.sub admit
    nc,       \* node_counts: the last failure count checked, the excluded sites
    faults, calls,
    against,  \* history: who has a case against a site, its jobs' or the operator's
    lessons   \* history: until when the site of a failed DAG should be avoided

vars == <<now, bans, dag, rounds, rescues, unit, sub, nc, faults, calls, against, lessons>>

Days == 0..(LastDay + Duration)
Ban == [site : Sites, scope : Workflows \cup {System},
        by : {"mid", "end", "operator", "promotion"}, expires : Days]
Unit == [state : {"waiting", "idle", "running", "done", "failed"}, site : Sites \cup {None},
         req : SUBSET Sites, post : {"none", "success", "infrastructure", "other"}]

NewUnit == [state |-> "waiting", site |-> None, req |-> {}, post |-> "none"]
NewCounts == [checked |-> 0, excluded |-> {}]

BansOK ==
    /\ now \in 0..LastDay /\ bans \subseteq Ban
    /\ against \in [Sites -> SUBSET Workflows]
    /\ lessons \in [Workflows -> [Sites -> Days]]

DagsOK ==
    /\ dag \in [Workflows -> {"none", "running", "held"}]
    /\ rounds \in [Workflows -> Nat] /\ rescues \in [Workflows -> Nat]
    /\ sub \in [Workflows -> SUBSET Sites]
    /\ nc \in [Workflows -> [checked : Nat, excluded : SUBSET Sites]]

UnitsOK == DOMAIN unit = Workflows /\ \A w \in Workflows : unit[w] \in [UnitsOf[w] -> Unit]

TypeOK == BansOK /\ DagsOK /\ UnitsOK /\ faults \in 0..MaxFaults /\ calls \in 0..MaxCalls

Init ==
    /\ now = 0 /\ bans = {} /\ faults = 0 /\ calls = 0
    /\ dag = [w \in Workflows |-> "none"]
    /\ rounds = [w \in Workflows |-> 0] /\ rescues = [w \in Workflows |-> 0]
    /\ unit = [w \in Workflows |-> [u \in UnitsOf[w] |-> NewUnit]]
    /\ sub = [w \in Workflows |-> Sites]
    /\ nc = [w \in Workflows |-> NewCounts]
    /\ against = [s \in Sites |-> {}]
    /\ lessons = [w \in Workflows |-> [s \in Sites |-> 0]]

Fault == faults < MaxFaults /\ faults' = faults + 1
Call == calls < MaxCalls /\ calls' = calls + 1

-------------------------------------------------------------------------------
(* The bans. *)

Row(s, scope, by) == [site |-> s, scope |-> scope, by |-> by, expires |-> now + Duration]

\* mutant: rows instead of workflows.
RowsOf(rs, s) == {r \in rs : r.site = s /\ r.scope # System}

\* count_active_workflow_bans_for_site counts distinct workflows.
WorkflowsBanning(rs, s) == {r.scope : r \in {x \in rs : x.site = s /\ x.scope # System}}

\* ban_site for a workflow, with _check_promotion.
WithBan(rs, s, w, by) ==
    LET mine == rs \cup {Row(s, w, by)}
    IN  IF /\ Cardinality(WorkflowsBanning(mine, s)) >= Threshold
           /\ \A r \in mine : r.site = s => r.scope # System
        THEN mine \cup {Row(s, System, "promotion")} ELSE mine

\* One ban of a site does not touch the rows of another.
WithBans(rs, S, w, by) == rs \cup UNION {WithBan(rs, s, w, by) : s \in S}

\* mutant: the system-wide bans only.
SystemBanned(w) == {r.site : r \in {x \in bans : x.scope = System}}

\* get_banned_sites
Banned(w) == {r.site : r \in {x \in bans : x.scope \in {System, w}}}

\* Days pass; a ban that expires is not active any more.
Day ==
    /\ now < LastDay /\ now' = now + 1
    /\ bans' = {r \in bans : r.expires > now'}
    /\ lessons' = [w \in Workflows |-> [s \in Sites |-> IF lessons[w][s] > now' THEN lessons[w][s] ELSE 0]]
    /\ UNCHANGED <<dag, rounds, rescues, unit, sub, nc, faults, against, calls>>

\* POST /sites/{name}/ban, for all workflows or for one, with the usual duration.
OperatorBans(s, scope) ==
    /\ "ban" \in Operations /\ Call
    /\ IF scope = System
       THEN bans' = bans \cup {Row(s, System, "operator")} /\ UNCHANGED against
       ELSE bans' = WithBan(bans, s, scope, "operator")
            /\ against' = [against EXCEPT ![s] = @ \cup {scope}]
    /\ UNCHANGED <<now, dag, rounds, rescues, unit, sub, nc, faults, lessons>>

\* DELETE /sites/{name}/ban removes all of them.
OperatorRemoves(s) ==
    /\ "remove" \in Operations /\ Call
    /\ \E r \in bans : r.site = s
    /\ bans' = {r \in bans : r.site # s}
    /\ lessons' = [w \in Workflows |-> [lessons[w] EXCEPT ![s] = 0]]
    /\ UNCHANGED <<now, dag, rounds, rescues, unit, sub, nc, faults, against>>

-------------------------------------------------------------------------------
(* Planning, and what HTCondor does with the work units. *)

\* plan_production_dag, for the next round or after the release of a HELD
\* request: the banned sites are in the Requirements of the landing jobs.
Plan(w) ==
    /\ dag[w] # "running" /\ rounds[w] < MaxRounds[w]
    /\ dag' = [dag EXCEPT ![w] = "running"]
    /\ rounds' = [rounds EXCEPT ![w] = @ + 1]
    /\ sub' = [sub EXCEPT ![w] = Sites \ Banned(w)]
    /\ UNCHANGED <<now, bans, rescues, unit, nc, faults, against, lessons, calls>>

InState(w, st) == {u \in UnitsOf[w] : unit[w][u].state = st}
Runs(w) == dag[w] = "running"

\* DAGMan submits the landing job with the Requirements of landing.sub.
LandingQueued(w, u) ==
    /\ Runs(w) /\ unit[w][u].state = "waiting"
    /\ unit' = [unit EXCEPT ![w][u].state = "idle", ![w][u].req = sub[w]]
    /\ UNCHANGED <<now, bans, dag, rounds, rescues, sub, nc, faults, against, lessons, calls>>

\* It matches a site, which is the work unit's from then on.
Lands(w, u) ==
    /\ Runs(w) /\ unit[w][u].state = "idle"
    /\ \E s \in unit[w][u].req :
          unit' = [unit EXCEPT ![w][u].state = "running", ![w][u].site = s, ![w][u].req = {}]
    /\ UNCHANGED <<now, bans, dag, rounds, rescues, sub, nc, faults, against, lessons, calls>>

\* It matches none and is removed, or it fails: the work unit fails without any
\* post.json.
LandingFails(w, u) ==
    /\ Runs(w) /\ unit[w][u].state = "idle"
    /\ (unit[w][u].req = {} /\ UNCHANGED faults) \/ Fault
    /\ unit' = [unit EXCEPT ![w][u].state = "failed", ![w][u].req = {}]
    /\ UNCHANGED <<now, bans, dag, rounds, rescues, sub, nc, against, lessons, calls>>

\* The work unit ends; its jobs' post.json files tell how, and replace those of
\* the run before a rescue.
UnitEnds(w, u) ==
    /\ Runs(w) /\ unit[w][u].state = "running"
    /\ \E post \in {"success"} \cup Categories :
          /\ unit' = [unit EXCEPT ![w][u].state = IF post = "success" THEN "done" ELSE "failed",
                                  ![w][u].post = post]
          /\ against' = IF post = "infrastructure"
                        THEN [against EXCEPT ![unit[w][u].site] = @ \cup {w}] ELSE against
    /\ UNCHANGED <<now, bans, dag, rounds, rescues, sub, nc, faults, lessons, calls>>

-------------------------------------------------------------------------------
(* What the lifecycle manager makes of the failures. *)

\* analyze_site_failures: at least three failed jobs, which every failed work
\* unit has, and more than half of those at the site.
Problem(w) ==
    {s \in Sites :
        LET all == {u \in UnitsOf[w] : unit[w][u].site = s /\ unit[w][u].post # "none"}
            bad == {u \in all : unit[w][u].post = "infrastructure"}
        IN  2 * Cardinality(bad) > Cardinality(all)}

\* An evaluation is rolled back: the rows are as before, and what was done to
\* jobs and files stays.
RolledBack == Fault /\ UNCHANGED <<bans, dag, rescues, nc, lessons>>

\* mutant: the clauses replace the Requirements.
Replaced(req, sites) == Sites \ sites

\* _check_mid_dag_site_exclusions: the clauses are added to the Requirements.
Narrowed(req, sites) == req \ sites

\* condor_edit of the idle landing jobs, of which some may fail.
EditLandings(w, sites) ==
    \E edited \in SUBSET InState(w, "idle") :
        /\ unit' = [unit EXCEPT ![w] = [u \in UnitsOf[w] |->
              IF u \in edited THEN [unit[w][u] EXCEPT !.req = Narrowed(@, sites)] ELSE unit[w][u]]]
        /\ \/ edited = InState(w, "idle") /\ UNCHANGED faults
           \/ edited # InState(w, "idle") /\ Fault

\* The problem sites that are not excluded yet.
NewProblems(w) == Problem(w) \ nc[w].excluded

Failed(w) == Cardinality(InState(w, "failed"))

\* There are failures that were not looked at yet.
ToBeChecked(w) ==
    /\ Runs(w) /\ Failed(w) > nc[w].checked
    /\ \E u \in UnitsOf[w] : unit[w][u].post # "none"

Recorded(w, new) == [nc EXCEPT ![w].checked = Failed(w), ![w].excluded = @ \cup new]

\* No new site, or no landing job left to edit: the sites count as excluded, but
\* are not banned.
NothingToEdit(w) ==
    /\ ToBeChecked(w)
    /\ NewProblems(w) = {} \/ InState(w, "idle") = {}
    /\ nc' = Recorded(w, NewProblems(w))
    /\ UNCHANGED <<now, bans, dag, rounds, rescues, unit, sub, faults, against, lessons, calls>>

\* The landing jobs are edited and the sites banned for the workflow.
Exclude(w) ==
    /\ ToBeChecked(w) /\ NewProblems(w) # {} /\ InState(w, "idle") # {}
    /\ EditLandings(w, nc[w].excluded \cup NewProblems(w))
    /\ nc' = Recorded(w, NewProblems(w))
    /\ bans' = WithBans(bans, NewProblems(w), w, "mid")
    /\ UNCHANGED <<now, dag, rounds, rescues, sub, against, lessons, calls>>

\* The same in an evaluation that is rolled back afterwards.
ExcludeRolledBack(w) ==
    /\ ToBeChecked(w) /\ NewProblems(w) # {} /\ InState(w, "idle") # {}
    /\ unit' = [unit EXCEPT ![w] = [u \in UnitsOf[w] |->
          IF u \in InState(w, "idle")
          THEN [unit[w][u] EXCEPT !.req = Narrowed(@, nc[w].excluded \cup NewProblems(w))]
          ELSE unit[w][u]]]
    /\ RolledBack
    /\ UNCHANGED <<now, rounds, sub, against, calls>>

\* mutant: a site that was excluded in the middle is not banned again.
UnexcludedProblems(w) == Problem(w) \ nc[w].excluded

\* handle_dag_completion bans every problem site.
ProblemsAtEnd(w) == Problem(w)

\* apply_site_exclusions replaces the Requirements in landing.sub, if there are
\* problem sites and the files can be written (the spool mount is read-only).
ApplySiteExclusions(w) ==
    \/ sub' = sub
    \/ Problem(w) # {} /\ sub' = [sub EXCEPT ![w] = Sites \ Problem(w)]

Over(w) == Runs(w) /\ \A u \in UnitsOf[w] : unit[w][u].state \in {"done", "failed"}

\* The DAG and its row are of no interest any more; the next has its own.
Ended(w, state) ==
    /\ dag' = [dag EXCEPT ![w] = state]
    /\ rescues' = [rescues EXCEPT ![w] = 0]
    /\ unit' = [unit EXCEPT ![w] = [u \in UnitsOf[w] |-> NewUnit]]
    /\ sub' = [sub EXCEPT ![w] = Sites]
    /\ nc' = [nc EXCEPT ![w] = NewCounts]

\* Every work unit is done: the round is complete.
Complete(w) ==
    /\ Over(w) /\ Failed(w) = 0
    /\ Ended(w, "none")
    /\ UNCHANGED <<now, bans, rounds, faults, against, lessons, calls>>

\* The rescue resumes the failed work units: one that had landed keeps its site.
\* Its row takes over the node_counts.
Resumed(u) == IF u.state # "failed" THEN u
              ELSE IF u.site = None THEN [u EXCEPT !.state = "waiting"]
              ELSE [u EXCEPT !.state = "running"]

\* handle_dag_completion rescues while few work units have failed.
ToBeRescued(w) ==
    /\ rescues[w] < MaxRescues
    /\ 100 * Failed(w) < HoldPercent * Cardinality(UnitsOf[w])

\* handle_dag_completion after failures, with the rescue or the hold.
Fails(w) ==
    /\ Over(w) /\ Failed(w) > 0
    /\ bans' = WithBans(bans, ProblemsAtEnd(w), w, "end")
    /\ lessons' = [lessons EXCEPT ![w] =
          [s \in Sites |-> IF s \in Problem(w) THEN now + Duration ELSE @[s]]]
    /\ IF ToBeRescued(w)
       THEN /\ rescues' = [rescues EXCEPT ![w] = @ + 1]
            /\ unit' = [unit EXCEPT ![w] = [u \in UnitsOf[w] |-> Resumed(unit[w][u])]]
            /\ ApplySiteExclusions(w)
            /\ UNCHANGED <<dag, nc>>
       ELSE Ended(w, "held")
    /\ UNCHANGED <<now, rounds, faults, against, calls>>

\* The files are rewritten, but the rows are rolled back.
FailsRolledBack(w) ==
    /\ Over(w) /\ Failed(w) > 0 /\ ToBeRescued(w)
    /\ ApplySiteExclusions(w)
    /\ RolledBack
    /\ UNCHANGED <<now, rounds, unit, against, calls>>

-------------------------------------------------------------------------------

Next ==
    \/ Day
    \/ \E s \in Sites : OperatorRemoves(s) \/ \E scope \in Workflows \cup {System} : OperatorBans(s, scope)
    \/ \E w \in Workflows :
          \/ Plan(w) \/ Complete(w) \/ Fails(w) \/ FailsRolledBack(w)
          \/ NothingToEdit(w) \/ Exclude(w) \/ ExcludeRolledBack(w)
          \/ \E u \in UnitsOf[w] :
                LandingQueued(w, u) \/ Lands(w, u) \/ LandingFails(w, u) \/ UnitEnds(w, u)

Spec == Init /\ [][Next]_vars

-------------------------------------------------------------------------------
(* Properties. *)

\* A ban is for all workflows only if enough workflows have a case of their own
\* against the site: one workflow that meets it again and again, in the middle
\* and at the end of its DAGs, does not close it for the others.
PromotionIsEarned ==
    \A r \in bans : r.by = "promotion" => Cardinality(against[r.site]) >= Threshold

\* A DAG is not planned for a site that failed the DAG before, until the ban has
\* expired or the operator has lifted it: wherever the failure was first seen.
LessonsAreKept ==
    [][\A w \in Workflows : rounds'[w] > rounds[w] =>
          \A s \in sub'[w] : lessons[w][s] <= now]_vars

\* A landing job in the queue never gets back a site it does not ask for: what
\* was banned when it was planned, or excluded since.
EditsOnlyNarrow ==
    [][\A w \in Workflows : \A u \in UnitsOf[w] :
          unit[w][u].state = "idle" /\ unit'[w][u].state = "idle"
              => unit'[w][u].req \subseteq unit[w][u].req]_vars

-------------------------------------------------------------------------------
(* What the documents say and the code does not do. *)

\* "When N or more independent workflows have active per-workflow bans on the
\* same site, Condora promotes the ban to system-wide" (docs/error_handling.md:511).
BadSiteIsPromoted ==
    \A s \in Sites : Cardinality(WorkflowsBanning(bans, s)) >= Threshold =>
        \E r \in bans : r.site = s /\ r.scope = System

\* "When planning a DAG or submitting a rescue DAG, the DAG Planner queries
\* active bans" (docs/error_handling.md:545).
RescueAvoidsBanned ==
    [][\A w \in Workflows : rescues'[w] > rescues[w] => sub'[w] \cap Banned(w) = {}]_vars

\* The failing sites of a running DAG are looked for after every further failed
\* work unit (IMPLEMENTATION_LOG.md:450).
FailuresAreLookedAt ==
    \A w \in Workflows :
        Runs(w) /\ Failed(w) > 0 /\ InState(w, "idle") # {} /\ NewProblems(w) # {}
            => ToBeChecked(w)

===============================================================================
