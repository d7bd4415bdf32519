---------------------------- MODULE WorkUnitProofs ----------------------------
(***************************************************************************)
(* Theorems about WorkUnit for every set of nodes, machines and sites,     *)
(* every number of retries and every way a job may end.                    *)
(***************************************************************************)
EXTENDS WorkUnit, TLAPS

-------------------------------------------------------------------------------
(* What the operators of the model return.                                    *)

\* No processing node has the name of another kind of node.
LEMMA NodesApart ==
    /\ {"landing", "merge", "cleanup"} \subseteq Nodes /\ Procs \subseteq Nodes
    /\ \A p \in Procs : p # "landing" /\ p # "merge" /\ p # "cleanup"
BY WorkUnitAssumption DEF Nodes

\* Retries are counted in numbers.
LEMMA RetriesType == ASSUME NEW n \in Nodes PROVE Retries(n) \in Nat
BY WorkUnitAssumption DEF Retries

\* None is neither a site nor a machine.
LEMMA NoSiteIsNone == None \notin Sites /\ None \notin Machines
BY WorkUnitAssumption

\* The ways a job of a node may end.
Expired == [code |-> RemovedExit, tail |-> "", removal |-> "other"]
End == Failure \cup {Success, Expired}

\* The exit code of a job, and that a failed one is not 0.
LEMMA EndType ==
    ASSUME NEW end \in End
    PROVE  Return(end) \in Int /\ (end # Success => Return(end) # 0) /\ (end = Success => Return(end) = 0)
<1>1. CASE end \in CmsRunFails
  <2>1. end.code \in CmsswCodes
    BY <1>1 DEF CmsRunFails
  <2>2. end.code \in Nat /\ end.code % 256 # 0
    BY <2>1, WorkUnitAssumption
  <2>3. 0 % 256 = 0
    OBVIOUS
  <2>4. Return(end) \in Int /\ Return(end) # 0
    BY <2>2, <2>3 DEF Return
  <2>5. Success.code = 0
    BY DEF Success
  <2>. QED
    BY <2>2, <2>3, <2>4, <2>5
<1>2. CASE end \in WrapperFails
  <2>1. end.code = 1 /\ Success.code = 0
    BY <1>2 DEF WrapperFails, Success
  <2>2. Return(end) = 1
    BY <2>1 DEF Return
  <2>. QED
    BY <2>1, <2>2
<1>3. CASE end \in Removed \/ end = Expired
  <2>1. end \in Removed => end.code = RemovedExit
    BY DEF Removed
  <2>2. Expired.code = RemovedExit
    BY DEF Expired
  <2>3. end.code = RemovedExit
    BY <1>3, <2>1, <2>2
  <2>4. RemovedExit \in Int /\ RemovedExit < 0
    BY DEF RemovedExit
  <2>5. Return(end) = RemovedExit
    BY <2>3, <2>4 DEF Return
  <2>6. Success.code = 0
    BY DEF Success
  <2>. QED
    BY <2>3, <2>4, <2>5, <2>6
<1>4. CASE end = Success
  <2>1. Success.code = 0
    BY DEF Success
  <2>2. end.code = 0
    BY <1>4, <2>1
  <2>3. Return(end) = 0
    BY <2>2 DEF Return
  <2>. QED
    BY <1>4, <2>3
<1>. QED
  BY <1>1, <1>2, <1>3, <1>4 DEF End, Failure

\* The classification answers with one of its categories.
LEMMA CategoryType ==
    ASSUME NEW code, NEW tail, NEW removal PROVE Classify(code, tail, removal) \in Categories
<1>1. ByCode(code) \in Categories
  BY DEF ByCode, Categories
<1>. QED
  BY <1>1 DEF Classify, Categories

-------------------------------------------------------------------------------
(* The strengthening.                                                         *)

Busy(n) == node[n] \in {"idle", "running"}

\* Which nodes may be in the queue: never the landing node, the merge node only
\* after all processing nodes, none after an abort.
Control ==
    /\ ~Busy("landing")
    /\ node["landing"] = "done" => elected \in Sites
    /\ Busy("merge") => \A p \in Procs : node[p] = "done"
    /\ aborted => \A n \in Nodes : ~Busy(n)

\* Outputs and jobs are at the elected site.
Placement ==
    /\ \A p \in Procs : node[p] = "done" => outAt[p] = elected
    /\ \A n \in Nodes : Busy(n) => pin[n] \subseteq Pool
    /\ \A n \in Nodes : node[n] = "running" => on[n] \in pin[n]

\* An excluded site is out of the landing job's +DESIRED_Sites.
Kept == desired \cap blamed = {} /\ elected \notin blamed

\* The machine of a node's last transient failure is on the list, and the retry
\* is kept from it unless the whole site is on the list.
LeftBy(n) == post[n].category = "transient" /\ post[n].machine # None /\ tries[n] > 0
Recorded ==
    /\ \A n \in Procs \cup {"merge"} : LeftBy(n) /\ ~aborted => post[n].machine \in excluded
    /\ \A n \in Procs \cup {"merge"} : LeftBy(n) /\ Busy(n) /\ ~(Pool \subseteq excluded)
           => post[n].machine \notin pin[n]

ControlInv == TypeOK /\ FreshStart /\ Control

\* A node that may run, or did, follows the landing node.
LEMMA AfterLanding ==
    ASSUME FreshStart, NEW n \in Nodes, n # "landing", node[n] # "ready" \/ MayRun(n)
    PROVE  node["landing"] = "done"
<1>1. CASE node[n] # "ready"
  BY <1>1 DEF FreshStart
<1>2. CASE n \in Procs /\ MayRun(n)
  BY <1>2, NodesApart DEF MayRun, Parents
<1>3. CASE n = "merge" /\ MayRun(n)
  <2>1. PICK p \in Procs : TRUE
    BY WorkUnitAssumption
  <2>2. node[p] = "done"
    BY <1>3 DEF MayRun, Parents
  <2>. QED
    BY <2>2, NodesApart DEF FreshStart
<1>4. CASE n = "cleanup" /\ MayRun(n)
  BY <1>4, NodesApart DEF MayRun, Parents, FreshStart
<1>. QED
  BY <1>1, <1>2, <1>3, <1>4 DEF Nodes

\* A node leaves the queue.
Leaving(n) == Busy(n) /\ faults' \in 0..MaxFaults /\ \E end \in End : Ends(n, end)

\* The steps, by what they do to the nodes.
LEMMA StepKinds ==
    ASSUME TypeOK, Next
    PROVE  \/ LandingElects \/ LandingFails
           \/ \E n \in Nodes : Submit(n) \/ Start(n) \/ Leaving(n)
           \/ WuSucceeds \/ WuFailsForGood \/ WuRetry
           \/ Rescue
<1>. faults \in 0..MaxFaults /\ MaxFaults \in Nat
  BY WorkUnitAssumption DEF TypeOK
<1>1. ASSUME NEW n \in Nodes, JobSucceeds(n) PROVE Leaving(n)
  BY <1>1 DEF JobSucceeds, Leaving, Busy, End
<1>2. ASSUME NEW n \in Nodes, JobFails(n) PROVE Leaving(n)
  <2>1. PICK end \in Failure : Ends(n, end)
    BY <1>2 DEF JobFails
  <2>2. end \in End
    BY DEF End
  <2>3. faults' \in 0..MaxFaults /\ Busy(n)
    BY <1>2 DEF JobFails, Busy
  <2>. QED
    BY <2>1, <2>2, <2>3 DEF Leaving
<1>3. ASSUME NEW n \in Nodes, JobExpires(n) PROVE Leaving(n)
  <2>1. Ends(n, Expired)
    BY <1>3, Zenon DEF JobExpires, Expired
  <2>2. Expired \in End
    BY DEF End
  <2>3. node[n] = "idle" /\ (faults' = faults \/ (faults < MaxFaults /\ faults' = faults + 1))
    BY <1>3, Zenon DEF JobExpires
  <2>4. faults' \in 0..MaxFaults /\ Busy(n)
    BY <2>3 DEF Busy
  <2>. QED
    BY <2>1, <2>2, <2>4 DEF Leaving
<1>. QED
  BY <1>1, <1>2, <1>3 DEF Next, Leaves

\* Where the end of a job leaves a node.
LEMMA ExitType ==
    ASSUME NEW n, NEW exit
    PROVE  AfterExit(n, exit) \in {"done", "failed", "ready"}
BY DEF AfterExit

\* What is in the queue is out of it after an abort; otherwise one node leaves it.
LEMMA LeavingNodes ==
    ASSUME TypeOK, NEW n \in Nodes, Leaving(n)
    PROVE  /\ node' \in [Nodes -> NodeStates] /\ ~Busy(n)'
           /\ \A m \in Nodes : ~Busy(m) => node'[m] = node[m]
           /\ \A m \in Nodes : Busy(m)' => Busy(m) /\ node'[m] = node[m]
           /\ \A m \in Nodes \ {n} : node'[m] \in {node[m], "ready"}
           /\ aborted' => aborted \/ \A m \in Nodes : ~Busy(m)'
           /\ UNCHANGED <<wu, wuTries, rescues, elected, desired, req, pin, on, blamed>>
<1>1. PICK end \in End : Ends(n, end)
  BY DEF Leaving
<1>2. UNCHANGED <<wu, wuTries, rescues, elected, desired, req, pin, on, blamed>>
  BY <1>1 DEF Ends, JobEnds, CleanupEnds, landingSub
<1>3. ASSUME NEW exit, NodeEnds(n, exit), UNCHANGED aborted \/ ~aborted'
      PROVE  /\ node' \in [Nodes -> NodeStates] /\ ~Busy(n)'
             /\ \A m \in Nodes : ~Busy(m) => node'[m] = node[m]
             /\ \A m \in Nodes : Busy(m)' => Busy(m) /\ node'[m] = node[m]
             /\ \A m \in Nodes \ {n} : node'[m] \in {node[m], "ready"}
             /\ aborted' => aborted
  <2>1. /\ node \in [Nodes -> NodeStates] /\ Busy(n)
        /\ node' = [node EXCEPT ![n] = AfterExit(n, exit)]
    BY <1>3 DEF TypeOK, NodeEnds, Leaving
  <2>2. AfterExit(n, exit) \in {"done", "failed", "ready"}
    BY ExitType
  <2>. QED
    BY <1>3, <2>1, <2>2 DEF Busy, NodeStates
<1>4. CASE \E exit : NodeEnds(n, exit) /\ (UNCHANGED aborted \/ ~aborted')
  BY <1>2, <1>3, <1>4
<1>5. CASE node' = [m \in Nodes |-> IF node[m] \in {"idle", "running"} THEN "ready" ELSE node[m]]
  <2>1. node \in [Nodes -> NodeStates]
    BY DEF TypeOK
  <2>2. \A m \in Nodes : node'[m] = IF Busy(m) THEN "ready" ELSE node[m]
    BY <1>5 DEF Busy
  <2>3. node' \in [Nodes -> NodeStates]
    BY <1>5, <2>1 DEF NodeStates
  <2>. QED
    BY <1>2, <2>2, <2>3 DEF Busy
<1>. QED
  BY <1>1, <1>4, <1>5 DEF Ends, JobEnds, CleanupEnds

-------------------------------------------------------------------------------
(* Types, and a work unit without a landing node that is done is a fresh one. *)

\* What the collector writes.
LEMMA PostType ==
    ASSUME TypeOK, NEW n \in Nodes, NEW end \in End, elected \in Sites
    PROVE  PostData(n, end) \in PostJson /\ PostData(n, end).exit = Return(end)
<1>1. Return(end) \in Int
  BY EndType
<1>2. log[n] \in LogFile
  BY DEF TypeOK
<1>3. log[n].site \in Sites \cup {None} /\ log[n].machine \in Machines \cup {None}
  BY <1>2 DEF LogFile
<1>4. Classify(Return(end), end.tail, LoggedRemoval(n, end)) \in Categories
  BY CategoryType
<1>5. (IF log[n].site # None THEN log[n].site ELSE elected) \in Sites
  BY <1>3
<1>. QED
  BY <1>1, <1>3, <1>4, <1>5 DEF PostData, PostJson

\* The log of a job that ends has its type.
LEMMA LoggedType ==
    ASSUME TypeOK, NEW n \in Nodes, NEW end \in End
    PROVE  [log EXCEPT ![n].removal = LoggedRemoval(n, end)] \in [Nodes -> LogFile]
<1>1. log \in [Nodes -> LogFile]
  BY DEF TypeOK
<1>2. end.removal \in {"zombie", "wall"} => end.removal \in Removals
  <2>1. Success.removal = None /\ Expired.removal = "other"
    BY DEF Success, Expired
  <2>2. end \in CmsRunFails \cup WrapperFails => end.removal = None
    BY DEF CmsRunFails, WrapperFails
  <2>3. end \in Removed => end.removal \in Removals
    BY DEF Removed
  <2>. QED
    BY <2>1, <2>2, <2>3 DEF End, Failure, None
<1>3. LoggedRemoval(n, end) \in Removals \cup {None}
  BY <1>1, <1>2 DEF LoggedRemoval, LogFile
<1>. QED
  BY <1>1, <1>3 DEF LogFile

\* The types hold at first.
LEMMA TypeInit == Init => TypeOK
<1>. SUFFICES ASSUME Init PROVE TypeOK
  OBVIOUS
<1>1. NoPost \in PostJson /\ [site |-> None, machine |-> None, removal |-> None] \in LogFile
  BY DEF NoPost, PostJson, LogFile, Categories
<1>2. wu = "running" /\ wuTries \in 0..WuRetries /\ rescues \in 0..MaxRescues /\ faults \in 0..MaxFaults
  BY WorkUnitAssumption DEF Init
<1>3. \A n \in Nodes : tries[n] \in 0..Retries(n)
  BY RetriesType DEF Init
<1>4. /\ node \in [Nodes -> NodeStates] /\ pin \in [Nodes -> SUBSET Machines]
      /\ on \in [Nodes -> Machines \cup {None}] /\ log \in [Nodes -> LogFile]
      /\ post \in [Nodes -> PostJson] /\ cause \in [Nodes -> CmsswCodes \cup {0}]
      /\ outAt \in [Nodes -> Sites \cup {None}]
  BY <1>1 DEF Init, NodeStates
<1>5. desired \subseteq Sites /\ req \subseteq Sites /\ blamed \subseteq Sites /\ excluded \subseteq Machines
      /\ elected \in Sites \cup {None} /\ aborted \in BOOLEAN
  BY WorkUnitAssumption DEF Init
<1>. QED
  BY <1>2, <1>3, <1>4, <1>5 DEF TypeOK

\* A job that ends leaves everything of its type.
LEMMA EndsType ==
    ASSUME ControlInv, NEW n \in Nodes, NEW end \in End, Busy(n), Ends(n, end), faults' \in 0..MaxFaults
    PROVE  TypeOK'
<1>. USE DEF ControlInv
<1>1. Leaving(n)
  BY DEF Leaving
<1>2. elected \in Sites /\ n # "landing"
  BY AfterLanding DEF Control, Busy
<1>3. /\ node' \in [Nodes -> NodeStates]
      /\ UNCHANGED <<wu, wuTries, rescues, elected, desired, req, pin, on, blamed>>
  BY <1>1, LeavingNodes
<1>4. ASSUME NEW exit, NodeEnds(n, exit) PROVE \A m \in Nodes : tries'[m] \in 0..Retries(m)
  <2>1. AfterExit(n, exit) = "ready" => tries[n] < Retries(n)
    BY DEF AfterExit
  <2>2. tries[n] \in 0..Retries(n) /\ Retries(n) \in Nat
    BY RetriesType DEF TypeOK
  <2>3. tries' = [tries EXCEPT ![n] = IF AfterExit(n, exit) = "ready" THEN @ + 1 ELSE @]
    BY <1>4 DEF NodeEnds
  <2>. QED
    BY <2>1, <2>2, <2>3 DEF TypeOK
<1>5. CASE n = "cleanup"
  <2>1. NodeEnds(n, Return(end)) /\ UNCHANGED <<aborted, excluded, log, post, cause, outAt>>
    BY <1>5 DEF Ends, CleanupEnds
  <2>. QED
    BY <1>3, <1>4, <2>1 DEF TypeOK
<1>6. CASE n # "cleanup"
  <2>1. JobEnds(n, end)
    BY <1>6 DEF Ends
  <2>2. PostData(n, end) \in PostJson
    BY <1>2, PostType
  <2>3. post' = [post EXCEPT ![n] = PostData(n, end)] /\ post' \in [Nodes -> PostJson]
    BY <2>1, <2>2 DEF JobEnds, TypeOK
  <2>4. log' \in [Nodes -> LogFile]
    BY <2>1, LoggedType DEF JobEnds
  <2>5. cause' \in [Nodes -> CmsswCodes \cup {0}]
    BY <2>1 DEF JobEnds, CmsRunFails, TypeOK
  <2>6. outAt' \in [Nodes -> Sites \cup {None}] /\ aborted' \in BOOLEAN
    BY <1>2, <2>1 DEF JobEnds, TypeOK
  <2>7. \A m \in Nodes : tries'[m] \in 0..Retries(m)
    BY <1>4, <2>1 DEF JobEnds, TypeOK
  <2>8. excluded' \subseteq Machines
    <3>1. \/ excluded' = excluded
          \/ post'[n].machine # None /\ excluded' = excluded \cup {post'[n].machine}
      BY <2>1 DEF JobEnds
    <3>2. post'[n].machine \in Machines \cup {None}
      BY <2>3 DEF PostJson
    <3>. QED
      BY <3>1, <3>2 DEF TypeOK
  <2>. QED
    BY <1>3, <2>3, <2>4, <2>5, <2>6, <2>7, <2>8 DEF TypeOK
<1>. QED
  BY <1>5, <1>6

\* Every step keeps the types and the structure of the inner DAG.
LEMMA ControlStep == ControlInv /\ [Next]_vars => ControlInv'
<1>. SUFFICES ASSUME ControlInv, [Next]_vars PROVE ControlInv'
  OBVIOUS
<1>. USE DEF ControlInv, landingSub
<1>1. ASSUME NEW exit, NodeEnds("landing", exit), MayRun("landing"), InnerRuns,
             UNCHANGED <<wu, wuTries, rescues, aborted, landingSub, pin, on, excluded, log, post,
                         cause, outAt, blamed>>,
             faults' \in 0..MaxFaults,
             IF exit = 0 THEN elected' \in Sites ELSE elected' = elected
      PROVE  ControlInv'
  <2>1. "landing" \in Nodes /\ node["landing"] = "ready" /\ ~aborted
    BY <1>1, NodesApart DEF MayRun, InnerRuns
  <2>2. AfterExit("landing", exit) \in {"done", "failed", "ready"}
        /\ (AfterExit("landing", exit) = "done" <=> exit = 0)
        /\ (AfterExit("landing", exit) = "ready" => tries["landing"] < Retries("landing"))
    BY DEF AfterExit
  <2>3. /\ node' = [node EXCEPT !["landing"] = AfterExit("landing", exit)]
        /\ tries' = [tries EXCEPT !["landing"] = IF AfterExit("landing", exit) = "ready" THEN @ + 1 ELSE @]
    BY <1>1 DEF NodeEnds
  <2>4. /\ \A m \in Nodes : tries'[m] \in 0..Retries(m)
        /\ node' \in [Nodes -> NodeStates] /\ node'["landing"] = AfterExit("landing", exit)
        /\ \A m \in Nodes \ {"landing"} : node'[m] = "ready"
    BY <2>1, <2>2, <2>3, RetriesType DEF TypeOK, NodeStates, FreshStart
  <2>5. TypeOK'
    BY <1>1, <2>4 DEF TypeOK
  <2>6. FreshStart'
    BY <1>1, <2>1, <2>2, <2>4 DEF FreshStart, NoPostData, HasPost
  <2>7. Control'
    BY <1>1, <2>1, <2>2, <2>4, NodesApart DEF Control, Busy
  <2>. QED
    BY <2>5, <2>6, <2>7
<1>2. CASE LandingElects
  <2>1. faults' = faults /\ faults \in 0..MaxFaults /\ elected' \in Sites
    BY <1>2 DEF LandingElects, TypeOK
  <2>2. /\ NodeEnds("landing", 0) /\ MayRun("landing") /\ InnerRuns
        /\ UNCHANGED <<wu, wuTries, rescues, aborted, landingSub, pin, on, excluded, log, post,
                       cause, outAt, blamed>>
    BY <1>2 DEF LandingElects
  <2>. QED
    BY <1>1, <2>1, <2>2
<1>3. CASE LandingFails
  <2>1. faults' \in 0..MaxFaults /\ elected' = elected
    BY <1>3, WorkUnitAssumption DEF LandingFails, TypeOK
  <2>2. /\ NodeEnds("landing", 1) /\ MayRun("landing") /\ InnerRuns
        /\ UNCHANGED <<wu, wuTries, rescues, aborted, landingSub, pin, on, excluded, log, post,
                       cause, outAt, blamed>>
    BY <1>3 DEF LandingFails
  <2>3. 1 # 0
    OBVIOUS
  <2>. QED
    BY <1>1, <2>1, <2>2, <2>3
<1>4. ASSUME NEW n \in Nodes, Submit(n) PROVE ControlInv'
  <2>1. node["landing"] = "done" /\ n # "landing" /\ ~aborted /\ MayRun(n)
    BY <1>4, AfterLanding DEF Submit, InnerRuns
  <2>2. /\ node' = [node EXCEPT ![n] = "idle"] /\ on' = [on EXCEPT ![n] = None]
        /\ UNCHANGED <<wu, wuTries, rescues, aborted, tries, elected, desired, req, excluded, log,
                       post, cause, outAt, blamed>>
    BY <1>4 DEF Submit
  <2>3. pin' \in [Nodes -> SUBSET Machines] /\ faults' \in 0..MaxFaults
    BY <1>4, WorkUnitAssumption DEF Submit, PinnedTo, Pool, TypeOK
  <2>4. TypeOK'
    BY <2>2, <2>3 DEF TypeOK, NodeStates
  <2>5. node'["landing"] = "done" /\ node'[n] = "idle"
        /\ \A m \in Nodes \ {n} : node'[m] = node[m]
    BY <2>1, <2>2 DEF TypeOK
  <2>6. FreshStart'
    BY <2>5 DEF FreshStart
  <2>7. n = "merge" => \A p \in Procs : node[p] = "done"
    BY <2>1 DEF MayRun, Parents
  <2>8. n \in Procs => node[n] # "done"
    BY <2>1 DEF MayRun
  <2>9. Control'
    BY <2>1, <2>2, <2>5, <2>7, <2>8, NodesApart DEF Control, Busy
  <2>. QED
    BY <2>4, <2>6, <2>9
<1>5. ASSUME NEW n \in Nodes, Start(n) PROVE ControlInv'
  <2>1. node["landing"] = "done" /\ node[n] = "idle" /\ n # "landing" /\ ~aborted
    BY <1>5, AfterLanding DEF Start, Control, Busy
  <2>2. /\ node' = [node EXCEPT ![n] = "running"]
        /\ UNCHANGED <<wu, wuTries, rescues, aborted, tries, elected, desired, req, pin, excluded,
                       post, cause, outAt, blamed, faults>>
    BY <1>5 DEF Start
  <2>3. PICK m \in pin[n] :
           /\ on' = [on EXCEPT ![n] = m]
           /\ log' = [log EXCEPT ![n].site = IF @ = None THEN SiteOf[m] ELSE @, ![n].machine = m]
    BY <1>5 DEF Start
  <2>4. m \in Machines /\ SiteOf[m] \in Sites
    BY DEF TypeOK, Sites
  <2>5. on' \in [Nodes -> Machines \cup {None}] /\ log' \in [Nodes -> LogFile]
    <3>1. on' \in [Nodes -> Machines \cup {None}]
      BY <2>3, <2>4 DEF TypeOK
    <3>2. log[n] \in LogFile /\ log \in [Nodes -> LogFile]
      BY DEF TypeOK
    <3>3. [log[n] EXCEPT !.site = IF @ = None THEN SiteOf[m] ELSE @, !.machine = m] \in LogFile
      BY <2>4, <3>2 DEF LogFile
    <3>4. log' = [log EXCEPT ![n] = [log[n] EXCEPT !.site = IF @ = None THEN SiteOf[m] ELSE @,
                                                   !.machine = m]]
      BY <2>3, <3>2 DEF LogFile
    <3>. QED
      BY <3>1, <3>2, <3>3, <3>4
  <2>6. TypeOK'
    BY <2>2, <2>5 DEF TypeOK, NodeStates
  <2>7. node'["landing"] = "done" /\ node'[n] = "running"
        /\ \A k \in Nodes \ {n} : node'[k] = node[k]
    BY <2>1, <2>2 DEF TypeOK
  <2>8. FreshStart'
    BY <2>7 DEF FreshStart
  <2>9. Control'
    BY <2>1, <2>2, <2>7, NodesApart DEF Control, Busy
  <2>. QED
    BY <2>6, <2>8, <2>9
<1>6. ASSUME NEW n \in Nodes, Leaving(n) PROVE ControlInv'
  <2>1. TypeOK'
    BY <1>6, EndsType DEF Leaving
  <2>2. node["landing"] = "done" /\ n # "landing" /\ ~aborted
    BY <1>6, AfterLanding DEF Leaving, Control, Busy
  <2>3. /\ \A m \in Nodes : ~Busy(m) => node'[m] = node[m]
        /\ \A m \in Nodes : Busy(m)' => Busy(m) /\ node'[m] = node[m]
        /\ aborted' => \A m \in Nodes : ~Busy(m)'
        /\ elected' = elected
    BY <1>6, <2>2, LeavingNodes
  <2>4. node'["landing"] = "done"
    BY <2>2, <2>3, NodesApart DEF Busy
  <2>5. FreshStart'
    BY <2>4 DEF FreshStart
  <2>6. Control'
    <3>1. Busy("merge")' => \A p \in Procs : node'[p] = "done"
      <4>1. SUFFICES ASSUME Busy("merge")', NEW p \in Procs PROVE node'[p] = "done"
        OBVIOUS
      <4>2. node[p] = "done" /\ p \in Nodes
        BY <2>3, <4>1, NodesApart DEF Control
      <4>. QED
        BY <2>3, <4>2 DEF Busy
    <3>. QED
      BY <2>2, <2>3, <2>4, <3>1 DEF Control, Busy
  <2>. QED
    BY <2>1, <2>5, <2>6
<1>7. CASE WuSucceeds \/ WuFailsForGood
  <2>1. wu' \in {"done", "failed"}
        /\ UNCHANGED <<wuTries, rescues, aborted, node, tries, elected, desired, req, pin, on,
                       excluded, log, post, cause, outAt, blamed, faults>>
    BY <1>7 DEF WuSucceeds, WuFailsForGood
  <2>2. TypeOK'
    BY <2>1 DEF TypeOK
  <2>3. FreshStart' /\ Control'
    BY <2>1 DEF FreshStart, Control, Busy, NoPostData, HasPost
  <2>. QED
    BY <2>2, <2>3
<1>8. CASE WuRetry
  <2>1. /\ node' = [n \in Nodes |-> "ready"] /\ post' = [n \in Nodes |-> NoPost]
        /\ elected' = None /\ excluded' = {} /\ tries' = [n \in Nodes |-> 0] /\ aborted' = FALSE
        /\ UNCHANGED <<rescues, pin, on, log, cause, outAt, faults>>
        /\ wu = "running"
    BY <1>8 DEF WuRetry, Cleaned
  <2>2. wu' \in {"running", "done", "failed"} /\ wuTries' \in 0..WuRetries
    BY <1>8, WorkUnitAssumption DEF WuRetry, TypeOK
  <2>3. desired' \subseteq Sites /\ req' \subseteq Sites /\ blamed' \subseteq Sites
    BY <1>8 DEF WuRetry, TypeOK, Excluded, BestSites, Dominant
  <2>4. NoPost \in PostJson /\ \A n \in Nodes : 0 \in 0..Retries(n)
    BY RetriesType DEF NoPost, PostJson, Categories
  <2>5. TypeOK'
    BY <2>1, <2>2, <2>3, <2>4 DEF TypeOK, NodeStates
  <2>6. FreshStart'
    BY <2>1, NodesApart DEF FreshStart, NoPostData, HasPost
  <2>7. Control'
    BY <2>1, NodesApart DEF Control, Busy
  <2>. QED
    BY <2>5, <2>6, <2>7
<1>9. CASE Rescue
  <2>1. /\ node' = [n \in Nodes |-> IF node[n] = "done" THEN "done" ELSE "ready"]
        /\ tries' = [n \in Nodes |-> 0] /\ aborted' = FALSE
        /\ UNCHANGED <<elected, desired, pin, on, excluded, log, post, cause, outAt, blamed, faults>>
        /\ wu' = "running" /\ wuTries' = 0
    BY <1>9 DEF Rescue, Resumed
  <2>2. wuTries' \in 0..WuRetries /\ rescues' \in 0..MaxRescues /\ req' \subseteq Sites
    BY <1>9, WorkUnitAssumption DEF Rescue, TypeOK
  <2>3. \A n \in Nodes : 0 \in 0..Retries(n)
    BY RetriesType
  <2>4. TypeOK'
    BY <2>1, <2>2, <2>3 DEF TypeOK, NodeStates
  <2>5. FreshStart'
    BY <2>1, NodesApart DEF FreshStart, NoPostData, HasPost
  <2>6. Control'
    BY <2>1, NodesApart DEF Control, Busy
  <2>. QED
    BY <2>4, <2>5, <2>6
<1>10. CASE UNCHANGED vars
  BY <1>10 DEF vars, TypeOK, FreshStart, Control, Busy, NoPostData, HasPost
<1>. QED
  BY <1>2, <1>3, <1>4, <1>5, <1>6, <1>7, <1>8, <1>9, <1>10, StepKinds

-------------------------------------------------------------------------------
(* What each step does to nodes, pins and the elected site.                   *)

\* A landing job ends while no node is queued or running and no other has begun;
\* it elects a desired site or none.
LEMMA LandingMoves ==
    ASSUME ControlInv, LandingElects \/ LandingFails
    PROVE  /\ \A n \in Nodes : node'[n] \notin {"idle", "running"}
           /\ \A n \in Nodes \ {"landing"} : node'[n] = "ready" /\ tries'[n] = tries[n]
           /\ UNCHANGED <<aborted, desired, pin, on, excluded, post, outAt, blamed>>
           /\ elected' = elected \/ elected' \in desired
<1>1. PICK exit : NodeEnds("landing", exit)
  BY DEF LandingElects, LandingFails
<1>2. node["landing"] = "ready" /\ "landing" \in Nodes
  BY NodesApart DEF LandingElects, LandingFails, MayRun
<1>3. \A n \in Nodes \ {"landing"} : node[n] = "ready"
  BY <1>2 DEF ControlInv, FreshStart
<1>4. /\ node' = [node EXCEPT !["landing"] = AfterExit("landing", exit)]
      /\ tries' = [tries EXCEPT !["landing"] = IF AfterExit("landing", exit) = "ready" THEN @ + 1 ELSE @]
      /\ AfterExit("landing", exit) \in {"done", "failed", "ready"}
  BY <1>1, ExitType DEF NodeEnds
<1>5. /\ \A n \in Nodes : node'[n] \notin {"idle", "running"}
      /\ \A n \in Nodes \ {"landing"} : node'[n] = "ready"
  BY <1>2, <1>3, <1>4 DEF ControlInv, TypeOK
<1>6. \A n \in Nodes \ {"landing"} : tries'[n] = tries[n]
  BY <1>4
<1>7. /\ UNCHANGED <<aborted, desired, pin, on, excluded, post, outAt, blamed>>
      /\ elected' = elected \/ elected' \in desired
  BY DEF LandingElects, LandingFails, landingSub
<1>. QED
  BY <1>5, <1>6, <1>7

\* A node is pinned, when it is submitted, to machines that are not excluded, unless all are.
LEMMA SubmitMoves ==
    ASSUME ControlInv, NEW n \in Nodes, Submit(n)
    PROVE  /\ node' = [node EXCEPT ![n] = "idle"] /\ node[n] = "ready" /\ ~aborted
           /\ pin' = [pin EXCEPT ![n] = pin'[n]]
           /\ pin'[n] \subseteq Pool /\ (pin'[n] \subseteq Pool \ excluded \/ Pool \subseteq excluded)
           /\ UNCHANGED <<aborted, tries, elected, desired, excluded, post, outAt, blamed>>
           /\ on' = [on EXCEPT ![n] = None]
<1>1. PICK known \in BOOLEAN : pin' = [pin EXCEPT ![n] = PinnedTo(known)]
  BY DEF Submit
<1>2. pin \in [Nodes -> SUBSET Machines]
  BY DEF ControlInv, TypeOK
<1>3. pin'[n] = PinnedTo(known)
  BY <1>1, <1>2
<1>4. PinnedTo(known) \subseteq Pool /\ (PinnedTo(known) \subseteq Pool \ excluded \/ Pool \subseteq excluded)
  BY DEF PinnedTo
<1>. QED
  BY <1>1, <1>3, <1>4 DEF Submit, MayRun, landingSub, InnerRuns

\* A job starts at a machine of its pin.
LEMMA StartMoves ==
    ASSUME ControlInv, NEW n \in Nodes, Start(n)
    PROVE  /\ node' = [node EXCEPT ![n] = "running"] /\ node[n] = "idle"
           /\ on' = [on EXCEPT ![n] = on'[n]] /\ on'[n] \in pin[n]
           /\ UNCHANGED <<aborted, tries, elected, desired, pin, excluded, post, outAt, blamed>>
<1>1. PICK m \in pin[n] : on' = [on EXCEPT ![n] = m]
  BY DEF Start
<1>2. on'[n] = m
  BY <1>1 DEF ControlInv, TypeOK
<1>. QED
  BY <1>1, <1>2 DEF Start, landingSub

-------------------------------------------------------------------------------
(* Outputs and jobs stay where the merge job will look for them.              *)

\* A processing node is done only with its output at the elected site.
LEMMA DoneWithOutput ==
    ASSUME ControlInv, NEW p \in Procs, NEW n \in Nodes, Leaving(n), node'[p] = "done"
    PROVE  IF p = n THEN outAt'[p] = elected ELSE node[p] = "done" /\ outAt'[p] = outAt[p]
<1>1. PICK end \in End : Ends(n, end)
  BY DEF Leaving
<1>2. p \in Nodes /\ p # "cleanup" /\ outAt \in [Nodes -> Sites \cup {None}]
      /\ post \in [Nodes -> PostJson] /\ node \in [Nodes -> NodeStates]
  BY NodesApart DEF ControlInv, TypeOK
<1>3. CASE n = "cleanup"
  BY <1>1, <1>2, <1>3 DEF Ends, CleanupEnds, NodeEnds
<1>4. CASE n # "cleanup"
  <2>1. JobEnds(n, end)
    BY <1>1, <1>4 DEF Ends
  <2>2. outAt' = [outAt EXCEPT ![n] = IF end = Success THEN elected ELSE @]
    BY <2>1 DEF JobEnds
  <2>3. CASE p = n
    <3>1. PostData(n, end).exit = Return(end)
      BY DEF PostData
    <3>2. [post EXCEPT ![n] = PostData(n, end)][n].exit = Return(end)
      BY <1>2, <3>1
    <3>3. CASE PostExit(n, [post EXCEPT ![n] = PostData(n, end)]) = 43
      <4>1. node' = [m \in Nodes |-> IF node[m] \in {"idle", "running"} THEN "ready" ELSE node[m]]
        BY <2>1, <3>3 DEF JobEnds
      <4>. QED
        BY <1>2, <2>3, <4>1 DEF Leaving, Busy
    <3>4. CASE PostExit(n, [post EXCEPT ![n] = PostData(n, end)]) # 43
      <4>1. NodeEnds(n, PostExit(n, [post EXCEPT ![n] = PostData(n, end)]))
        BY <2>1, <3>4 DEF JobEnds
      <4>2. AfterExit(n, PostExit(n, [post EXCEPT ![n] = PostData(n, end)])) = "done"
        BY <1>2, <2>3, <4>1 DEF NodeEnds
      <4>3. PostExit(n, [post EXCEPT ![n] = PostData(n, end)]) = 0
        BY <4>2 DEF AfterExit
      <4>4. Return(end) = 0
        BY <3>2, <4>3 DEF PostExit
      <4>5. end = Success
        BY <4>4, EndType
      <4>. QED
        BY <1>2, <2>2, <2>3, <4>5
    <3>. QED
      BY <3>3, <3>4
  <2>4. CASE p # n
    <3>1. node[p] = "done"
      BY <1>2, <2>4, LeavingNodes DEF Leaving, Busy, ControlInv
    <3>. QED
      BY <1>2, <2>2, <2>4, <3>1
  <2>. QED
    BY <2>3, <2>4
<1>. QED
  BY <1>3, <1>4

\* Every step keeps outputs and pins at the elected site.
LEMMA PlacementStep == ControlInv /\ Placement /\ [Next]_vars => Placement'
<1>. SUFFICES ASSUME ControlInv, Placement, [Next]_vars PROVE Placement'
  OBVIOUS
<1>1. /\ node \in [Nodes -> NodeStates] /\ pin \in [Nodes -> SUBSET Machines]
      /\ on \in [Nodes -> Machines \cup {None}] /\ Procs \subseteq Nodes
      /\ "landing" \in Nodes /\ "landing" \notin Procs
  BY NodesApart DEF ControlInv, TypeOK
<1>2. CASE LandingElects \/ LandingFails
  BY <1>1, <1>2, LandingMoves DEF Placement, Busy
<1>3. ASSUME NEW n \in Nodes, Submit(n) PROVE Placement'
  <2>1. /\ node' = [node EXCEPT ![n] = "idle"] /\ node[n] = "ready"
        /\ pin' = [pin EXCEPT ![n] = pin'[n]] /\ pin'[n] \subseteq Pool
        /\ UNCHANGED <<elected, outAt>> /\ on' = [on EXCEPT ![n] = None]
    BY <1>3, SubmitMoves
  <2>2. Pool' = Pool
    BY <2>1 DEF Pool
  <2>. QED
    BY <1>1, <2>1, <2>2 DEF Placement, Busy
<1>4. ASSUME NEW n \in Nodes, Start(n) PROVE Placement'
  <2>1. /\ node' = [node EXCEPT ![n] = "running"] /\ node[n] = "idle"
        /\ on' = [on EXCEPT ![n] = on'[n]] /\ on'[n] \in pin[n]
        /\ UNCHANGED <<elected, pin, outAt>>
    BY <1>4, StartMoves
  <2>2. Pool' = Pool
    BY <2>1 DEF Pool
  <2>. QED
    BY <1>1, <2>1, <2>2 DEF Placement, Busy
<1>5. ASSUME NEW n \in Nodes, Leaving(n) PROVE Placement'
  <2>1. /\ \A m \in Nodes : Busy(m)' => Busy(m) /\ node'[m] = node[m]
        /\ UNCHANGED <<elected, pin, on>>
    BY <1>5, LeavingNodes DEF ControlInv
  <2>2. \A p \in Procs : node'[p] = "done" => outAt'[p] = elected
    BY <1>5, DoneWithOutput DEF Placement
  <2>3. Pool' = Pool
    BY <2>1 DEF Pool
  <2>. QED
    BY <1>1, <2>1, <2>2, <2>3 DEF Placement, Busy
<1>6. CASE WuSucceeds \/ WuFailsForGood \/ UNCHANGED vars
  <2>1. UNCHANGED <<node, elected, pin, on, outAt>>
    BY <1>6 DEF WuSucceeds, WuFailsForGood, vars
  <2>. QED
    BY <2>1 DEF Placement, Busy, Pool
<1>7. CASE WuRetry
  <2>1. node' = [n \in Nodes |-> "ready"]
    BY <1>7 DEF WuRetry, Cleaned
  <2>. QED
    BY <1>1, <2>1 DEF Placement, Busy
<1>8. CASE Rescue
  <2>1. node' = [n \in Nodes |-> IF node[n] = "done" THEN "done" ELSE "ready"]
        /\ UNCHANGED <<elected, outAt>>
    BY <1>8 DEF Rescue, Resumed
  <2>. QED
    BY <1>1, <2>1 DEF Placement, Busy
<1>. QED
  BY <1>2, <1>3, <1>4, <1>5, <1>6, <1>7, <1>8, StepKinds DEF ControlInv

-------------------------------------------------------------------------------
(* An excluded site is not elected again.                                     *)

\* Every step keeps excluded sites out of the desired ones.
LEMMA KeptStep == ControlInv /\ Kept /\ [Next]_vars => Kept'
<1>. SUFFICES ASSUME ControlInv, Kept, [Next]_vars PROVE Kept'
  OBVIOUS
<1>1. CASE LandingElects \/ LandingFails
  BY <1>1, LandingMoves DEF Kept
<1>2. ASSUME NEW n \in Nodes, Submit(n) \/ Start(n) \/ Leaving(n) PROVE Kept'
  <2>1. UNCHANGED <<elected, desired, blamed>>
    BY <1>2, SubmitMoves, StartMoves, LeavingNodes DEF ControlInv
  <2>. QED
    BY <2>1 DEF Kept
<1>3. CASE WuSucceeds \/ WuFailsForGood \/ Rescue \/ UNCHANGED vars
  <2>1. UNCHANGED <<elected, desired, blamed>>
    BY <1>3 DEF WuSucceeds, WuFailsForGood, Rescue, vars, landingSub
  <2>. QED
    BY <2>1 DEF Kept
<1>4. CASE WuRetry
  <2>1. elected' = None /\ elected' \notin Sites
    BY <1>4, NoSiteIsNone DEF WuRetry, Cleaned
  <2>2. \/ UNCHANGED <<desired, blamed>>
        \/ \E s \in Sites : desired' = desired \ {s} /\ blamed' = blamed \cup {s}
    BY <1>4 DEF WuRetry, landingSub, Excluded, BestSites, Dominant
  <2>3. desired \subseteq Sites /\ blamed \subseteq Sites
    BY DEF ControlInv, TypeOK
  <2>. QED
    BY <2>1, <2>2, <2>3 DEF Kept
<1>. QED
  BY <1>1, <1>2, <1>3, <1>4, StepKinds DEF ControlInv

-------------------------------------------------------------------------------
(* A retry is kept from the machine of the last transient failure.            *)

\* The POST script of a transient failure puts the machine on the list, unless
\* the work unit is aborted.
LEMMA TransientIsRecorded ==
    ASSUME ControlInv, NEW n \in Nodes, NEW end \in End, JobEnds(n, end), ~aborted',
           post'[n].category = "transient", post'[n].machine # None
    PROVE  post'[n].machine \in excluded'
<1>. DEFINE posts == [post EXCEPT ![n] = PostData(n, end)]
<1>1. post' = posts /\ aborted' = (PostExit(n, posts) = 43)
  BY DEF JobEnds
<1>2. posts[n] = PostData(n, end)
  BY DEF ControlInv, TypeOK
<1>3. posts[n].exit = Return(end)
      /\ posts[n].category = Classify(Return(end), end.tail, LoggedRemoval(n, end))
  BY <1>2 DEF PostData
<1>4. Return(end) # 0
  <2>1. post'[n].category = Classify(Return(end), end.tail, LoggedRemoval(n, end))
    BY <1>1, <1>3
  <2>. QED
    BY <2>1 DEF Classify
<1>5. PostExit(n, posts) # 0
  BY <1>3, <1>4 DEF PostExit
<1>6. excluded' = IF /\ PostExit(n, posts) # 0 /\ posts[n].category = "transient"
                     /\ posts[n].machine # None
                  THEN excluded \cup {posts[n].machine} ELSE excluded
  BY <1>1 DEF JobEnds
<1>. QED
  BY <1>1, <1>5, <1>6

\* The list only grows when a node leaves the queue, by the machine of a transient failure.
LEMMA LeavingRecords ==
    ASSUME ControlInv, NEW n \in Nodes, Leaving(n)
    PROVE  /\ excluded \subseteq excluded'
           /\ \A m \in Nodes \ {n} : post'[m] = post[m] /\ (tries'[m] = tries[m])
           /\ n # "cleanup" /\ ~aborted' /\ post'[n].category = "transient" /\ post'[n].machine # None
                 => post'[n].machine \in excluded'
<1>1. PICK end \in End : Ends(n, end)
  BY DEF Leaving
<1>2. post \in [Nodes -> PostJson]
  BY DEF ControlInv, TypeOK
<1>. DEFINE Counted(exit) == tries' = [tries EXCEPT ![n] = IF AfterExit(n, exit) = "ready" THEN @ + 1 ELSE @]
<1>2a. ASSUME NEW exit, Counted(exit) PROVE \A m \in Nodes \ {n} : tries'[m] = tries[m]
  BY <1>2a
<1>. HIDE DEF Counted
<1>3. CASE n = "cleanup"
  <2>1. Counted(Return(end)) /\ UNCHANGED <<excluded, post>>
    BY <1>1, <1>3 DEF Ends, CleanupEnds, NodeEnds, Counted
  <2>. QED
    BY <1>2a, <1>3, <2>1
<1>4. CASE n # "cleanup"
  <2>1. JobEnds(n, end)
    BY <1>1, <1>4 DEF Ends
  <2>2. excluded \subseteq excluded'
    BY <2>1 DEF JobEnds
  <2>3. \A m \in Nodes \ {n} : post'[m] = post[m]
    BY <1>2, <2>1 DEF JobEnds
  <2>4. \A m \in Nodes \ {n} : tries'[m] = tries[m]
    <3>1. tries' = tries \/ \E exit : Counted(exit)
      BY <2>1 DEF JobEnds, NodeEnds, Counted
    <3>. QED
      BY <1>2a, <3>1
  <2>. QED
    BY <2>1, <2>2, <2>3, <2>4, TransientIsRecorded
<1>. QED
  BY <1>3, <1>4

\* Every step keeps the machine of the last failure on the list.
LEMMA RecordedStep == ControlInv /\ Placement /\ Recorded /\ [Next]_vars => Recorded'
<1>. SUFFICES ASSUME ControlInv, Placement, Recorded, [Next]_vars PROVE Recorded'
  OBVIOUS
<1>. DEFINE J == Procs \cup {"merge"}
<1>1. /\ node \in [Nodes -> NodeStates] /\ pin \in [Nodes -> SUBSET Machines]
      /\ J \subseteq Nodes /\ "landing" \notin J /\ "cleanup" \notin J
  BY NodesApart DEF ControlInv, TypeOK
<1>2. CASE LandingElects \/ LandingFails
  <2>1. /\ \A n \in J : node'[n] = "ready" /\ tries'[n] = tries[n]
        /\ UNCHANGED <<aborted, excluded, post>>
    BY <1>1, <1>2, LandingMoves
  <2>. QED
    BY <2>1 DEF Recorded, LeftBy, Busy
<1>3. ASSUME NEW n \in Nodes, Submit(n) PROVE Recorded'
  <2>1. /\ node' = [node EXCEPT ![n] = "idle"] /\ ~aborted
        /\ pin' = [pin EXCEPT ![n] = pin'[n]]
        /\ pin'[n] \subseteq Pool \ excluded \/ Pool \subseteq excluded
        /\ UNCHANGED <<aborted, tries, elected, excluded, post>>
    BY <1>3, SubmitMoves
  <2>2. Pool' = Pool
    BY <2>1 DEF Pool
  <2>3. \A m \in J : LeftBy(m)' => LeftBy(m) /\ post[m].machine \in excluded
    BY <2>1 DEF Recorded, LeftBy
  <2>4. \A m \in J \ {n} : (Busy(m)' => Busy(m)) /\ pin'[m] = pin[m]
    BY <1>1, <2>1 DEF Busy
  <2>5. \A m \in J : LeftBy(m)' /\ Busy(m)' /\ ~(Pool \subseteq excluded) => post[m].machine \notin pin'[m]
    BY <1>1, <2>1, <2>3, <2>4 DEF Recorded
  <2>. QED
    BY <2>1, <2>2, <2>3, <2>5 DEF Recorded
<1>4. ASSUME NEW n \in Nodes, Start(n) PROVE Recorded'
  <2>1. /\ node' = [node EXCEPT ![n] = "running"] /\ node[n] = "idle"
        /\ UNCHANGED <<aborted, tries, elected, pin, excluded, post>>
    BY <1>4, StartMoves
  <2>2. \A m \in J : Busy(m)' => Busy(m)
    BY <1>1, <2>1 DEF Busy
  <2>. QED
    BY <2>1, <2>2 DEF Recorded, LeftBy, Pool
<1>5. ASSUME NEW n \in Nodes, Leaving(n) PROVE Recorded'
  <2>1. /\ \A m \in Nodes : Busy(m)' => Busy(m)
        /\ ~Busy(n)' /\ elected' = elected /\ pin' = pin /\ ~aborted
    BY <1>5, LeavingNodes DEF ControlInv, Control, Leaving
  <2>2. Pool' = Pool
    BY <2>1 DEF Pool
  <2>3. /\ excluded \subseteq excluded'
        /\ \A m \in Nodes \ {n} : post'[m] = post[m] /\ tries'[m] = tries[m]
        /\ n \in J /\ ~aborted' /\ LeftBy(n)' => post'[n].machine \in excluded'
    BY <1>1, <1>5, LeavingRecords DEF LeftBy
  <2>4. \A m \in J \ {n} : (LeftBy(m)' => LeftBy(m)) /\ post'[m].machine = post[m].machine
    BY <1>1, <2>3 DEF LeftBy
  <2>5. \A m \in J : LeftBy(m)' /\ ~aborted' => post'[m].machine \in excluded'
    BY <1>1, <2>1, <2>3, <2>4 DEF Recorded
  <2>6. \A m \in J : LeftBy(m)' /\ Busy(m)' /\ ~(Pool' \subseteq excluded') => post'[m].machine \notin pin'[m]
    BY <1>1, <2>1, <2>2, <2>3, <2>4 DEF Recorded
  <2>. QED
    BY <2>5, <2>6 DEF Recorded
<1>6. CASE WuSucceeds \/ WuFailsForGood \/ UNCHANGED vars
  <2>1. UNCHANGED <<node, tries, aborted, elected, pin, excluded, post>>
    BY <1>6 DEF WuSucceeds, WuFailsForGood, vars
  <2>. QED
    BY <2>1 DEF Recorded, LeftBy, Busy, Pool
<1>7. CASE WuRetry \/ Rescue
  <2>1. tries' = [n \in Nodes |-> 0]
    BY <1>7 DEF WuRetry, Rescue
  <2>2. \A n \in J : ~LeftBy(n)'
    BY <1>1, <2>1 DEF LeftBy
  <2>. QED
    BY <2>2 DEF Recorded
<1>. QED
  BY <1>2, <1>3, <1>4, <1>5, <1>6, <1>7, StepKinds DEF ControlInv

-------------------------------------------------------------------------------
(* The theorems.                                                              *)

IInv == ControlInv /\ Placement /\ Kept /\ Recorded

\* The invariant holds at first.
LEMMA IInvInit == Init => IInv
<1>. SUFFICES ASSUME Init PROVE IInv
  OBVIOUS
<1>1. TypeOK
  BY TypeInit
<1>2. /\ node = [n \in Nodes |-> "ready"] /\ tries = [n \in Nodes |-> 0] /\ elected = None
      /\ excluded = {} /\ post = [n \in Nodes |-> NoPost] /\ aborted = FALSE /\ blamed = {}
  BY DEF Init
<1>3. FreshStart /\ Control
  BY <1>2, NodesApart DEF FreshStart, NoPostData, HasPost, Control, Busy
<1>4. Placement
  BY <1>2, NodesApart DEF Placement, Busy
<1>5. Recorded
  BY <1>2, NodesApart DEF Recorded, LeftBy
<1>6. Kept
  BY <1>2 DEF Kept
<1>. QED
  BY <1>1, <1>3, <1>4, <1>5, <1>6 DEF IInv, ControlInv

\* The invariant holds in every state.
LEMMA WorkUnitInvariant == Spec => []IInv
<1>1. IInv /\ [Next]_vars => IInv'
  BY ControlStep, PlacementStep, KeptStep, RecordedStep DEF IInv
<1>. QED
  BY <1>1, IInvInit, PTL DEF Spec

\* The variables keep their types; the types hold only together with the
\* structure of the inner DAG, since a post.json takes its site from the elected
\* one when the log names none (condora_post_collect.py).
THEOREM WorkUnitTypes == Spec => []TypeOK
<1>1. IInv => TypeOK
  BY DEF IInv, ControlInv
<1>. QED
  BY <1>1, WorkUnitInvariant, PTL

\* A work unit whose landing node has not run carries no post.json, exclusion or
\* elected site of an earlier run: what wu_post.sh removes is all that the next
\* run would read.
THEOREM RetryStartsFresh == Spec => []FreshStart
<1>1. IInv => FreshStart
  BY DEF IInv, ControlInv
<1>. QED
  BY <1>1, WorkUnitInvariant, PTL

\* The merge job runs at the site that holds every processing output, through
\* retries of nodes, retries of the work unit at another site and rescues.
THEOREM MergeFollowsOutput == Spec => []MergeWhereTheOutputIs
<1>1. IInv => MergeWhereTheOutputIs
  <2>. SUFFICES ASSUME IInv, Busy("merge") PROVE (\A p \in Procs : outAt[p] = elected)
                                                 /\ (\A m \in pin["merge"] : SiteOf[m] = elected)
    BY DEF MergeWhereTheOutputIs, Busy
  <2>1. \A p \in Procs : outAt[p] = elected
    BY DEF IInv, ControlInv, Control, Placement
  <2>2. pin["merge"] \subseteq Pool
    BY NodesApart DEF IInv, Placement
  <2>. QED
    BY <2>1, <2>2 DEF Pool
<1>. QED
  BY <1>1, WorkUnitInvariant, PTL

\* A site that wu_post.sh excluded is never elected again, although the
\* Requirements it writes admit every site and a rescue rewrites them.
THEOREM ExcludedSiteStaysOut == Spec => []BlamedNotElected
<1>1. IInv => BlamedNotElected
  BY DEF IInv, Kept, BlamedNotElected
<1>. QED
  BY <1>1, WorkUnitInvariant, PTL

\* A retry after a transient failure runs on another machine while the site has
\* one that is not on excluded_machines.txt.
THEOREM RetryMovesOn == Spec => []AvoidsBadMachines
<1>1. IInv => AvoidsBadMachines
  <2>. SUFFICES ASSUME IInv, NEW n \in Procs \cup {"merge"}, node[n] = "running", tries[n] > 0,
                       ~(Pool \subseteq excluded), post[n].category = "transient"
                PROVE  on[n] # post[n].machine
    BY DEF AvoidsBadMachines
  <2>1. n \in Nodes /\ on[n] \in pin[n] /\ pin[n] \subseteq Machines
    BY NodesApart DEF IInv, ControlInv, TypeOK, Placement
  <2>2. CASE post[n].machine = None
    BY <2>1, <2>2, NoSiteIsNone
  <2>3. CASE post[n].machine # None
    <3>1. LeftBy(n) /\ Busy(n)
      BY <2>3 DEF LeftBy, Busy
    <3>. QED
      BY <2>1, <3>1 DEF IInv, Recorded
  <2>. QED
    BY <2>2, <2>3
<1>. QED
  BY <1>1, WorkUnitInvariant, PTL

===============================================================================
