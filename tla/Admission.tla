------------------------------- MODULE Admission -------------------------------
(***************************************************************************)
(* Several requests: the cycle of main_loop, which evaluates one after the *)
(* other and commits each, their admission (core/lifecycle_manager.py,     *)
(* _handle_queued), and the operator's calls (api/requests.py) in database *)
(* sessions of their own.                                                  *)
(*                                                                         *)
(* The cycle loads all requests at its start and a session never refreshes *)
(* a row it has loaded: an evaluation goes by the status of the start of   *)
(* the cycle.  A call reads the status first and writes it last.  Nothing  *)
(* checks in between that it is still the same.                            *)
(*                                                                         *)
(* A request has one DAG at a time: overlapping rounds, lost DAGMans and   *)
(* submissions that are rolled back are in RequestLifecycle and EventRanges.*)
(***************************************************************************)
EXTENDS Naturals, FiniteSets

CONSTANTS
    Requests,
    Rank,        \* the order of the queue: by priority, then age
    RoundsOf,    \* the rounds a request needs
    Settings,    \* max_active_dags, and whether max_concurrent_rounds > 1
    MaxRescues,  \* error_max_rescue_attempts
    Operations,  \* the operator's calls: "stop", "release", "fail", "abort"
    MaxCalls,    \* bound: calls
    Faults,      \* "rollback", "plan", "refusal", "timeout"
    MaxFaults    \* bound: faults

None == "none"
Same == "same"

ASSUME AdmissionAssumption ==
    /\ IsFiniteSet(Requests) /\ None \notin Requests
    /\ Rank \in [Requests -> Nat] /\ \A q, r \in Requests : Rank[q] = Rank[r] => q = r
    /\ RoundsOf \in [Requests -> Nat \ {0}] /\ MaxRescues \in Nat
    /\ Settings \subseteq [limit : Nat, pipelined : BOOLEAN]
    /\ Operations \subseteq {"stop", "release", "fail", "abort"}
    /\ Faults \subseteq {"rollback", "plan", "refusal", "timeout"}
    /\ MaxFaults \in Nat /\ MaxCalls \in Nat

VARIABLES
    settings,
    imported,  \* the requests whose current DAG the import has submitted
    status,    \* of each request, in the database
    old,       \* the requests whose updated_at is longer ago than their timeout
    row,       \* the status of the DAG that workflow.dag_id points to
    reason,    \* its stop_reason: "fail" when it begins with FAIL:
    rounds,    \* rounds completed
    chain,     \* rescues and recoveries before the current row
    job,       \* the DAGMan submitted last
    todo,      \* the requests that the cycle has still to evaluate
    loaded,    \* what it loaded of them
    failed,    \* failed_names of the cycle
    eval,      \* the evaluation in progress: what it will write
    call,      \* the operator's call for each request: what it will write
    calls,     \* the number of them so far
    refused,   \* requests that a refusal of Rucio has put on hold
    faults

loop == <<todo, loaded, failed, eval>>
mishaps == <<refused, faults>>
vars == <<settings, imported, status, old, row, reason, rounds, chain, job, loop, call, calls,
          mishaps>>

Terminal == {"completed", "failed", "aborted"}
Status == {"new", "submitted", "queued", "active", "stopping", "resubmitting", "paused", "held"}
          \cup Terminal
Row == {"none", "active", "ready", "completed", "failed", "stopped"}

Unloaded == [status |-> "new", old |-> FALSE]
NoEval == [req |-> None, status |-> Same, row |-> Same, creates |-> "nothing", counts |-> FALSE]
NoCall == [open |-> FALSE, status |-> Same, reason |-> Same]

TypeOK ==
    /\ settings \in Settings /\ imported \subseteq Requests
    /\ status \in [Requests -> Status] /\ old \subseteq Requests
    /\ row \in [Requests -> Row] /\ reason \in [Requests -> {"other", "fail"}]
    /\ rounds \in [Requests -> Nat] /\ chain \in [Requests -> Nat]
    /\ job \in [Requests -> {"none", "running", "done", "failed", "leaving", "gone"}]
    /\ todo \subseteq Requests /\ failed \subseteq Requests
    /\ loaded \in [Requests -> [status : Status, old : BOOLEAN]]
    /\ eval \in [req : Requests \cup {None}, status : Status \cup {Same}, row : Row \cup {Same},
                 creates : {"nothing", "round", "child"}, counts : BOOLEAN]
    /\ call \in [Requests -> [open : BOOLEAN, status : Status \cup {Same},
                               reason : {"other", "fail", Same}]]
    /\ calls \in 0..MaxCalls
    /\ refused \subseteq Requests /\ faults \in 0..MaxFaults

Init ==
    /\ settings \in Settings /\ imported = {}
    /\ status = [r \in Requests |-> "new"] /\ old = {}
    /\ row = [r \in Requests |-> "none"] /\ reason = [r \in Requests |-> "other"]
    /\ rounds = [r \in Requests |-> 0] /\ chain = [r \in Requests |-> 0]
    /\ job = [r \in Requests |-> "none"]
    /\ todo = {} /\ failed = {} /\ loaded = [r \in Requests |-> Unloaded] /\ eval = NoEval
    /\ call = [r \in Requests |-> NoCall] /\ calls = 0 /\ refused = {} /\ faults = 0

\* What goes wrong, and whom a refusal puts on hold.
Fault(f, S) ==
    /\ f \in Faults /\ faults < MaxFaults
    /\ faults' = faults + 1 /\ refused' = refused \cup S

-------------------------------------------------------------------------------
(* The cycle. *)

\* get_non_terminal_requests
NonTerminal == {r \in Requests : status[r] \notin Terminal \cup {"new"}}

Load(S) ==
    /\ todo' = S
    /\ loaded' = [r \in Requests |->
          IF r \in S THEN [status |-> status[r], old |-> r \in old] ELSE Unloaded]

CycleStarts ==
    /\ eval = NoEval /\ todo = {} /\ NonTerminal # {}
    /\ Load(NonTerminal) /\ failed' = {}
    /\ UNCHANGED <<settings, imported, status, old, row, reason, rounds, chain, job, eval,
                   call, calls, mishaps>>

\* The evaluation of a request that was in status s when it was loaded.
Evaluates(r, s) ==
    /\ eval = NoEval /\ r \in todo /\ loaded[r].status = s /\ ~loaded[r].old
    /\ todo' = todo \ {r} /\ loaded' = [loaded EXCEPT ![r] = Unloaded]
    /\ UNCHANGED <<settings, imported, status, old, row, reason, rounds, chain, failed, call,
                   calls>>

\* It will write a status, the status of the DAG, or a new row of dags.
Writes(r, s, d, creates, counts) ==
    eval' = [req |-> r, status |-> s, row |-> d, creates |-> creates, counts |-> counts]

Or(new, value) == IF new = Same THEN value ELSE new

\* The transaction is committed.  Whoever sets the stop_reason of the row
\* meanwhile sets that of the row before.
Commits ==
    LET r == eval.req
    IN  /\ r # None
        /\ status' = [status EXCEPT ![r] = Or(eval.status, @)]
        /\ old' = IF eval.status = Same THEN old ELSE old \ {r}
        /\ row' = [row EXCEPT ![r] = Or(eval.row, @)]
        /\ rounds' = [rounds EXCEPT ![r] = IF eval.counts THEN @ + 1 ELSE @]
        /\ chain' = [chain EXCEPT ![r] = CASE eval.creates = "round" -> 0
                                           [] eval.creates = "child" -> @ + 1 [] OTHER -> @]
        /\ IF eval.creates = "nothing" THEN UNCHANGED <<reason, call>>
           ELSE /\ reason' = [reason EXCEPT ![r] = "other"]
                /\ call' = [call EXCEPT ![r].reason = Same]
        /\ eval' = NoEval
        /\ imported' = IF eval.row = Same THEN imported ELSE imported \ {r}
        /\ UNCHANGED <<settings, job, todo, loaded, failed, calls, mishaps>>

\* The session is rolled back and the other requests are loaded anew, those
\* evaluated before among them.
RollsBack(r) ==
    /\ failed' = failed \cup {r}
    /\ Load(NonTerminal \ failed')
    /\ UNCHANGED <<settings, imported, status, old, row, reason, rounds, chain, job, call,
                   calls>>

EvaluationRaises ==
    /\ eval.req # None /\ eval.row # "active" /\ Fault("rollback", {})
    /\ RollsBack(eval.req) /\ eval' = NoEval

-------------------------------------------------------------------------------
(* SUBMITTED and QUEUED. *)

\* count_active_dags
ActiveRows == {r \in Requests : row[r] = "active"}

\* mutant: one too many.
CapacityOrOne == Cardinality(ActiveRows) <= settings.limit

HasCapacity == Cardinality(ActiveRows) < settings.limit

\* mutant: a request on hold keeps its turn.
QueuedOrHeld == {r \in Requests : status[r] \in {"queued", "held"}}

Queued == {r \in Requests : status[r] = "queued"}

\* get_queued_requests(limit=1) is another request.
AnotherIsNext(r) == Queued # {} /\ ~(r \in Queued /\ \A q \in Queued : Rank[r] <= Rank[q])

Admitted(r) == HasCapacity /\ ~AnotherIsNext(r)

\* A submitted request has its workflow by now.
SubmittedQueues(r) ==
    /\ Evaluates(r, "submitted")
    /\ Writes(r, "queued", Same, "nothing", FALSE) /\ UNCHANGED <<job, mishaps>>

\* A DAG runs already.
QueuedJoins(r) ==
    /\ Evaluates(r, "queued") /\ Admitted(r) /\ row[r] = "active"
    /\ Writes(r, "active", Same, "nothing", FALSE) /\ UNCHANGED <<job, mishaps>>

\* The rescue or recovery is submitted.
QueuedSubmits(r) ==
    /\ Evaluates(r, "queued") /\ Admitted(r) /\ row[r] = "ready"
    /\ Writes(r, "active", "active", "nothing", FALSE)
    /\ job' = [job EXCEPT ![r] = "running"] /\ UNCHANGED mishaps

\* plan_production_dag submits the next round; it returns None after the last.
Plans(r, s, counts) ==
    /\ Writes(r, s, "active", "round", counts)
    /\ job' = [job EXCEPT ![r] = "running"]

QueuedPlans(r) ==
    /\ Evaluates(r, "queued") /\ Admitted(r) /\ row[r] \notin {"active", "ready"}
    /\ IF rounds[r] < RoundsOf[r] THEN Plans(r, "active", FALSE)
       ELSE Writes(r, "completed", Same, "nothing", FALSE) /\ UNCHANGED job
    /\ UNCHANGED mishaps

-------------------------------------------------------------------------------
(* ACTIVE. *)

Last(r) == rounds[r] + 1 >= RoundsOf[r]

\* The DAG is complete.  With one round at a time the request goes back to the
\* queue; otherwise it stays ACTIVE and the next round is planned at once, or in
\* the next cycle when that fails.
ActiveRoundDone(r) ==
    /\ Evaluates(r, "active") /\ row[r] = "active" /\ job[r] = "done"
    /\ \/ /\ Last(r) \/ ~settings.pipelined
          /\ Writes(r, IF Last(r) THEN "completed" ELSE "queued", "completed", "nothing", TRUE)
          /\ UNCHANGED <<job, mishaps>>
       \/ ~Last(r) /\ settings.pipelined /\ Plans(r, Same, TRUE) /\ UNCHANGED mishaps
       \/ /\ ~Last(r) /\ settings.pipelined /\ UNCHANGED job
          /\ Fault("plan", {})
          /\ Writes(r, Same, "completed", "nothing", TRUE)

\* mutant: the DAG of a HELD request stays active.
KeptRow == Same

HeldRow == "failed"

\* The DAG has failed, or its DAGMan was removed: handle_dag_completion.
ActiveFails(r) ==
    /\ Evaluates(r, "active")
    /\ row[r] = "failed" \/ (row[r] = "active" /\ job[r] \in {"failed", "leaving", "gone"})
    /\ \/ chain[r] < MaxRescues /\ Writes(r, "resubmitting", "ready", "child", FALSE)
       \/ Writes(r, "held", HeldRow, "nothing", FALSE)
    /\ UNCHANGED <<job, mishaps>>

\* No DAG is active: the target is reached, or the next round is planned.
ActivePlans(r) ==
    /\ Evaluates(r, "active") /\ row[r] \in {"completed", "ready", "stopped"}
    /\ IF rounds[r] < RoundsOf[r] THEN Plans(r, Same, FALSE)
       ELSE Writes(r, "completed", Same, "nothing", FALSE) /\ UNCHANGED job
    /\ UNCHANGED mishaps

\* Rucio refuses to register what the running DAG has finished.
ActiveRefused(r) ==
    /\ Evaluates(r, "active") /\ row[r] = "active" /\ job[r] = "running" /\ Fault("refusal", {r})
    /\ Writes(r, "held", Same, "nothing", FALSE) /\ UNCHANGED job

-------------------------------------------------------------------------------
(* STOPPING and RESUBMITTING. *)

InQueue(r) == row[r] = "active" /\ job[r] \in {"running", "leaving"}

\* condor_rm is tried again.
StoppingRemoves(r) ==
    /\ Evaluates(r, "stopping") /\ row[r] = "active" /\ job[r] = "running"
    /\ job' = [job EXCEPT ![r] = "leaving"] /\ UNCHANGED <<eval, mishaps>>

StoppedRow(r) == IF row[r] = "active" THEN "stopped" ELSE Same

\* A row that fails: those that are over stay as they are.
FailedRow(d) == IF d \in {"none", "completed", "failed"} THEN d ELSE "failed"

\* The DAGMan has left the queue.
StoppingEnds(r) ==
    /\ Evaluates(r, "stopping") /\ row[r] # "none" /\ ~InQueue(r)
    /\ IF reason[r] = "fail" THEN Writes(r, "failed", FailedRow(row[r]), "nothing", FALSE)
       ELSE Writes(r, "paused", StoppedRow(r), "nothing", FALSE)
    /\ UNCHANGED <<job, mishaps>>

\* _prepare_recovery after a stop; the rescue of the error handler is there.
Resubmits(r) ==
    /\ Evaluates(r, "resubmitting")
    /\ IF row[r] = "stopped" THEN Writes(r, "queued", "ready", "child", FALSE)
       ELSE Writes(r, "queued", Same, "nothing", FALSE)
    /\ UNCHANGED <<job, mishaps>>

\* _is_stuck comes before the handler: an old request is only reported.
NothingToDo(r) ==
    LET s == loaded[r].status
    IN  \/ loaded[r].old \/ s \in {"held", "paused"}
        \/ s = "queued" /\ ~Admitted(r)
        \/ s = "active" /\ row[r] = "active" /\ job[r] = "running"
        \/ s = "stopping" /\ (row[r] = "none" \/ (row[r] = "active" /\ job[r] = "leaving"))

Passes(r) ==
    /\ eval = NoEval /\ r \in todo /\ NothingToDo(r)
    /\ todo' = todo \ {r} /\ loaded' = [loaded EXCEPT ![r] = Unloaded]
    /\ UNCHANGED <<settings, imported, status, old, row, reason, rounds, chain, job, failed,
                   eval, call, calls, mishaps>>

-------------------------------------------------------------------------------
(* The operator, HTCondor, and time. *)

\* POST /import: the request is there with its workflow.  Its first DAG is
\* submitted at once, without a look at the limit, or it waits for its turn: in a
\* dry run and when the submission fails.
Imports(r) ==
    /\ status[r] = "new"
    /\ \/ /\ status' = [status EXCEPT ![r] = "active"] /\ row' = [row EXCEPT ![r] = "active"]
          /\ job' = [job EXCEPT ![r] = "running"] /\ imported' = imported \cup {r}
       \/ status' = [status EXCEPT ![r] = "submitted"] /\ UNCHANGED <<row, job, imported>>
    /\ UNCHANGED <<settings, old, reason, rounds, chain, loop, call, calls, mishaps>>

Allowed(op) ==
    CASE op = "stop" -> {"active"}
      [] op = "release" -> {"held", "paused"}
      [] op = "fail" -> {"active", "stopping", "held", "paused"}
      [] OTHER -> Status \ (Terminal \cup {"new"})

\* stop, fail and the DAGMan: condor_rm is tried, and may fail.
Removes(op, r) ==
    IF op \in {"stop", "fail"} /\ status[r] # "stopping" /\ row[r] = "active" /\ job[r] = "running"
    THEN \E j \in {"running", "leaving"} : job' = [job EXCEPT ![r] = j]
    ELSE UNCHANGED job

\* What the call will write of a request in status s.
Outcome(op, s) ==
    CASE op = "abort" -> "aborted"
      [] op = "release" -> IF s = "paused" THEN "resubmitting" ELSE "queued"
      [] s = "active" -> "stopping"
      [] s = "stopping" -> Same
      [] OTHER -> "failed"

\* A call looks at the status and removes the DAGMan.  It sets the stop_reason of
\* a DAG that it found, of a request that stops or is stopping.  The operator
\* waits for its answer before he makes another call for the same request.
Asks(op, r) ==
    /\ calls < MaxCalls /\ ~call[r].open /\ status[r] \in Allowed(op)
    /\ Removes(op, r)
    /\ call' = [call EXCEPT ![r] =
          [open |-> TRUE, status |-> Outcome(op, status[r]),
           reason |-> IF row[r] = "none" \/ Outcome(op, status[r]) \notin {"stopping", Same}
                      THEN Same ELSE IF op = "fail" THEN "fail" ELSE "other"]]
    /\ calls' = calls + 1
    /\ UNCHANGED <<settings, imported, status, old, row, reason, rounds, chain, loop,
                   mishaps>>

\* It writes the status, the stop_reason and a failed request's rows.
Answers(r) ==
    /\ call[r].open
    /\ status' = [status EXCEPT ![r] = Or(call[r].status, @)]
    /\ old' = IF call[r].status = Same THEN old ELSE old \ {r}
    /\ reason' = [reason EXCEPT ![r] = Or(call[r].reason, @)]
    /\ row' = IF call[r].status = "failed" THEN [row EXCEPT ![r] = FailedRow(@)] ELSE row
    /\ call' = [call EXCEPT ![r] = NoCall]
    /\ UNCHANGED <<settings, imported, rounds, chain, job, loop, calls, mishaps>>

DagEnds(r) ==
    /\ job[r] = "running"
    /\ \E j \in {"done", "failed"} : job' = [job EXCEPT ![r] = j]
    /\ UNCHANGED <<settings, imported, status, old, row, reason, rounds, chain, loop, call,
                   calls, mishaps>>

DagmanLeaves(r) ==
    /\ job[r] = "leaving"
    /\ job' = [job EXCEPT ![r] = "gone"]
    /\ UNCHANGED <<settings, imported, status, old, row, reason, rounds, chain, loop, call,
                   calls, mishaps>>

\* The timeouts of QUEUED and ACTIVE; the others are in RequestLifecycle.
Ages(r) ==
    /\ status[r] \in {"queued", "active"} /\ Fault("timeout", {})
    /\ old' = old \cup {r}
    /\ loaded' = IF r \in todo THEN [loaded EXCEPT ![r].old = TRUE] ELSE loaded
    /\ UNCHANGED <<settings, imported, status, row, reason, rounds, chain, job, todo, failed,
                   eval, call, calls>>

-------------------------------------------------------------------------------

Evaluation(r) ==
    \/ SubmittedQueues(r) \/ QueuedJoins(r) \/ QueuedSubmits(r) \/ QueuedPlans(r)
    \/ ActiveRoundDone(r) \/ ActiveFails(r) \/ ActivePlans(r) \/ ActiveRefused(r)
    \/ StoppingRemoves(r) \/ StoppingEnds(r) \/ Resubmits(r) \/ Passes(r)

Loop == CycleStarts \/ Commits \/ EvaluationRaises \/ \E r \in Requests : Evaluation(r)

Condor(r) == DagEnds(r) \/ DagmanLeaves(r)

Next ==
    \/ Loop
    \/ \E r \in Requests : Condor(r) \/ Imports(r) \/ Ages(r)
    \/ \E r \in Requests : Answers(r) \/ \E op \in Operations : Asks(op, r)

\* The loop goes on, DAGs end, calls are answered.  Nobody has to create a
\* request or to make a call.
Fairness ==
    /\ WF_vars(Loop)
    /\ \A r \in Requests : WF_vars(Condor(r))
    /\ \A r \in Requests : WF_vars(Answers(r))

Spec == Init /\ [][Next]_vars /\ Fairness

-------------------------------------------------------------------------------
(* Properties. *)

\* Never more DAGs are active than max_active_dags, whatever the calls and the
\* evaluations overwrite, but for those that an import submits.  (Planning in
\* ACTIVE does not look at the limit either.)
CapacityKept == ~settings.pipelined => Cardinality(ActiveRows \ imported) <= settings.limit

\* Its DAG keeps its place until somebody acts: an abort leaves the DAG alone,
\* and so does the hold after a refusal.
KeepsPlace(r) == status[r] = "aborted" \/ (status[r] = "held" /\ r \in refused)

\* Otherwise a place is never held by the DAG of a request that no evaluation
\* looks at, so that it would not come back.
PlacesComeBack ==
    \A r \in Requests : row[r] = "active" /\ ~KeepsPlace(r) =>
        status[r] \in {"queued", "active", "stopping", "resubmitting"}

\* Every queued request has its turn, unless a place is kept or a request is past
\* its timeout, which nobody evaluates any more.  (Released after a refusal, a
\* request may wait for the place of its own DAG, which is not polled in QUEUED.)
NobodyStarves ==
    \A r \in Requests : status[r] = "queued" ~>
        status[r] # "queued" \/ \E q \in Requests : KeepsPlace(q) \/ q \in refused \cup old

-------------------------------------------------------------------------------
(* What documents say and the code does not do (see the README). *)

\* "Does not consume admission capacity while HELD" (docs/error_handling.md:340):
\* after a refusal of Rucio its DAG runs on, and nobody looks at its end.
HeldFreesPlace == \A r \in Requests : status[r] = "held" => row[r] # "active"

\* ABORTED is a terminal status (docs/spec.md:749): an evaluation that was under
\* way, or is to come in the same cycle, goes by the status before.
AbortIsFinal ==
    [][\A r \in Requests : status[r] = "aborted" => status'[r] = "aborted"]_vars

\* max_active_dags bounds the active DAGs (docs/spec.md:1309): an import does not
\* ask for a place.
LimitForAll == ~settings.pipelined => Cardinality(ActiveRows) <= settings.limit

===============================================================================
