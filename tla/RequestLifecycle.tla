--------------------------- MODULE RequestLifecycle ---------------------------
(***************************************************************************)
(* One production request as the lifecycle manager drives it               *)
(* (core/lifecycle_manager.py with dag_monitor.py, error_handler.py and    *)
(* the control part of dag_planner.py), together with the HTCondor DAGMan  *)
(* processes it starts and the operator calls of api/requests.py.          *)
(*                                                                         *)
(* Every handler of the lifecycle loop is one step, except the handler of  *)
(* ACTIVE: it polls the workflow's DAGs one after another inside one       *)
(* database transaction, so it is a sequence of steps between ActiveBegin  *)
(* and a commit; a crash in between rolls the database back and leaves     *)
(* HTCondor as it is.                                                      *)
(*                                                                         *)
(* Data abstraction: a work unit that completes contributes one unit to    *)
(* events_produced, so Target and the round sizes count work units;        *)
(* "active" stands for the DAG statuses submitted and running, which the   *)
(* code always tests together.                                             *)
(***************************************************************************)
EXTENDS Naturals, FiniteSets

CONSTANTS
    MaxDags,             \* bound: rows the dags table may get for the workflow
    Target,              \* target_events of the workflow
    FirstRoundWUs,       \* work units planned for round 0 (the pilot round)
    WUsPerRound,         \* work_units_per_round of the later rounds
    MaxConcurrentRounds, \* max_concurrent_rounds
    MaxRescueAttempts,   \* error_max_rescue_attempts
    HoldPercent,         \* error_hold_threshold, in percent
    AdvancePercent,      \* round_advance_completion_fraction, in percent
    PilotThrowaway,      \* pilot_throwaway
    Faults,              \* what the environment may do wrong
    Operations           \* what the operator may call

FaultKinds == {"lost", "rmFails", "rucio", "planFails", "crash", "spoolLost", "timeout"}
OperatorCalls == {"stop", "release", "fail", "abort"}

ASSUME ConstantsAssumption ==
    /\ {MaxDags, Target, FirstRoundWUs, WUsPerRound, MaxConcurrentRounds} \subseteq Nat \ {0}
    /\ {MaxRescueAttempts, HoldPercent, AdvancePercent} \subseteq Nat
    /\ PilotThrowaway \in BOOLEAN
    /\ Faults \subseteq FaultKinds
    /\ Operations \subseteq OperatorCalls

DagId == 1..MaxDags
Wu == 1..(IF FirstRoundWUs > WUsPerRound THEN FirstRoundWUs ELSE WUsPerRound)

RequestStatus == {"submitted", "queued", "active", "stopping", "resubmitting",
                  "paused", "held", "completed", "failed", "aborted"}
Terminal == {"completed", "failed", "aborted"}
DagStatus == {"absent", "ready", "active", "completed", "partial", "failed", "stopped"}

\* A row of the dags table.  dir is the row whose planning wrote the submit
\* directory: a rescue row shares the directory of its parent.
\* tries is the length of its parent_dag_id chain, stop the stop_reason.
DagRow == [st : DagStatus, dir : DagId, rnd : Nat, tries : Nat, total : Nat,
           done : SUBSET Wu, stop : {"no", "stop", "FAIL"}]

NoDag == [st |-> "absent", dir |-> 1, rnd |-> 0, tries |-> 0, total |-> 0,
          done |-> {}, stop |-> "no"]

JobState == {"none", "alive", "removing", "exited", "gone"}

VARIABLES
    \* the database, as the lifecycle session sees it
    status,     \* requests.status
    head,       \* workflows.dag_id (0: NULL)
    round,      \* workflows.current_round
    produced,   \* workflows.events_produced
    dags,       \* the workflow's rows of the dags table, in creation order
    used,       \* number of those rows
    \* HTCondor and the submit directories
    job,        \* the DAGMan of each row
    nodeDone,   \* per directory: work units its status file shows done
    nodeFailed, \* per directory: work units its status file shows failed
    discarded,  \* per directory: work units whose merged files were deleted
    \* the evaluation of the ACTIVE handler in progress
    pc, todo, snap,
    \* history
    refused,    \* this evaluation met a RucioRegistrationError
    failAsked   \* the operator's fail call was accepted for a running request

db == <<status, head, round, produced, dags, used>>
condor == <<job, nodeDone, nodeFailed>>
evaluation == <<pc, todo, snap, refused>>
vars == <<db, condor, discarded, evaluation, failAsked>>

Database == [status : RequestStatus, head : DagId \cup {0}, round : Nat,
             produced : Nat, dags : [DagId -> DagRow], used : 0..MaxDags]

NoSnap == [status |-> "active", head |-> 0, round |-> 0, produced |-> 0,
           dags |-> [d \in DagId |-> NoDag], used |-> 0]

DatabaseOK ==
    /\ status \in RequestStatus
    /\ head \in DagId \cup {0}
    /\ round \in Nat
    /\ produced \in Nat
    /\ dags \in [DagId -> DagRow]
    /\ used \in 0..MaxDags

CondorOK ==
    /\ job \in [DagId -> JobState]
    /\ nodeDone \in [DagId -> SUBSET Wu]
    /\ nodeFailed \in [DagId -> SUBSET Wu]
    /\ discarded \in [DagId -> SUBSET Wu]

EvaluationOK ==
    /\ pc \in {"idle", "poll", "finish", "down"}
    /\ todo \in SUBSET DagId
    /\ snap \in Database
    /\ refused \in BOOLEAN
    /\ failAsked \in BOOLEAN

TypeOK == DatabaseOK /\ CondorOK /\ EvaluationOK

Init ==
    /\ status = "submitted"
    /\ head = 0 /\ round = 0 /\ produced = 0 /\ used = 0
    /\ dags = [d \in DagId |-> NoDag]
    /\ job = [d \in DagId |-> "none"]
    /\ nodeDone = [d \in DagId |-> {}]
    /\ nodeFailed = [d \in DagId |-> {}]
    /\ discarded = [d \in DagId |-> {}]
    /\ pc = "idle" /\ todo = {} /\ snap = NoSnap
    /\ refused = FALSE /\ failAsked = FALSE

-------------------------------------------------------------------------------
(* Helpers on DAG rows. *)

\* get_active_dags_for_workflow
ActiveDags(rows) == {d \in DagId : rows[d].st = "active"}

TargetReached == produced >= Target

\* mutant: the work units the row already lists are reported again.
NewlyCompletedAll(d) == nodeDone[dags[d].dir]

\* Work units the status file shows done and the row does not list yet.
NewlyCompleted(d) == nodeDone[dags[d].dir] \ dags[d].done

\* The final status of a DAG whose DAGMan is gone, from its node counts alone.
FinalStatus(dir) ==
    IF nodeFailed[dir] = {}
    THEN IF nodeDone[dir] = {} THEN "unknown" ELSE "completed"
    ELSE IF nodeDone[dir] = {} THEN "failed" ELSE "partial"

\* Round 0 output is thrown away; a row's own round_number decides.
Throwaway(d) == PilotThrowaway /\ dags[d].rnd = 0

\* The row created for a rescue or a recovery of a DAG: same files and the
\* same completed work units, but no round_number, so the column default 0.
RescueRow(row) ==
    [st |-> "ready", dir |-> row.dir, rnd |-> 0, tries |-> row.tries + 1,
     total |-> row.total, done |-> row.done, stop |-> "no"]

\* mutant: the chain of rescues is not counted.
RescueAlwaysAllowed(row) ==
    (row.total - Cardinality(row.done)) * 100 < HoldPercent * row.total

\* error_handler.handle_dag_completion: rescue, or hold for the operator.
RescueAllowed(row) ==
    LET failedWus == row.total - Cardinality(row.done)
    IN  row.tries < MaxRescueAttempts /\ failedWus * 100 < HoldPercent * row.total

\* mutant: the last round is as large as the others.
FullRoundSize == IF round = 0 THEN FirstRoundWUs ELSE WUsPerRound

\* plan_production_dag: the size of the next round.
RoundSize ==
    LET cap == IF round = 0 THEN FirstRoundWUs ELSE WUsPerRound
        remaining == Target - produced
    IN  IF remaining < cap THEN remaining ELSE cap

\* mutant: the directory is named after the number of rows before the insert.
PlannedRowBefore(st) ==
    [st |-> st, dir |-> used, rnd |-> round, tries |-> 0, total |-> RoundSize,
     done |-> {}, stop |-> "no"]

PlannedRow(st) ==
    [st |-> st, dir |-> used + 1, rnd |-> round, tries |-> 0, total |-> RoundSize,
     done |-> {}, stop |-> "no"]

\* The rescue row the workflow points to, still to be submitted.
RescuePending == head # 0 /\ dags[head].st = "ready" /\ dags[head].tries > 0

\* The DAG the workflow points to, if its DAGMan may still run.
HeadIfActive == {d \in ActiveDags(dags) : d = head}

\* condor_rm of the DAGMans of a set of rows.  A schedd that does not answer
\* removes nothing; a removed DAGMan needs time to leave the queue.
AfterRemove(j) == CASE j = "alive" -> "removing" [] j = "exited" -> "gone" [] OTHER -> j

CondorRm(S) ==
    \E ok \in (IF "rmFails" \in Faults THEN SUBSET S ELSE {S}) :
        job' = [d \in DagId |-> IF d \in ok THEN AfterRemove(job[d]) ELSE job[d]]

\* The transaction of one evaluation: begin, commit, and a crash of the
\* service (or an exception of the handler), which rolls it back; the loop is
\* down until the service is back (or has slept after the exception).
Idle == pc = "idle"
Evaluating == pc \in {"poll", "finish"}
Begin(work) ==
    /\ Idle
    /\ pc' = (IF work = {} THEN "finish" ELSE "poll")
    /\ todo' = work
    /\ snap' = [status |-> status, head |-> head, round |-> round,
                produced |-> produced, dags |-> dags, used |-> used]
    /\ refused' = FALSE
Commit(isRefused) ==
    pc' = "idle" /\ todo' = {} /\ snap' = NoSnap /\ refused' = isRefused
NextPoll(d, isRefused) ==
    /\ todo' = todo \ {d}
    /\ pc' = (IF todo = {d} THEN "finish" ELSE "poll")
    /\ refused' = isRefused
    /\ UNCHANGED snap

Crash ==
    /\ "crash" \in Faults
    /\ Evaluating
    /\ status' = snap.status /\ head' = snap.head /\ round' = snap.round
    /\ produced' = snap.produced /\ dags' = snap.dags /\ used' = snap.used
    /\ pc' = "down" /\ todo' = {} /\ snap' = NoSnap /\ refused' = FALSE
    /\ UNCHANGED <<condor, discarded, failAsked>>

Restart ==
    /\ pc = "down"
    /\ pc' = "idle"
    /\ UNCHANGED <<db, condor, discarded, todo, snap, refused, failAsked>>

-------------------------------------------------------------------------------
(* SUBMITTED, QUEUED, RESUBMITTING, STOPPING: one step per evaluation. *)

\* _handle_submitted: the workflow is imported and the request queued.
HandleSubmitted ==
    /\ Idle /\ status = "submitted"
    /\ status' = "queued"
    /\ UNCHANGED <<head, round, produced, dags, used, condor, discarded, evaluation, failAsked>>

\* _handle_queued passed admission; admission itself (capacity, priority) is
\* the environment's choice of when this step happens.
Queued == Idle /\ status = "queued"

QueuedToActive ==
    /\ Queued
    /\ ActiveDags(dags) # {}
    /\ status' = "active"
    /\ UNCHANGED <<head, round, produced, dags, used, condor, discarded, evaluation, failAsked>>

\* Rescue re-admission: the original DAG file is submitted again and DAGMan
\* skips the nodes the rescue file lists as done.
QueuedSubmitRescue ==
    /\ Queued
    /\ ActiveDags(dags) = {}
    /\ RescuePending
    /\ dags' = [dags EXCEPT ![head].st = "active"]
    /\ job' = [job EXCEPT ![head] = "alive"]
    /\ nodeFailed' = [nodeFailed EXCEPT ![dags[head].dir] = {}]
    /\ status' = "active"
    /\ UNCHANGED <<head, round, produced, used, nodeDone, discarded, evaluation, failAsked>>

\* plan_production_dag: create the row, submit it, reserve the round.
PlanRound(rows) ==
    /\ used < MaxDags
    /\ ~TargetReached
    /\ used' = used + 1
    /\ dags' = [rows EXCEPT ![used + 1] = PlannedRow("active")]
    /\ job' = [job EXCEPT ![used + 1] = "alive"]
    /\ head' = used + 1
    /\ round' = round + 1
    /\ UNCHANGED <<produced, nodeDone, nodeFailed, discarded, failAsked>>

\* A fresh round; the spool directory of a pending rescue may be gone, and
\* then the rescue row fails and a fresh round replaces it.
QueuedPlan ==
    /\ Queued
    /\ ActiveDags(dags) = {}
    /\ \/ ~RescuePending /\ PlanRound(dags)
       \/ /\ RescuePending /\ "spoolLost" \in Faults
          /\ PlanRound([dags EXCEPT ![head].st = "failed"])
    /\ status' = "active"
    /\ UNCHANGED evaluation

\* The planner finds no remaining event: all work is done.
QueuedNothingLeft ==
    /\ Queued
    /\ ActiveDags(dags) = {}
    /\ TargetReached
    /\ \/ ~RescuePending /\ UNCHANGED dags
       \/ /\ RescuePending /\ "spoolLost" \in Faults
          /\ dags' = [dags EXCEPT ![head].st = "failed"]
    /\ status' = "completed"
    /\ UNCHANGED <<head, round, produced, used, condor, discarded, evaluation, failAsked>>

\* _prepare_recovery after a clean stop; a rescue made by the error handler
\* is already there.
HandleResubmitting ==
    /\ Idle /\ status = "resubmitting"
    /\ status' = "queued"
    /\ IF head # 0 /\ dags[head].st = "stopped"
       THEN /\ used < MaxDags
            /\ used' = used + 1 /\ head' = used + 1
            /\ dags' = [dags EXCEPT ![used + 1] = RescueRow(dags[head])]
       ELSE UNCHANGED <<used, head, dags>>
    /\ UNCHANGED <<round, produced, condor, discarded, evaluation, failAsked>>

Stopping == Idle /\ status = "stopping"

\* mutant: a removed DAGMan that still shuts down counts as gone.
DrainedEarly(S) == \A d \in S : job[d] # "alive"

\* mutant: only the newest DAG is waited for.
DrainedHead(S) == head \in S => job[head] = "gone"

\* The queue shows none of these DAGMans any more (query_job returns None).
Drained(S) == \A d \in S : job[d] = "gone"

\* mutant: the removal is retried for the newest DAG only.
RetriesRemoveOfHead ==
    /\ Stopping
    /\ ~Drained(ActiveDags(dags))
    /\ CondorRm(HeadIfActive)
    /\ UNCHANGED <<db, nodeDone, nodeFailed, discarded, evaluation, failAsked>>

StoppingRetriesRemove ==
    /\ Stopping
    /\ ~Drained(ActiveDags(dags))
    /\ CondorRm(ActiveDags(dags))
    /\ UNCHANGED <<db, nodeDone, nodeFailed, discarded, evaluation, failAsked>>

FailRequested == \E d \in ActiveDags(dags) \cup {head} : d # 0 /\ dags[d].stop = "FAIL"

FailedRows(rows) ==
    [d \in DagId |-> IF rows[d].st \in {"absent", "failed", "completed"} THEN rows[d]
                     ELSE [rows[d] EXCEPT !.st = "failed"]]

StoppingDone ==
    /\ Stopping
    /\ head # 0
    /\ Drained(ActiveDags(dags))
    /\ IF FailRequested
       THEN dags' = FailedRows(dags) /\ status' = "failed"
       ELSE /\ dags' = [d \in DagId |-> IF dags[d].st = "active"
                                        THEN [dags[d] EXCEPT !.st = "stopped"] ELSE dags[d]]
            /\ status' = "paused"
    /\ UNCHANGED <<head, round, produced, used, condor, discarded, evaluation, failAsked>>

-------------------------------------------------------------------------------
(* ACTIVE: poll each DAG, then decide about the round. *)

RecordPoll(d, st) ==
    LET row == dags[d]
    IN  [dags EXCEPT ![d] = [row EXCEPT !.st = st, !.done = row.done \cup NewlyCompleted(d)]]

\* _process_completed_wus: a fatal registration error skips the counting.
Refusals(d) ==
    IF "rucio" \in Faults /\ NewlyCompleted(d) # {} THEN BOOLEAN ELSE {FALSE}
Credited(d, refusal) ==
    IF refusal \/ Throwaway(d) THEN produced
    ELSE produced + Cardinality(NewlyCompleted(d))

\* mutant: the request stays ACTIVE after a rescue row was made.
FailureKeepsActive(rows, d) ==
    IF RescueAllowed(rows[d])
    THEN /\ used < MaxDags
         /\ used' = used + 1 /\ head' = used + 1
         /\ dags' = [rows EXCEPT ![used + 1] = RescueRow(rows[d])]
         /\ UNCHANGED status
    ELSE /\ dags' = rows /\ status' = "held" /\ UNCHANGED <<used, head>>

\* mutant: the failed row itself is queued again.
RescueInPlace(rows, d) ==
    /\ UNCHANGED <<used, head>>
    /\ IF RescueAllowed(rows[d])
       THEN /\ dags' = [rows EXCEPT ![d].st = "ready", ![d].tries = @ + 1]
            /\ status' = "resubmitting"
       ELSE dags' = rows /\ status' = "held"

\* _handle_single_dag_failure: a rescue row becomes the head, or a hold.
FailureHandling(rows, d) ==
    IF RescueAllowed(rows[d])
    THEN /\ used < MaxDags
         /\ used' = used + 1 /\ head' = used + 1
         /\ dags' = [rows EXCEPT ![used + 1] = RescueRow(rows[d])]
         /\ status' = "resubmitting"
    ELSE /\ dags' = rows /\ status' = "held" /\ UNCHANGED <<used, head>>

HeadFailed ==
    ActiveDags(dags) = {} /\ head # 0 /\ dags[head].st \in {"partial", "failed"}

\* The handler begins: with no active DAG and a failed head it goes straight
\* to failure handling.
ActiveBegin ==
    /\ status = "active" /\ ~HeadFailed
    /\ Begin(ActiveDags(dags))
    /\ UNCHANGED <<db, condor, discarded, failAsked>>

ActiveHeadFailed ==
    /\ Idle /\ status = "active" /\ HeadFailed
    /\ FailureHandling(dags, head)
    /\ UNCHANGED <<round, produced, condor, discarded, evaluation, failAsked>>

Polling(d) == pc = "poll" /\ d \in todo /\ \A e \in todo : d <= e

\* The schedd does not answer, or the DAGMan is gone and its files show no
\* finished node: nothing changes, the row stays running.
PollNothing(d) ==
    /\ Polling(d)
    /\ NextPoll(d, refused)
    /\ UNCHANGED <<db, condor, discarded, failAsked>>

\* mutant: the node files decide alone, whatever the queue says.
DagmanEndedByFiles(d) == job[d] # "none"

\* JobStatus 3 (removed, maybe still shutting down) counts as ended.
DagmanEnded(d) == job[d] \in {"removing", "exited", "gone"}

PollRunning(d) ==
    /\ Polling(d)
    /\ job[d] = "alive"
    /\ dags' = RecordPoll(d, "active")
    /\ \E refusal \in Refusals(d) :
          /\ produced' = Credited(d, refusal)
          /\ status' = (IF refusal THEN "held" ELSE status)
          /\ NextPoll(d, refused \/ refusal)
    /\ UNCHANGED <<head, round, used, condor, discarded, failAsked>>

\* complete_round, with its repair of a counter still at 0 from the files.
CountedAtCompletion(d, credit) ==
    IF credit = 0 /\ ~Throwaway(d)
    THEN Cardinality(dags[d].done \cup NewlyCompleted(d)) ELSE credit

\* mutant: the target alone completes the request.
AfterRoundByTarget(rows, credit, current) ==
    IF credit >= Target THEN "completed"
    ELSE IF ActiveDags(rows) = {} /\ MaxConcurrentRounds <= 1 THEN "queued"
    ELSE current

\* _handle_dag_round_completion: what becomes of the request.
AfterRound(rows, credit, current) ==
    IF ActiveDags(rows) # {} THEN current
    ELSE IF credit >= Target THEN "completed"
    ELSE IF MaxConcurrentRounds <= 1 THEN "queued"
    ELSE current

PollCompleted(d) ==
    /\ Polling(d)
    /\ DagmanEnded(d)
    /\ FinalStatus(dags[d].dir) = "completed"
    /\ dags' = RecordPoll(d, "completed")
    /\ CondorRm({d})
    /\ discarded' = IF Throwaway(d)
                    THEN [discarded EXCEPT ![dags[d].dir] = @ \cup dags'[d].done]
                    ELSE discarded
    /\ \E refusal \in Refusals(d) :
          LET credit == CountedAtCompletion(d, Credited(d, refusal))
          IN  /\ produced' = credit
              /\ status' = AfterRound(dags', credit, IF refusal THEN "held" ELSE status)
              /\ IF status' = "active" THEN NextPoll(d, refused \/ refusal) ELSE Commit(refused \/ refusal)
    /\ UNCHANGED <<head, round, used, nodeDone, nodeFailed, failAsked>>

PollFailed(d) ==
    /\ Polling(d)
    /\ DagmanEnded(d)
    /\ FinalStatus(dags[d].dir) \in {"partial", "failed"}
    /\ FailureHandling(RecordPoll(d, FinalStatus(dags[d].dir)), d)
    /\ \E refusal \in Refusals(d) :
          produced' = Credited(d, refusal) /\ Commit(refused \/ refusal)
    /\ UNCHANGED <<round, condor, discarded, failAsked>>

Finishing == pc = "finish"

\* A poll refused by Rucio held the request, or the retry of the blocks is
\* refused now.
FinishHeld ==
    /\ Finishing
    /\ \/ status = "held" /\ Commit(refused)
       \/ "rucio" \in Faults /\ Commit(TRUE)
    /\ status' = "held"
    /\ UNCHANGED <<head, round, produced, dags, used, condor, discarded, failAsked>>

\* Target reached: DAGs still running are redundant and removed.
FinishTarget ==
    /\ Finishing /\ status = "active"
    /\ TargetReached
    /\ CondorRm(ActiveDags(dags))
    /\ dags' = [d \in DagId |-> IF dags[d].st = "active"
                                THEN [dags[d] EXCEPT !.st = "completed"] ELSE dags[d]]
    /\ status' = "completed"
    /\ Commit(refused)
    /\ UNCHANGED <<head, round, produced, used, nodeDone, nodeFailed, discarded, failAsked>>

\* mutant: one round more than allowed.
MayAdvanceOneMore ==
    LET active == ActiveDags(dags)
        latest == CHOOSE d \in active : \A e \in active : e <= d
    IN  /\ active # {}
        /\ Cardinality(active) <= MaxConcurrentRounds
        /\ Cardinality(dags[latest].done) * 100 >= AdvancePercent * dags[latest].total

\* _maybe_advance_round; the fraction of nodes running is the pool's choice.
MayAdvance ==
    LET active == ActiveDags(dags)
        latest == CHOOSE d \in active : \A e \in active : e <= d
    IN  /\ active # {}
        /\ Cardinality(active) < MaxConcurrentRounds
        /\ Cardinality(dags[latest].done) * 100 >= AdvancePercent * dags[latest].total

\* The next round, overlapping the running ones or after the last of them.
FinishPlan ==
    /\ Finishing /\ status = "active"
    /\ ActiveDags(dags) = {} \/ MayAdvance
    /\ PlanRound(dags)
    /\ Commit(refused)
    /\ UNCHANGED status

\* Rounds still running and the conditions to advance are not met.
FinishWait ==
    /\ Finishing /\ status = "active"
    /\ ~TargetReached
    /\ ActiveDags(dags) # {}
    /\ Commit(refused)
    /\ UNCHANGED <<db, condor, discarded, failAsked>>

\* Planning raised: the exception is logged and the transaction commits,
\* with the new row if it was created before the submission failed.
FinishPlanFails ==
    /\ "planFails" \in Faults
    /\ Finishing /\ status = "active"
    /\ ~TargetReached
    /\ ActiveDags(dags) = {} \/ MayAdvance
    /\ \/ UNCHANGED <<dags, used>>
       \/ /\ used < MaxDags
          /\ used' = used + 1
          /\ dags' = [dags EXCEPT ![used + 1] = PlannedRow("ready")]
    /\ Commit(refused)
    /\ UNCHANGED <<status, head, round, produced, condor, discarded, failAsked>>

-------------------------------------------------------------------------------
(* Timeouts: _handle_stuck runs instead of the handler.  QUEUED and ACTIVE    *)
(* requests only raise an alert.                                              *)

StuckFails ==
    /\ "timeout" \in Faults
    /\ Idle /\ status \in {"submitted", "resubmitting"}
    /\ status' = "failed"
    /\ UNCHANGED <<head, round, produced, dags, used, condor, discarded, evaluation, failAsked>>

\* The clean stop is initiated again, with a reason of its own.
StuckStopping ==
    /\ "timeout" \in Faults
    /\ Stopping
    /\ ActiveDags(dags) # {}
    /\ job' = [d \in DagId |-> IF dags[d].st = "active" THEN AfterRemove(job[d]) ELSE job[d]]
    /\ dags' = [d \in DagId |-> IF dags[d].st = "active"
                                THEN [dags[d] EXCEPT !.stop = "stop"] ELSE dags[d]]
    /\ UNCHANGED <<status, head, round, produced, used, nodeDone, nodeFailed,
                   discarded, evaluation, failAsked>>

-------------------------------------------------------------------------------
(* The operator: api/requests.py, between two evaluations.                    *)

MarkHead(reason) == IF head = 0 THEN dags ELSE [dags EXCEPT ![head].stop = reason]

StopRequest ==
    /\ "stop" \in Operations
    /\ Idle /\ status = "active"
    /\ CondorRm(HeadIfActive)
    /\ dags' = MarkHead("stop")
    /\ status' = "stopping"
    /\ UNCHANGED <<head, round, produced, used, nodeDone, nodeFailed, discarded,
                   evaluation, failAsked>>

\* HELD requests are queued; a PAUSED one needs its recovery row first.
ReleaseRequest ==
    /\ "release" \in Operations
    /\ Idle
    /\ \/ status = "held" /\ status' = "queued"
       \/ status = "paused" /\ status' = "resubmitting"
    /\ UNCHANGED <<head, round, produced, dags, used, condor, discarded, evaluation, failAsked>>

\* A running request is stopped first; the reason decides FAILED at the end.
FailRunning ==
    /\ "fail" \in Operations
    /\ Idle
    /\ \/ status = "active" /\ CondorRm(HeadIfActive)
       \/ status = "stopping" /\ UNCHANGED job
    /\ dags' = MarkHead("FAIL")
    /\ status' = "stopping"
    /\ failAsked' = TRUE
    /\ UNCHANGED <<head, round, produced, used, nodeDone, nodeFailed, discarded, evaluation>>

FailStopped ==
    /\ "fail" \in Operations
    /\ Idle /\ status \in {"held", "paused"}
    /\ CondorRm(HeadIfActive)
    /\ dags' = FailedRows(dags)
    /\ status' = "failed"
    /\ UNCHANGED <<head, round, produced, used, nodeDone, nodeFailed, discarded,
                   evaluation, failAsked>>

AbortRequest ==
    /\ "abort" \in Operations
    /\ Idle /\ status \notin Terminal
    /\ status' = "aborted"
    /\ UNCHANGED <<head, round, produced, dags, used, condor, discarded, evaluation, failAsked>>

-------------------------------------------------------------------------------
(* HTCondor.                                                                  *)

WorkUnit(d, w) ==
    /\ w \in 1..dags[d].total
    /\ w \notin nodeDone[dags[d].dir] \cup nodeFailed[dags[d].dir]

WuSucceeds(d, w) ==
    /\ job[d] \in {"alive", "removing"} /\ WorkUnit(d, w)
    /\ nodeDone' = [nodeDone EXCEPT ![dags[d].dir] = @ \cup {w}]
    /\ UNCHANGED <<db, job, nodeFailed, discarded, evaluation, failAsked>>

WuFails(d, w) ==
    /\ job[d] = "alive" /\ WorkUnit(d, w)
    /\ nodeFailed' = [nodeFailed EXCEPT ![dags[d].dir] = @ \cup {w}]
    /\ UNCHANGED <<db, job, nodeDone, discarded, evaluation, failAsked>>

DagmanStep(d, from, to) ==
    /\ job[d] = from
    /\ job' = [job EXCEPT ![d] = to]
    /\ UNCHANGED <<db, nodeDone, nodeFailed, discarded, evaluation, failAsked>>

\* Every node is done or failed: DAGMan exits and lingers in the queue.
DagmanExits(d) == (\A w \in Wu : ~WorkUnit(d, w)) /\ DagmanStep(d, "alive", "exited")
DagmanRemoved(d) == DagmanStep(d, "removing", "gone")
LeavesQueue(d) == DagmanStep(d, "exited", "gone")
\* Somebody else removes the DAGMan, or the schedd loses it.
DagmanLost(d) ==
    /\ "lost" \in Faults
    /\ DagmanStep(d, "alive", "removing") \/ DagmanStep(d, "alive", "gone")

-------------------------------------------------------------------------------

Poll(d) == PollNothing(d) \/ PollRunning(d) \/ PollCompleted(d) \/ PollFailed(d)

Finish == FinishHeld \/ FinishTarget \/ FinishPlan \/ FinishWait \/ FinishPlanFails

Lifecycle ==
    \/ HandleSubmitted \/ QueuedToActive \/ QueuedSubmitRescue \/ QueuedPlan
    \/ QueuedNothingLeft \/ HandleResubmitting \/ StoppingRetriesRemove \/ StoppingDone
    \/ ActiveBegin \/ ActiveHeadFailed \/ (\E d \in DagId : Poll(d)) \/ Finish
    \/ StuckFails \/ StuckStopping \/ Crash \/ Restart

Operator == StopRequest \/ ReleaseRequest \/ FailRunning \/ FailStopped \/ AbortRequest

Condor ==
    \E d \in DagId :
        \/ \E w \in Wu : WuSucceeds(d, w) \/ WuFails(d, w)
        \/ DagmanExits(d) \/ DagmanRemoved(d) \/ LeavesQueue(d) \/ DagmanLost(d)

Next == Lifecycle \/ Operator \/ Condor

Spec == Init /\ [][Next]_vars

(* Fairness.  The lifecycle loop runs again and again, so an evaluation that  *)
(* stays possible takes place; a schedd that answers again and again is       *)
(* eventually asked while it answers (strong fairness), and the service       *)
(* crashes finitely often.  HTCondor runs the nodes of a live DAGMan,   *)
(* DAGMan exits, a removed job leaves the queue.  Nothing is assumed of the   *)
(* operator.                                                                  *)

Handler ==
    \/ HandleSubmitted \/ QueuedToActive \/ QueuedSubmitRescue \/ QueuedPlan
    \/ QueuedNothingLeft \/ HandleResubmitting \/ StoppingDone
    \/ ActiveBegin \/ ActiveHeadFailed \/ Restart

AnsweredPoll(d) == PollRunning(d) \/ PollCompleted(d) \/ PollFailed(d)

RemoveSucceeds ==
    StoppingRetriesRemove /\ \A d \in ActiveDags(dags) : job'[d] # "alive"

Fairness ==
    /\ WF_vars(Handler)
    /\ SF_vars(RemoveSucceeds)
    /\ SF_vars(Finish)
    /\ <>[][~Crash]_vars
    /\ \A d \in DagId :
          /\ SF_vars(AnsweredPoll(d))
          /\ WF_vars(\E w \in Wu : WuSucceeds(d, w) \/ WuFails(d, w))
          /\ WF_vars(DagmanExits(d))
          /\ WF_vars(DagmanRemoved(d))

LiveSpec == Spec /\ Fairness

-------------------------------------------------------------------------------
(* Properties. *)

\* A work unit enters events_produced at most once, whatever rescues,
\* recoveries, crashes and repairs of the counter happened: the counter never
\* exceeds the number of different work units recorded as completed.
NoDoubleCounting ==
    produced <= Cardinality({x \in DagId \X Wu :
                    \E d \in DagId : dags[d].dir = x[1] /\ x[2] \in dags[d].done})

\* A request is COMPLETED only when its target is reached and none of its DAG
\* rows is left submitted or running.
CompletionSound == status = "completed" => produced >= Target /\ ActiveDags(dags) = {}

\* Outside the terminal states every DAGMan alive belongs to a row the
\* monitor still polls: no DAGMan runs unmanaged.  (Assumes that no evaluation
\* is rolled back between its submit_dag and its commit: PlanRound and
\* QueuedSubmitRescue submit and commit in one step.)
AliveDagmanIsManaged ==
    status \notin Terminal =>
        \A d \in DagId : job[d] = "alive" => dags[d].st = "active"

\* Two DAGMans never run in one submit directory: a rescue is never submitted
\* beside the DAGMan whose rescue file it needs.
OneDagmanPerDirectory ==
    \A d, e \in DagId :
        {job[d], job[e]} \subseteq {"alive", "removing"} /\ dags[d].dir = dags[e].dir => d = e

\* A PAUSED request is quiet: no row active, no DAGMan alive.
PausedIsQuiet ==
    status = "paused" => ActiveDags(dags) = {} /\ \A d \in DagId : job[d] # "alive"

\* DD-20: no more rounds run concurrently than max_concurrent_rounds.
ConcurrentRoundsBounded == Cardinality(ActiveDags(dags)) <= MaxConcurrentRounds

\* DD-20: overproduction is bounded.  A round is planned for what is missing
\* while the other rounds in flight have a work unit counted each, so no more
\* than the rest of those rounds comes on top of the target.  (A refused
\* registration leaves a work unit done but not counted until its round ends.)
OverproductionBounded ==
    LET counted == IF "rucio" \in Faults \/ AdvancePercent = 0 THEN 0 ELSE 1
    IN  produced <= Target + (MaxConcurrentRounds - 1) * (Cardinality(Wu) - counted)

\* Rescue first, then the next round: no new round is planned while the
\* rescue of an earlier one waits for its submission.
RescueFirst ==
    [][RescuePending /\ dags'[head].st = "ready" => round' = round]_vars

\* A clean stop ends, whatever condor_rm calls fail and whichever DAGs run.
StopEnds == status = "stopping" ~> status \in {"paused", "failed", "aborted"}

\* A request left alone comes to rest: it is COMPLETED, or waits for the
\* operator; no sequence of rescues, rounds and crashes goes on forever.
RequestSettles == <>(status \in Terminal \cup {"held", "paused"})

-------------------------------------------------------------------------------
(* What documents and comments say and the code does not do; the README has   *)
(* the constants with which TLC shows it.                                     *)

\* "Rucio registration is FATAL for non-local stageout modes" (core/output_manager.py:7):
\* an evaluation in which Rucio refused a registration leaves the request HELD.
RefusalHolds ==
    [][Evaluating /\ pc' = "idle" /\ refused' => status' = "held"]_vars

\* "transition to FAILED instead of PAUSED" (core/lifecycle_manager.py:1182): once
\* the operator's fail call was accepted the request does not end PAUSED.
FailIsHonoured == failAsked => status # "paused"

\* "If any DAG is still running, issue condor_rm" (docs/error_handling.md:362):
\* FAILED requests have no DAGMan running.
FailedIsQuiet == status = "failed" => \A d \in DagId : job[d] # "alive"

\* "discard round 0 output" (config.py:142): pilot_throwaway discards the output
\* of round 0 and of no other round.
OnlyPilotDiscarded == \A d \in DagId : discarded[d] # {} => dags[d].rnd = 0

===============================================================================
