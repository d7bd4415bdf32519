------------------------ MODULE RequestLifecycleProofs ------------------------
(***************************************************************************)
(* Theorems about RequestLifecycle for every value of its constants: type  *)
(* correctness first, then the invariants that rest on it, at last that it *)
(* implements RequestStateMachine.                                         *)
(***************************************************************************)
EXTENDS RequestRefinement, FiniteSetTheorems, WellFoundedInduction, TLAPS

-------------------------------------------------------------------------------
(* What the operators of the model return. *)

\* The constants are natural numbers, most of them positive.
LEMMA ConstantTypes ==
    /\ MaxDags \in Nat /\ MaxDags > 0
    /\ Target \in Nat /\ Target > 0
    /\ FirstRoundWUs \in Nat /\ WUsPerRound \in Nat
    /\ MaxConcurrentRounds \in Nat /\ MaxConcurrentRounds > 0
BY ConstantsAssumption

\* The rows and the work units of a round are finitely many.
LEMMA FiniteIds == IsFiniteSet(DagId) /\ IsFiniteSet(Wu)
BY ConstantTypes, FS_Interval DEF DagId, Wu

\* A set of work units has a cardinality.
LEMMA WuCardinality == ASSUME NEW S \in SUBSET Wu PROVE Cardinality(S) \in Nat
<1>1. IsFiniteSet(Wu)
  BY ConstantTypes, FS_Interval DEF Wu
<1>2. IsFiniteSet(S)
  BY <1>1, FS_Subset
<1>. QED
  BY <1>2, FS_CardinalityType

\* The rows the code creates have the type of a row.
LEMMA RescueRowType == ASSUME NEW row \in DagRow PROVE RescueRow(row) \in DagRow
BY DEF RescueRow, DagRow, DagStatus

\* The values that stand for nothing have their types.
LEMMA NoDagType == NoDag \in DagRow /\ NoSnap \in Database /\ 0 \in 0..MaxDags
<1>1. 1 \in DagId /\ 0 \in 0..MaxDags
  BY ConstantTypes DEF DagId
<1>2. NoDag \in DagRow
  BY <1>1 DEF NoDag, DagRow, DagStatus
<1>. QED
  BY <1>1, <1>2 DEF NoSnap, Database, RequestStatus

\* A row that planning makes is a row.
LEMMA PlannedRowType ==
    ASSUME DatabaseOK, used < MaxDags, ~TargetReached, NEW st \in DagStatus
    PROVE  used + 1 \in DagId /\ PlannedRow(st) \in DagRow
<1>1. used + 1 \in DagId
  BY ConstantTypes DEF DatabaseOK, DagId
<1>2. RoundSize \in Nat
  BY ConstantTypes DEF DatabaseOK, RoundSize, TargetReached
<1>. QED
  BY <1>1, <1>2 DEF PlannedRow, DagRow, DatabaseOK

\* So are those of a request that fails.
LEMMA FailedRowsType ==
    ASSUME NEW rows \in [DagId -> DagRow] PROVE FailedRows(rows) \in [DagId -> DagRow]
BY DEF FailedRows, DagRow, DagStatus

\* So are those that a poll leaves.
LEMMA RecordPollType ==
    ASSUME TypeOK, NEW d \in DagId, NEW st \in DagStatus
    PROVE  /\ RecordPoll(d, st) \in [DagId -> DagRow]
           /\ NewlyCompleted(d) \in SUBSET Wu
<1>1. NewlyCompleted(d) \in SUBSET Wu
  BY DEF TypeOK, DatabaseOK, CondorOK, NewlyCompleted, DagRow
<1>2. dags \in [DagId -> DagRow] /\ dags[d] \in DagRow
  BY DEF TypeOK, DatabaseOK
<1>3. [dags[d] EXCEPT !.st = st, !.done = dags[d].done \cup NewlyCompleted(d)] \in DagRow
  BY <1>1, <1>2 DEF DagRow
<1>. QED
  BY <1>1, <1>2, <1>3 DEF RecordPoll

\* condor_rm only moves DAGMans between job states.
LEMMA CondorRmType ==
    ASSUME CondorOK, NEW S, CondorRm(S) PROVE job' \in [DagId -> JobState]
BY DEF CondorOK, CondorRm, AfterRemove, JobState

\* What a poll credits keeps events_produced a number.
LEMMA CreditType ==
    ASSUME TypeOK, NEW d \in DagId, NEW refusal \in BOOLEAN
    PROVE  /\ Credited(d, refusal) \in Nat
           /\ CountedAtCompletion(d, Credited(d, refusal)) \in Nat
<1>1. NewlyCompleted(d) \in SUBSET Wu
  BY RecordPollType DEF DagStatus
<1>2. dags[d].done \cup NewlyCompleted(d) \in SUBSET Wu
  BY <1>1 DEF TypeOK, DatabaseOK, DagRow
<1>3. Cardinality(NewlyCompleted(d)) \in Nat /\ Cardinality(dags[d].done \cup NewlyCompleted(d)) \in Nat
  BY <1>1, <1>2, WuCardinality
<1>4. produced \in Nat
  BY DEF TypeOK, DatabaseOK
<1>. QED
  BY <1>3, <1>4 DEF Credited, CountedAtCompletion

\* Whether registrations were refused is a truth value.
LEMMA RefusalsType == ASSUME NEW d PROVE Refusals(d) \subseteq BOOLEAN
BY DEF Refusals

-------------------------------------------------------------------------------
(* Type correctness. *)

\* The bookkeeping of an evaluation keeps its types.
LEMMA EvaluationType ==
    ASSUME TypeOK
    PROVE  /\ \A work \in SUBSET DagId : Begin(work) /\ UNCHANGED failAsked => EvaluationOK'
           /\ \A b \in BOOLEAN : Commit(b) /\ UNCHANGED failAsked => EvaluationOK'
           /\ \A d \in DagId, b \in BOOLEAN : NextPoll(d, b) /\ UNCHANGED failAsked => EvaluationOK'
<1>1. NoSnap \in Database
  BY NoDagType
<1>2. ASSUME NEW work \in SUBSET DagId, Begin(work), UNCHANGED failAsked PROVE EvaluationOK'
  BY <1>2 DEF TypeOK, DatabaseOK, EvaluationOK, Begin, Database
<1>3. ASSUME NEW b \in BOOLEAN, Commit(b), UNCHANGED failAsked PROVE EvaluationOK'
  BY <1>1, <1>3 DEF TypeOK, EvaluationOK, Commit
<1>4. ASSUME NEW d \in DagId, NEW b \in BOOLEAN, NextPoll(d, b), UNCHANGED failAsked PROVE EvaluationOK'
  BY <1>4 DEF TypeOK, EvaluationOK, NextPoll
<1>. QED
  BY <1>2, <1>3, <1>4

\* A failure handled (rescue or hold) keeps the types of the database.
LEMMA FailureHandlingType ==
    ASSUME TypeOK, NEW d \in DagId, NEW rows \in [DagId -> DagRow], FailureHandling(rows, d),
           round' = round, produced' \in Nat
    PROVE  DatabaseOK'
<1>1. CASE RescueAllowed(rows[d])
  <2>1. used < MaxDags /\ used' = used + 1 /\ head' = used + 1 /\ status' = "resubmitting"
        /\ dags' = [rows EXCEPT ![used + 1] = RescueRow(rows[d])]
    BY <1>1 DEF FailureHandling
  <2>2. used + 1 \in DagId
    BY <2>1, ConstantTypes DEF TypeOK, DatabaseOK, DagId
  <2>3. RescueRow(rows[d]) \in DagRow
    BY RescueRowType
  <2>. QED
    BY <2>1, <2>2, <2>3 DEF TypeOK, DatabaseOK, RequestStatus, DagId
<1>2. CASE ~RescueAllowed(rows[d])
  BY <1>2 DEF FailureHandling, TypeOK, DatabaseOK, RequestStatus
<1>. QED
  BY <1>1, <1>2

\* A round planned keeps the types of the database and of the job table.
LEMMA PlanRoundType ==
    ASSUME TypeOK, NEW rows \in [DagId -> DagRow], PlanRound(rows), status' \in RequestStatus
    PROVE  DatabaseOK' /\ CondorOK'
<1>1. used + 1 \in DagId /\ PlannedRow("active") \in DagRow
  BY PlannedRowType DEF TypeOK, PlanRound, DagStatus
<1>. QED
  BY <1>1 DEF TypeOK, DatabaseOK, CondorOK, PlanRound, DagId, JobState

\* The types hold at first.
LEMMA TypeInit == Init => TypeOK
<1>. SUFFICES ASSUME Init PROVE TypeOK
  OBVIOUS
<1>1. DatabaseOK
  BY NoDagType DEF Init, DatabaseOK, RequestStatus, DagId
<1>2. CondorOK
  BY DEF Init, CondorOK, JobState
<1>3. EvaluationOK
  BY NoDagType DEF Init, EvaluationOK
<1>. QED
  BY <1>1, <1>2, <1>3 DEF TypeOK

\* Every step keeps the types.
LEMMA TypeStep == TypeOK /\ [Next]_vars => TypeOK'
<1>. SUFFICES ASSUME TypeOK, [Next]_vars PROVE TypeOK'
  OBVIOUS
<1>. USE DEF db, condor, evaluation, Evaluating
<1>1. CASE HandleSubmitted
  BY <1>1 DEF TypeOK, DatabaseOK, CondorOK, EvaluationOK, HandleSubmitted, RequestStatus
<1>2. CASE QueuedToActive
  BY <1>2 DEF TypeOK, DatabaseOK, CondorOK, EvaluationOK, QueuedToActive, RequestStatus
<1>3. CASE QueuedSubmitRescue
  <2>1. head \in DagId /\ dags[head] \in DagRow
    BY <1>3 DEF TypeOK, DatabaseOK, QueuedSubmitRescue, RescuePending
  <2>2. dags' \in [DagId -> DagRow]
    BY <1>3, <2>1 DEF TypeOK, DatabaseOK, QueuedSubmitRescue, DagRow, DagStatus
  <2>3. job' \in [DagId -> JobState] /\ nodeFailed' \in [DagId -> SUBSET Wu]
    BY <1>3, <2>1 DEF TypeOK, CondorOK, QueuedSubmitRescue, JobState, DagRow
  <2>. QED
    BY <1>3, <2>2, <2>3 DEF TypeOK, DatabaseOK, CondorOK, EvaluationOK, QueuedSubmitRescue, RequestStatus
<1>4. CASE QueuedPlan
  <2>1. status' \in RequestStatus /\ EvaluationOK'
    BY <1>4 DEF TypeOK, EvaluationOK, QueuedPlan, PlanRound, RequestStatus
  <2>2. CASE PlanRound(dags)
    BY <2>1, <2>2, PlanRoundType DEF TypeOK, DatabaseOK
  <2>3. CASE RescuePending /\ PlanRound([dags EXCEPT ![head].st = "failed"])
    <3>1. [dags EXCEPT ![head].st = "failed"] \in [DagId -> DagRow]
      BY <2>3 DEF TypeOK, DatabaseOK, RescuePending, DagRow, DagStatus
    <3>. QED
      BY <2>1, <2>3, <3>1, PlanRoundType DEF TypeOK
  <2>. QED
    BY <1>4, <2>2, <2>3 DEF QueuedPlan
<1>5. CASE QueuedNothingLeft
  BY <1>5 DEF TypeOK, DatabaseOK, CondorOK, EvaluationOK, QueuedNothingLeft, RescuePending, RequestStatus, DagRow, DagStatus
<1>6. CASE HandleResubmitting
  <2>1. CASE head # 0 /\ dags[head].st = "stopped"
    <3>1. used + 1 \in DagId /\ RescueRow(dags[head]) \in DagRow
      BY <1>6, <2>1, ConstantTypes, RescueRowType DEF HandleResubmitting, TypeOK, DatabaseOK, DagId
    <3>. QED
      BY <1>6, <2>1, <3>1 DEF TypeOK, DatabaseOK, CondorOK, EvaluationOK, HandleResubmitting, RequestStatus, DagId
  <2>2. CASE ~(head # 0 /\ dags[head].st = "stopped")
    BY <1>6, <2>2 DEF TypeOK, DatabaseOK, CondorOK, EvaluationOK, HandleResubmitting, RequestStatus
  <2>. QED
    BY <2>1, <2>2
<1>7. CASE StoppingRetriesRemove
  BY <1>7, CondorRmType DEF TypeOK, DatabaseOK, CondorOK, EvaluationOK, StoppingRetriesRemove
<1>8. CASE StoppingDone
  <2>1. FailedRows(dags) \in [DagId -> DagRow]
    BY FailedRowsType DEF TypeOK, DatabaseOK
  <2>2. [d \in DagId |-> IF dags[d].st = "active" THEN [dags[d] EXCEPT !.st = "stopped"] ELSE dags[d]]
        \in [DagId -> DagRow]
    BY DEF TypeOK, DatabaseOK, DagRow, DagStatus
  <2>. QED
    BY <1>8, <2>1, <2>2 DEF TypeOK, DatabaseOK, CondorOK, EvaluationOK, StoppingDone, RequestStatus
<1>9. CASE ActiveBegin
  <2>1. ActiveDags(dags) \in SUBSET DagId
    BY DEF ActiveDags
  <2>. QED
    BY <1>9, <2>1, EvaluationType DEF ActiveBegin, TypeOK, DatabaseOK, CondorOK
<1>10. CASE ActiveHeadFailed
  <2>1. head \in DagId /\ dags \in [DagId -> DagRow] /\ produced' \in Nat
    BY <1>10 DEF ActiveHeadFailed, HeadFailed, TypeOK, DatabaseOK
  <2>2. DatabaseOK'
    BY <1>10, <2>1, FailureHandlingType DEF ActiveHeadFailed
  <2>. QED
    BY <1>10, <2>2 DEF TypeOK, CondorOK, EvaluationOK, ActiveHeadFailed
<1>11. ASSUME NEW d \in DagId, Poll(d) PROVE TypeOK'
  <2>1. CASE PollNothing(d)
    <3>1. EvaluationOK'
      BY <2>1, EvaluationType DEF PollNothing, TypeOK, EvaluationOK
    <3>. QED
      BY <2>1, <3>1 DEF PollNothing, TypeOK, DatabaseOK, CondorOK
  <2>2. CASE PollRunning(d)
    <3>1. PICK refusal \in Refusals(d) :
            /\ produced' = Credited(d, refusal)
            /\ status' = (IF refusal THEN "held" ELSE status)
            /\ NextPoll(d, refused \/ refusal)
      BY <2>2 DEF PollRunning
    <3>2. refusal \in BOOLEAN
      BY RefusalsType
    <3>3. EvaluationOK'
      <4>1. (refused \/ refusal) \in BOOLEAN
        OBVIOUS
      <4>. QED
        BY <2>2, <3>1, <4>1, EvaluationType DEF PollRunning
    <3>4. produced' \in Nat /\ dags' \in [DagId -> DagRow]
      BY <2>2, <3>1, <3>2, CreditType, RecordPollType DEF PollRunning, DagStatus
    <3>. QED
      BY <2>2, <3>1, <3>3, <3>4 DEF PollRunning, TypeOK, DatabaseOK, CondorOK, RequestStatus
  <2>3. CASE PollCompleted(d)
    <3>1. dags' \in [DagId -> DagRow]
      BY <2>3, RecordPollType DEF PollCompleted, DagStatus
    <3>2. CondorOK'
      <4>1. job' \in [DagId -> JobState]
        BY <2>3, CondorRmType DEF PollCompleted, TypeOK
      <4>2. dags[d].dir \in DagId /\ dags'[d].done \in SUBSET Wu
        BY <3>1 DEF TypeOK, DatabaseOK, DagRow
      <4>3. discarded' \in [DagId -> SUBSET Wu]
        BY <2>3, <4>2 DEF PollCompleted, TypeOK, CondorOK
      <4>. QED
        BY <2>3, <4>1, <4>3 DEF PollCompleted, TypeOK, CondorOK
    <3>3. PICK refusal \in Refusals(d) :
            LET credit == CountedAtCompletion(d, Credited(d, refusal))
            IN  /\ produced' = credit
                /\ status' = AfterRound(dags', credit, IF refusal THEN "held" ELSE status)
                /\ IF status' = "active" THEN NextPoll(d, refused \/ refusal)
                                         ELSE Commit(refused \/ refusal)
      BY <2>3 DEF PollCompleted
    <3>4. refusal \in BOOLEAN /\ (refused \/ refusal) \in BOOLEAN
      BY RefusalsType
    <3>5. EvaluationOK'
      BY <2>3, <3>3, <3>4, EvaluationType DEF PollCompleted
    <3>6. produced' \in Nat
      BY <3>3, <3>4, CreditType
    <3>7. status' \in RequestStatus
      BY <3>3 DEF AfterRound, RequestStatus, TypeOK, DatabaseOK
    <3>. QED
      BY <2>3, <3>1, <3>2, <3>5, <3>6, <3>7 DEF PollCompleted, TypeOK, DatabaseOK
  <2>4. CASE PollFailed(d)
    <3>1. PICK refusal \in Refusals(d) :
            produced' = Credited(d, refusal) /\ Commit(refused \/ refusal)
      BY <2>4 DEF PollFailed
    <3>2. refusal \in BOOLEAN /\ (refused \/ refusal) \in BOOLEAN
      BY RefusalsType
    <3>3. EvaluationOK'
      BY <2>4, <3>1, <3>2, EvaluationType DEF PollFailed
    <3>4. produced' \in Nat
      BY <3>1, <3>2, CreditType
    <3>5. RecordPoll(d, FinalStatus(dags[d].dir)) \in [DagId -> DagRow]
      BY <2>4, RecordPollType DEF PollFailed, DagStatus
    <3>6. DatabaseOK'
      BY <2>4, <3>4, <3>5, FailureHandlingType DEF PollFailed
    <3>. QED
      BY <2>4, <3>3, <3>6 DEF PollFailed, TypeOK, CondorOK
  <2>. QED
    BY <1>11, <2>1, <2>2, <2>3, <2>4 DEF Poll
<1>12. CASE FinishHeld
  <2>1. EvaluationOK'
    BY <1>12, EvaluationType DEF FinishHeld, TypeOK, EvaluationOK
  <2>. QED
    BY <1>12, <2>1 DEF FinishHeld, TypeOK, DatabaseOK, CondorOK, RequestStatus
<1>13. CASE FinishTarget
  <2>1. EvaluationOK'
    BY <1>13, EvaluationType DEF FinishTarget, TypeOK, EvaluationOK
  <2>2. job' \in [DagId -> JobState]
    BY <1>13, CondorRmType DEF FinishTarget, TypeOK
  <2>3. dags' \in [DagId -> DagRow]
    BY <1>13 DEF FinishTarget, TypeOK, DatabaseOK, DagRow, DagStatus
  <2>. QED
    BY <1>13, <2>1, <2>2, <2>3 DEF FinishTarget, TypeOK, DatabaseOK, CondorOK, RequestStatus
<1>14. CASE FinishPlan
  <2>1. EvaluationOK'
    BY <1>14, EvaluationType DEF FinishPlan, PlanRound, TypeOK, EvaluationOK
  <2>2. DatabaseOK' /\ CondorOK'
    BY <1>14, PlanRoundType DEF FinishPlan, TypeOK, DatabaseOK, RequestStatus
  <2>. QED
    BY <2>1, <2>2 DEF TypeOK
<1>15. CASE FinishWait
  <2>1. EvaluationOK'
    BY <1>15, EvaluationType DEF FinishWait, TypeOK, EvaluationOK
  <2>. QED
    BY <1>15, <2>1 DEF FinishWait, TypeOK, DatabaseOK, CondorOK
<1>16. CASE FinishPlanFails
  <2>1. EvaluationOK'
    BY <1>16, EvaluationType DEF FinishPlanFails, TypeOK, EvaluationOK
  <2>2. CASE UNCHANGED <<dags, used>>
    BY <1>16, <2>1, <2>2 DEF FinishPlanFails, TypeOK, DatabaseOK, CondorOK
  <2>3. CASE used < MaxDags /\ used' = used + 1 /\ dags' = [dags EXCEPT ![used + 1] = PlannedRow("ready")]
    <3>1. used + 1 \in DagId /\ PlannedRow("ready") \in DagRow
      BY <1>16, <2>3, PlannedRowType DEF FinishPlanFails, TypeOK, DagStatus
    <3>. QED
      BY <1>16, <2>1, <2>3, <3>1 DEF FinishPlanFails, TypeOK, DatabaseOK, CondorOK, DagId
  <2>. QED
    BY <1>16, <2>2, <2>3 DEF FinishPlanFails
<1>17. CASE StuckFails
  BY <1>17 DEF TypeOK, DatabaseOK, CondorOK, EvaluationOK, StuckFails, RequestStatus
<1>18. CASE StuckStopping
  BY <1>18 DEF TypeOK, DatabaseOK, CondorOK, EvaluationOK, StuckStopping, DagRow, AfterRemove, JobState
<1>19. CASE Crash
  <2>1. EvaluationOK'
    BY <1>19, NoDagType DEF Crash, TypeOK, EvaluationOK
  <2>. QED
    BY <1>19, <2>1 DEF Crash, TypeOK, DatabaseOK, CondorOK, EvaluationOK, Database
<1>27. CASE Restart
  BY <1>27 DEF Restart, TypeOK, DatabaseOK, CondorOK, EvaluationOK
<1>20. CASE StopRequest
  <2>1. MarkHead("stop") \in [DagId -> DagRow]
    BY DEF MarkHead, TypeOK, DatabaseOK, DagRow
  <2>2. job' \in [DagId -> JobState]
    BY <1>20, CondorRmType DEF StopRequest, TypeOK
  <2>. QED
    BY <1>20, <2>1, <2>2 DEF TypeOK, DatabaseOK, CondorOK, EvaluationOK, StopRequest, RequestStatus
<1>21. CASE ReleaseRequest
  BY <1>21 DEF TypeOK, DatabaseOK, CondorOK, EvaluationOK, ReleaseRequest, RequestStatus
<1>22. CASE FailRunning
  <2>1. MarkHead("FAIL") \in [DagId -> DagRow]
    BY DEF MarkHead, TypeOK, DatabaseOK, DagRow
  <2>2. job' \in [DagId -> JobState]
    BY <1>22, CondorRmType DEF FailRunning, TypeOK, CondorOK
  <2>. QED
    BY <1>22, <2>1, <2>2 DEF TypeOK, DatabaseOK, CondorOK, EvaluationOK, FailRunning, RequestStatus
<1>23. CASE FailStopped
  <2>1. FailedRows(dags) \in [DagId -> DagRow]
    BY FailedRowsType DEF TypeOK, DatabaseOK
  <2>2. job' \in [DagId -> JobState]
    BY <1>23, CondorRmType DEF FailStopped, TypeOK
  <2>. QED
    BY <1>23, <2>1, <2>2 DEF TypeOK, DatabaseOK, CondorOK, EvaluationOK, FailStopped, RequestStatus
<1>24. CASE AbortRequest
  BY <1>24 DEF TypeOK, DatabaseOK, CondorOK, EvaluationOK, AbortRequest, RequestStatus
<1>25. CASE Condor
  <2>1. ASSUME NEW d \in DagId, NEW w \in Wu, WuSucceeds(d, w) PROVE TypeOK'
    BY <2>1 DEF TypeOK, DatabaseOK, CondorOK, EvaluationOK, WuSucceeds, DagRow
  <2>2. ASSUME NEW d \in DagId, NEW w \in Wu, WuFails(d, w) PROVE TypeOK'
    BY <2>2 DEF TypeOK, DatabaseOK, CondorOK, EvaluationOK, WuFails, DagRow
  <2>3. ASSUME NEW d \in DagId, NEW from, NEW to \in JobState, DagmanStep(d, from, to) PROVE TypeOK'
    BY <2>3 DEF TypeOK, DatabaseOK, CondorOK, EvaluationOK, DagmanStep
  <2>. QED
    BY <1>25, <2>1, <2>2, <2>3 DEF Condor, DagmanExits, DagmanRemoved, LeavesQueue, DagmanLost, JobState
<1>26. CASE UNCHANGED vars
  BY <1>26 DEF TypeOK, DatabaseOK, CondorOK, EvaluationOK, vars, Database
<1>. QED
  BY <1>1, <1>2, <1>3, <1>4, <1>5, <1>6, <1>7, <1>8, <1>9, <1>10, <1>11, <1>12, <1>13, <1>14, <1>15, <1>16, <1>17, <1>18, <1>19, <1>20, <1>21, <1>22, <1>23, <1>24, <1>25, <1>26, <1>27 DEF Next, Lifecycle, Operator, Finish

\* Type correctness, for every number of DAGs, round size and fault.
THEOREM TypeCorrect == Spec => []TypeOK
<1>. QED
  BY TypeInit, TypeStep, PTL DEF Spec

-------------------------------------------------------------------------------
(* The invariant that makes the others inductive: while an evaluation of the  *)
(* ACTIVE handler runs the request is ACTIVE or just held, and a rollback     *)
(* finds it ACTIVE.                                                           *)

EvaluationInv == Evaluating => snap.status = "active" /\ status \in {"active", "held"}

\* An evaluation stays one of a request that was ACTIVE.
LEMMA EvaluationStep == EvaluationInv /\ [Next]_vars => EvaluationInv'
<1>. SUFFICES ASSUME EvaluationInv, [Next]_vars PROVE EvaluationInv'
  OBVIOUS
<1>. USE DEF db, condor, evaluation, EvaluationInv, Evaluating
<1>1. CASE HandleSubmitted
  BY <1>1 DEF HandleSubmitted, Idle
<1>2. CASE QueuedToActive
  BY <1>2 DEF QueuedToActive, Queued, Idle
<1>3. CASE QueuedSubmitRescue
  BY <1>3 DEF QueuedSubmitRescue, Queued, Idle
<1>4. CASE QueuedPlan
  BY <1>4 DEF QueuedPlan, Queued, Idle, PlanRound
<1>5. CASE QueuedNothingLeft
  BY <1>5 DEF QueuedNothingLeft, Queued, Idle
<1>6. CASE HandleResubmitting
  BY <1>6 DEF HandleResubmitting, Idle
<1>7. CASE StoppingRetriesRemove
  BY <1>7 DEF StoppingRetriesRemove, Stopping, Idle
<1>8. CASE StoppingDone
  BY <1>8 DEF StoppingDone, Stopping, Idle
<1>9. CASE ActiveHeadFailed
  BY <1>9 DEF ActiveHeadFailed, Idle
<1>10. CASE StuckFails
  BY <1>10 DEF StuckFails, Idle
<1>11. CASE StuckStopping
  BY <1>11 DEF StuckStopping, Stopping, Idle
<1>12. CASE StopRequest
  BY <1>12 DEF StopRequest, Idle
<1>13. CASE ReleaseRequest
  BY <1>13 DEF ReleaseRequest, Idle
<1>14. CASE FailRunning
  BY <1>14 DEF FailRunning, Idle
<1>15. CASE FailStopped
  BY <1>15 DEF FailStopped, Idle
<1>16. CASE AbortRequest
  BY <1>16 DEF AbortRequest, Idle
<1>17. CASE ActiveBegin
  BY <1>17 DEF ActiveBegin, Begin
<1>18. ASSUME NEW d \in DagId, Poll(d) PROVE EvaluationInv'
  <2>. pc = "poll"
    BY <1>18 DEF Poll, PollNothing, PollRunning, PollCompleted, PollFailed, Polling
  <2>1. CASE PollNothing(d)
    BY <2>1 DEF PollNothing, NextPoll
  <2>2. CASE PollRunning(d)
    BY <2>2 DEF PollRunning, NextPoll
  <2>3. CASE PollCompleted(d)
    BY <2>3 DEF PollCompleted, NextPoll, Commit
  <2>4. CASE PollFailed(d)
    BY <2>4 DEF PollFailed, Commit
  <2>. QED
    BY <1>18, <2>1, <2>2, <2>3, <2>4 DEF Poll
<1>19. CASE Finish
  BY <1>19 DEF Finish, FinishHeld, FinishTarget, FinishPlan, FinishWait, FinishPlanFails, Commit
<1>20. CASE Crash \/ Restart
  BY <1>20 DEF Crash, Restart
<1>21. CASE Condor
  BY <1>21 DEF Condor, WuSucceeds, WuFails, DagmanExits, DagmanRemoved, LeavesQueue, DagmanLost, DagmanStep
<1>22. CASE UNCHANGED vars
  BY <1>22 DEF vars
<1>. QED
  BY <1>1, <1>2, <1>3, <1>4, <1>5, <1>6, <1>7, <1>8, <1>9, <1>10, <1>11, <1>12, <1>13, <1>14, <1>15, <1>16, <1>17, <1>18, <1>19, <1>20, <1>21, <1>22 DEF Next, Lifecycle, Operator

-------------------------------------------------------------------------------
(* A COMPLETED request has reached its target and has no active DAG.          *)

CompletionInv == TypeOK /\ EvaluationInv /\ CompletionSound

\* A request is completed only by a step that found the target reached and nothing running.
LEMMA CompletionStep == CompletionInv /\ [Next]_vars => CompletionSound'
<1>. SUFFICES ASSUME CompletionInv, [Next]_vars, status' = "completed"
              PROVE  produced' >= Target /\ ActiveDags(dags') = {}
  BY DEF CompletionSound, ActiveDags
<1>. USE DEF db, condor, evaluation, Evaluating
<1>1. CASE HandleSubmitted
  BY <1>1 DEF HandleSubmitted, Idle
<1>2. CASE QueuedToActive
  BY <1>2 DEF QueuedToActive, Queued, Idle
<1>3. CASE QueuedSubmitRescue
  BY <1>3 DEF QueuedSubmitRescue, Queued, Idle
<1>4. CASE QueuedPlan
  BY <1>4 DEF QueuedPlan, Queued, Idle, PlanRound
<1>5. CASE HandleResubmitting
  BY <1>5 DEF HandleResubmitting, Idle
<1>6. CASE StoppingDone
  BY <1>6 DEF StoppingDone, Stopping, Idle
<1>7. CASE StuckFails
  BY <1>7 DEF StuckFails, Idle
<1>8. CASE StopRequest
  BY <1>8 DEF StopRequest, Idle
<1>9. CASE ReleaseRequest
  BY <1>9 DEF ReleaseRequest, Idle
<1>10. CASE FailRunning
  BY <1>10 DEF FailRunning, Idle
<1>11. CASE FailStopped
  BY <1>11 DEF FailStopped, Idle
<1>12. CASE AbortRequest
  BY <1>12 DEF AbortRequest, Idle
<1>13. CASE StoppingRetriesRemove \/ StuckStopping
  BY <1>13 DEF StoppingRetriesRemove, StuckStopping, Stopping
<1>14. CASE QueuedNothingLeft
  <2>1. produced' >= Target /\ ActiveDags(dags) = {}
    BY <1>14 DEF QueuedNothingLeft, TargetReached
  <2>2. \A d \in DagId : dags'[d].st = "active" => dags[d].st = "active"
    BY <1>14 DEF QueuedNothingLeft, CompletionInv, TypeOK, DatabaseOK, DagRow
  <2>. QED
    BY <2>1, <2>2 DEF ActiveDags
<1>15. CASE ActiveHeadFailed
  BY <1>15 DEF ActiveHeadFailed, FailureHandling
<1>16. CASE ActiveBegin
  BY <1>16 DEF ActiveBegin
<1>17. ASSUME NEW d \in DagId, Poll(d) PROVE produced' >= Target /\ ActiveDags(dags') = {}
  <2>1. status \in {"active", "held"}
    BY <1>17 DEF CompletionInv, EvaluationInv, Poll, PollNothing, PollRunning, PollCompleted, PollFailed, Polling
  <2>2. ~PollNothing(d) /\ ~PollRunning(d) /\ ~PollFailed(d)
    BY <2>1 DEF PollNothing, PollRunning, PollFailed, FailureHandling
  <2>3. PICK refusal \in Refusals(d) :
          /\ produced' = CountedAtCompletion(d, Credited(d, refusal))
          /\ status' = AfterRound(dags', CountedAtCompletion(d, Credited(d, refusal)),
                                  IF refusal THEN "held" ELSE status)
    BY <1>17, <2>2 DEF Poll, PollCompleted
  <2>. QED
    BY <2>1, <2>3 DEF AfterRound
<1>18. CASE FinishTarget
  BY <1>18 DEF FinishTarget, TargetReached, ActiveDags, CompletionInv, TypeOK, DatabaseOK, DagRow
<1>19. CASE FinishHeld \/ FinishPlan \/ FinishWait \/ FinishPlanFails
  BY <1>19 DEF FinishHeld, FinishPlan, FinishWait, FinishPlanFails
<1>20. CASE Crash
  BY <1>20 DEF Crash, CompletionInv, EvaluationInv
<1>23. CASE Restart
  BY <1>23 DEF Restart, CompletionInv, CompletionSound
<1>21. CASE Condor
  BY <1>21 DEF Condor, WuSucceeds, WuFails, DagmanExits, DagmanRemoved, LeavesQueue, DagmanLost, DagmanStep,
     CompletionInv, CompletionSound
<1>22. CASE UNCHANGED vars
  BY <1>22 DEF vars, CompletionInv, CompletionSound
<1>. QED
  BY <1>1, <1>2, <1>3, <1>4, <1>5, <1>6, <1>7, <1>8, <1>9, <1>10, <1>11, <1>12, <1>13, <1>14, <1>15, <1>16, <1>17, <1>18, <1>19, <1>20, <1>21, <1>22, <1>23 DEF Next, Lifecycle, Operator, Finish

\* The lifecycle never completes a request too early: the target is reached
\* and no DAG row is left submitted or running.
THEOREM CompletionCorrect == Spec => []CompletionSound
<1>1. Init => CompletionInv
  BY TypeInit DEF Init, Evaluating, CompletionInv, EvaluationInv, CompletionSound
<1>2. CompletionInv /\ [Next]_vars => CompletionInv'
  BY TypeStep, EvaluationStep, CompletionStep DEF CompletionInv
<1>3. CompletionInv => CompletionSound
  BY DEF CompletionInv
<1>. QED
  BY <1>1, <1>2, <1>3, PTL DEF Spec

-------------------------------------------------------------------------------
(* No DAGMan runs unmanaged.  A rollback restores the rows of the evaluation's *)
(* beginning, so the invariant also speaks of the snapshot; and a new row must *)
(* not meet an old DAGMan, so rows beyond the used ones are absent.            *)

\* Every DAGMan alive belongs to an active row.
Owned(rows) == \A d \in DagId : job[d] = "alive" => rows[d].st = "active"

\* No row was created beyond the first n.
Unused(rows, n) == \A d \in DagId : d > n => rows[d].st = "absent"

ManagedInv ==
    /\ \A d \in todo : d <= used
    /\ Unused(dags, used)
    /\ status \notin Terminal => Owned(dags)
    /\ Evaluating => Owned(snap.dags) /\ Unused(snap.dags, snap.used)

ManagedIInv == TypeOK /\ EvaluationInv /\ ManagedInv

\* condor_rm brings no DAGMan to life.
LEMMA CondorRmOwned ==
    ASSUME CondorOK, NEW S, CondorRm(S)
    PROVE  \A d \in DagId : job'[d] = "alive" => job[d] = "alive"
BY DEF CondorRm, CondorOK, AfterRemove

\* Rows that keep their status, and jobs that die at most, keep the rows owned.
LEMMA OwnedKept ==
    ASSUME Owned(dags),
           \A d \in DagId : job'[d] = "alive" => job[d] = "alive" /\ dags'[d].st = dags[d].st
    PROVE  Owned(dags)'
BY DEF Owned

\* Planning a round starts a DAGMan for a row of its own, which is active, and no other.
LEMMA PlanRoundManaged ==
    ASSUME ManagedIInv, status \notin Terminal, NEW rows \in [DagId -> DagRow],
           \A d \in DagId : rows[d].st = dags[d].st \/ (dags[d].st = "ready" /\ rows[d].st = "failed"),
           PlanRound(rows)
    PROVE  Unused(dags, used)' /\ Owned(dags)'
<1>1. used + 1 \in DagId /\ used \in Nat
  BY ConstantTypes DEF ManagedIInv, TypeOK, DatabaseOK, PlanRound, DagId
<1>2. dags' = [rows EXCEPT ![used + 1] = PlannedRow("active")] /\ used' = used + 1
      /\ job' = [job EXCEPT ![used + 1] = "alive"]
  BY DEF PlanRound
<1>3. PlannedRow("active").st = "active"
  BY DEF PlannedRow
<1>4. ASSUME NEW d \in DagId, d > used' PROVE dags'[d].st = "absent"
  <2>1. d # used + 1 /\ d > used
    BY <1>1, <1>2, <1>4 DEF DagId
  <2>2. dags[d].st = "absent"
    BY <2>1 DEF ManagedIInv, ManagedInv, Unused
  <2>. QED
    BY <1>2, <2>1, <2>2
<1>5. ASSUME NEW d \in DagId, job'[d] = "alive" PROVE dags'[d].st = "active"
  <2>1. CASE d = used + 1
    BY <1>1, <1>2, <1>3, <2>1
  <2>2. CASE d # used + 1
    <3>1. job[d] = "alive"
      BY <1>2, <1>5, <2>2 DEF ManagedIInv, TypeOK, CondorOK
    <3>2. dags[d].st = "active"
      BY <3>1 DEF ManagedIInv, ManagedInv, Owned
    <3>. QED
      BY <1>2, <2>2, <3>2
  <2>. QED
    BY <2>1, <2>2
<1>. QED
  BY <1>4, <1>5 DEF Unused, Owned

\* A rescue row is created where no row was, and no DAGMan.
LEMMA FailureHandlingManaged ==
    ASSUME ManagedIInv, status \notin Terminal, NEW d \in DagId, NEW rows \in [DagId -> DagRow],
           \A e \in DagId : e # d => rows[e].st = dags[e].st,
           job[d] # "alive", d <= used, UNCHANGED job, FailureHandling(rows, d)
    PROVE  Unused(dags, used)' /\ Owned(dags)'
<1>1. used \in Nat
  BY DEF ManagedIInv, TypeOK, DatabaseOK
<1>2. CASE RescueAllowed(rows[d])
  <2>1. used' = used + 1 /\ dags' = [rows EXCEPT ![used + 1] = RescueRow(rows[d])]
    BY <1>2 DEF FailureHandling
  <2>2. ASSUME NEW e \in DagId, e > used' PROVE dags'[e].st = "absent"
    <3>1. e # used + 1 /\ e > used /\ e # d
      BY <1>1, <2>1, <2>2 DEF DagId
    <3>. QED
      BY <2>1, <3>1 DEF ManagedIInv, ManagedInv, Unused
  <2>3. ASSUME NEW e \in DagId, job'[e] = "alive" PROVE dags'[e].st = "active"
    <3>1. e # d /\ dags[e].st = "active"
      BY <2>3 DEF ManagedIInv, ManagedInv, Owned
    <3>2. e # used + 1
      BY <1>1, <3>1 DEF ManagedIInv, ManagedInv, Unused, DagId
    <3>. QED
      BY <2>1, <3>1, <3>2
  <2>. QED
    BY <2>2, <2>3 DEF Unused, Owned
<1>3. CASE ~RescueAllowed(rows[d])
  <2>1. used' = used /\ dags' = rows
    BY <1>3 DEF FailureHandling
  <2>2. ASSUME NEW e \in DagId, e > used' PROVE dags'[e].st = "absent"
    <3>1. e > used /\ e # d
      BY <1>1, <2>1, <2>2 DEF DagId
    <3>. QED
      BY <2>1, <3>1 DEF ManagedIInv, ManagedInv, Unused
  <2>3. ASSUME NEW e \in DagId, job'[e] = "alive" PROVE dags'[e].st = "active"
    BY <2>1, <2>3 DEF ManagedIInv, ManagedInv, Owned
  <2>. QED
    BY <2>2, <2>3 DEF Unused, Owned
<1>. QED
  BY <1>2, <1>3

\* What is polled was created: rows only get more, but for a rollback, and a
\* rollback ends the polling.
LEMMA PolledStep == ManagedIInv /\ [Next]_vars => (\A d \in todo : d <= used)'
<1>. SUFFICES ASSUME ManagedIInv, [Next]_vars PROVE (\A d \in todo : d <= used)'
  OBVIOUS
<1>. USE DEF db, condor, evaluation, Evaluating
<1>. DEFINE More == todo' \subseteq todo /\ used' \in {used, used + 1}
<1>0. used \in Nat /\ todo \subseteq Nat /\ \A d \in todo : d <= used
  BY DEF ManagedIInv, ManagedInv, TypeOK, DatabaseOK, EvaluationOK, DagId
<1>1. CASE Crash \/ Finish
  BY <1>1 DEF Crash, Finish, FinishHeld, FinishTarget, FinishPlan, FinishWait, FinishPlanFails, Commit
<1>2. CASE ActiveBegin
  <2>1. todo' = ActiveDags(dags) /\ UNCHANGED used
    BY <1>2 DEF ActiveBegin, Begin
  <2>2. \A d \in ActiveDags(dags) : ~(d > used) /\ d \in Nat /\ used \in Nat
    BY DEF ActiveDags, ManagedIInv, ManagedInv, Unused, TypeOK, DatabaseOK, DagId
  <2>. QED
    BY <2>1, <2>2
<1>3. CASE \E d \in DagId : Poll(d)
  <2>1. PICK d \in DagId : Poll(d)
    BY <1>3
  <2>2. todo' = {} \/ More
    BY <2>1 DEF Poll, PollNothing, PollRunning, PollCompleted, PollFailed, NextPoll, Commit
  <2>3. CASE todo' = {}
    BY <2>3
  <2>4. CASE More
    BY <2>4, <1>0
  <2>. QED
    BY <2>2, <2>3, <2>4
<1>4. CASE HandleSubmitted \/ QueuedToActive \/ QueuedSubmitRescue \/ QueuedPlan \/ QueuedNothingLeft
           \/ HandleResubmitting \/ StoppingRetriesRemove \/ StoppingDone \/ ActiveHeadFailed
           \/ StuckFails \/ StuckStopping
  <2>1. More
    BY <1>4 DEF HandleSubmitted, QueuedToActive, QueuedSubmitRescue, QueuedPlan, QueuedNothingLeft,
       HandleResubmitting, StoppingRetriesRemove, StoppingDone, ActiveHeadFailed, FailureHandling,
       StuckFails, StuckStopping, PlanRound
  <2>. QED
    BY <2>1, <1>0
<1>5. CASE Restart \/ Operator \/ Condor \/ UNCHANGED vars
  BY <1>5 DEF Restart, Operator, StopRequest, ReleaseRequest, FailRunning, FailStopped, AbortRequest, vars,
     Condor, WuSucceeds, WuFails, DagmanExits, DagmanRemoved, LeavesQueue, DagmanLost, DagmanStep,
     ManagedIInv, ManagedInv
<1>. QED
  BY <1>1, <1>2, <1>3, <1>4, <1>5 DEF Next, Lifecycle

\* Every step leaves each DAGMan with an active row.
LEMMA ManagedStep == ManagedIInv /\ [Next]_vars => ManagedInv'
<1>. SUFFICES ASSUME ManagedIInv, [Next]_vars PROVE ManagedInv'
  OBVIOUS
<1>. USE PolledStep DEF db, condor, evaluation, Evaluating
<1>0. \A d \in DagId : dags[d] \in DagRow
  BY DEF ManagedIInv, TypeOK, DatabaseOK
<1>1. CASE HandleSubmitted
  BY <1>1 DEF HandleSubmitted, Idle, ManagedIInv, ManagedInv, Owned, Unused, Terminal
<1>2. CASE QueuedToActive
  BY <1>2 DEF QueuedToActive, Queued, Idle, ManagedIInv, ManagedInv, Owned, Unused, Terminal
<1>3. CASE StuckFails
  BY <1>3 DEF StuckFails, Idle, ManagedIInv, ManagedInv, Owned, Unused, Terminal
<1>4. CASE ReleaseRequest
  BY <1>4 DEF ReleaseRequest, Idle, ManagedIInv, ManagedInv, Owned, Unused, Terminal
<1>5. CASE AbortRequest
  BY <1>5 DEF AbortRequest, Idle, ManagedIInv, ManagedInv, Owned, Unused, Terminal
<1>6. CASE QueuedSubmitRescue
  <2>1. head \in DagId /\ dags[head].st = "ready" /\ dags' = [dags EXCEPT ![head].st = "active"]
        /\ job' = [job EXCEPT ![head] = "alive"] /\ pc' = "idle" /\ UNCHANGED used /\ status \notin Terminal
    BY <1>6 DEF ManagedIInv, ManagedInv, TypeOK, DatabaseOK, QueuedSubmitRescue, RescuePending, Queued, Idle, Terminal
  <2>2. Unused(dags, used)'
    BY <2>1, <1>0 DEF ManagedIInv, ManagedInv, Unused, TypeOK, DatabaseOK, DagRow
  <2>3. Owned(dags)'
    BY <2>1, <1>0 DEF ManagedIInv, ManagedInv, Owned, TypeOK, DatabaseOK, CondorOK, DagRow
  <2>. QED
    BY <2>1, <2>2, <2>3 DEF ManagedInv
<1>7. CASE QueuedPlan
  <2>1. status \notin Terminal /\ pc' = "idle"
    BY <1>7 DEF QueuedPlan, Queued, Idle, Terminal
  <2>2. CASE PlanRound(dags)
    BY <2>1, <2>2, PlanRoundManaged DEF ManagedIInv, ManagedInv, TypeOK, DatabaseOK
  <2>3. CASE RescuePending /\ PlanRound([dags EXCEPT ![head].st = "failed"])
    <3>1. head \in DagId /\ dags[head].st = "ready"
      BY <2>3 DEF ManagedIInv, TypeOK, DatabaseOK, RescuePending
    <3>2. [dags EXCEPT ![head].st = "failed"] \in [DagId -> DagRow]
      BY <3>1 DEF ManagedIInv, TypeOK, DatabaseOK, DagRow, DagStatus
    <3>3. \A d \in DagId : LET rows == [dags EXCEPT ![head].st = "failed"]
                           IN  rows[d].st = dags[d].st \/ (dags[d].st = "ready" /\ rows[d].st = "failed")
      BY <1>0, <3>1 DEF ManagedIInv, TypeOK, DatabaseOK, DagRow
    <3>. QED
      BY <2>1, <2>3, <3>2, <3>3, PlanRoundManaged DEF ManagedInv
  <2>. QED
    BY <1>7, <2>2, <2>3 DEF QueuedPlan
<1>8. CASE QueuedNothingLeft
  <2>1. Unused(dags, used)'
    BY <1>8, <1>0 DEF QueuedNothingLeft, RescuePending, ManagedIInv, ManagedInv, Unused, TypeOK, DatabaseOK, DagRow
  <2>. QED
    BY <1>8, <2>1 DEF QueuedNothingLeft, Queued, Idle, ManagedInv, Terminal
<1>9. CASE HandleResubmitting
  <2>0. status \notin Terminal /\ pc' = "idle" /\ UNCHANGED job /\ used \in Nat
    BY <1>9 DEF HandleResubmitting, Idle, Terminal, ManagedIInv, TypeOK, DatabaseOK
  <2>1. CASE head # 0 /\ dags[head].st = "stopped"
    <3>1. used' = used + 1 /\ dags' = [dags EXCEPT ![used + 1] = RescueRow(dags[head])]
      BY <1>9, <2>1 DEF HandleResubmitting
    <3>2. Unused(dags, used)'
      BY <2>0, <3>1 DEF ManagedIInv, ManagedInv, Unused, TypeOK, DatabaseOK, DagId
    <3>3. \A d \in DagId : job[d] = "alive" => d # used + 1
      BY <2>0 DEF ManagedIInv, ManagedInv, Owned, Unused, DagId
    <3>4. Owned(dags)'
      BY <2>0, <3>1, <3>3 DEF ManagedIInv, ManagedInv, Owned, TypeOK, DatabaseOK
    <3>. QED
      BY <2>0, <3>2, <3>4 DEF ManagedInv
  <2>2. CASE ~(head # 0 /\ dags[head].st = "stopped")
    BY <1>9, <2>0, <2>2 DEF HandleResubmitting, ManagedIInv, ManagedInv, Owned, Unused
  <2>. QED
    BY <2>1, <2>2
<1>10. CASE StoppingRetriesRemove
  <2>1. \A d \in DagId : job'[d] = "alive" => job[d] = "alive"
    BY <1>10, CondorRmOwned DEF StoppingRetriesRemove, ManagedIInv, TypeOK
  <2>. QED
    BY <1>10, <2>1 DEF StoppingRetriesRemove, Stopping, Idle, ManagedIInv, ManagedInv, Owned, Unused
<1>11. CASE StoppingDone
  <2>1. Unused(dags, used)'
    BY <1>11, <1>0 DEF StoppingDone, FailedRows, ManagedIInv, ManagedInv, Unused, DagRow
  <2>2. ~FailRequested => Owned(dags)'
    BY <1>11, <1>0 DEF StoppingDone, Stopping, Drained, ActiveDags, ManagedIInv, ManagedInv, Owned, Terminal
  <2>. QED
    BY <1>11, <2>1, <2>2 DEF StoppingDone, Stopping, Idle, ManagedInv, Terminal
<1>12. CASE ActiveBegin
  <2>1. snap'.dags = dags /\ snap'.used = used /\ UNCHANGED <<dags, used, status, job>> /\ status = "active"
    BY <1>12 DEF ActiveBegin, Begin
  <2>. QED
    BY <2>1 DEF ManagedIInv, ManagedInv, Owned, Unused, Terminal
<1>13. CASE ActiveHeadFailed
  <2>1. head \in DagId /\ dags[head].st \in {"partial", "failed"} /\ status \notin Terminal /\ pc' = "idle"
        /\ UNCHANGED job /\ FailureHandling(dags, head) /\ used \in Nat
    BY <1>13 DEF ActiveHeadFailed, HeadFailed, Idle, Terminal, ManagedIInv, TypeOK, DatabaseOK
  <2>2. job[head] # "alive" /\ head <= used
    BY <2>1 DEF ManagedIInv, ManagedInv, Owned, Unused, DagId
  <2>. QED
    BY <2>1, <2>2, FailureHandlingManaged DEF ManagedIInv, ManagedInv, TypeOK, DatabaseOK
<1>14. ASSUME NEW d \in DagId, Poll(d) PROVE ManagedInv'
  <2>0. pc = "poll" /\ status \notin Terminal
    BY <1>14 DEF Poll, PollNothing, PollRunning, PollCompleted, PollFailed, Polling,
       ManagedIInv, EvaluationInv, Terminal
  <2>1. CASE PollNothing(d)
    BY <2>0, <2>1 DEF PollNothing, NextPoll, ManagedIInv, ManagedInv, Owned, Unused
  <2>. DEFINE keeps == \A e \in DagId : e # d => dags'[e].st = dags[e].st
  <2>2. CASE PollRunning(d)
    <3>1. dags' = RecordPoll(d, "active") /\ UNCHANGED <<job, snap, used>> /\ job[d] = "alive"
      BY <2>2 DEF PollRunning, NextPoll
    <3>2. keeps /\ dags'[d].st = "active"
      BY <1>0, <3>1 DEF RecordPoll, ManagedIInv, TypeOK, DatabaseOK, DagRow
    <3>3. dags[d].st = "active"
      BY <2>0, <3>1 DEF ManagedIInv, ManagedInv, Owned
    <3>. QED
      BY <2>0, <3>1, <3>2, <3>3 DEF ManagedIInv, ManagedInv, Owned, Unused
  <2>3. CASE PollCompleted(d)
    <3>1. dags' = RecordPoll(d, "completed") /\ UNCHANGED used /\ job[d] # "alive"
          /\ (Evaluating' => UNCHANGED snap)
      BY <2>3 DEF PollCompleted, NextPoll, Commit, DagmanEnded
    <3>2. \A e \in DagId : job'[e] = "alive" => job[e] = "alive"
      BY <2>3, CondorRmOwned DEF PollCompleted, ManagedIInv, TypeOK
    <3>3. keeps
      BY <1>0, <3>1 DEF RecordPoll, ManagedIInv, TypeOK, DatabaseOK, DagRow
    <3>4. d <= used
      BY <2>3 DEF PollCompleted, Polling, ManagedIInv, ManagedInv
    <3>. QED
      BY <2>0, <3>1, <3>2, <3>3, <3>4 DEF ManagedIInv, ManagedInv, Owned, Unused, TypeOK, DatabaseOK, DagId
  <2>4. CASE PollFailed(d)
    <3>. DEFINE rows == RecordPoll(d, FinalStatus(dags[d].dir))
    <3>1. FailureHandling(rows, d) /\ UNCHANGED job /\ job[d] # "alive" /\ pc' = "idle"
          /\ FinalStatus(dags[d].dir) \in DagStatus
      BY <2>4 DEF PollFailed, Commit, DagmanEnded, DagStatus
    <3>2. rows \in [DagId -> DagRow]
      BY <3>1, RecordPollType DEF ManagedIInv
    <3>3. \A e \in DagId : e # d => rows[e].st = dags[e].st
      BY <1>0, <3>1 DEF RecordPoll, ManagedIInv, TypeOK, DatabaseOK, DagRow
    <3>4. d <= used
      BY <2>4 DEF PollFailed, Polling, ManagedIInv, ManagedInv
    <3>. QED
      BY <2>0, <3>1, <3>2, <3>3, <3>4, FailureHandlingManaged DEF ManagedInv
  <2>. QED
    BY <1>14, <2>1, <2>2, <2>3, <2>4 DEF Poll
<1>15. CASE FinishHeld \/ FinishWait
  <2>1. pc' = "idle" /\ UNCHANGED <<dags, used, job>> /\ status \notin Terminal
    BY <1>15 DEF FinishHeld, FinishWait, Finishing, Commit, ManagedIInv, EvaluationInv, Terminal
  <2>. QED
    BY <2>1 DEF ManagedIInv, ManagedInv, Owned, Unused
<1>16. CASE FinishTarget
  <2>1. Unused(dags, used)'
    BY <1>16, <1>0 DEF FinishTarget, ManagedIInv, ManagedInv, Unused, DagRow
  <2>. QED
    BY <1>16, <2>1 DEF FinishTarget, Commit, ManagedInv, Terminal
<1>17. CASE FinishPlan
  <2>1. PlanRound(dags) /\ pc' = "idle" /\ status \notin Terminal
    BY <1>17 DEF FinishPlan, Commit, Terminal
  <2>. QED
    BY <2>1, PlanRoundManaged DEF ManagedIInv, ManagedInv, TypeOK, DatabaseOK
<1>18. CASE FinishPlanFails
  <2>0. pc' = "idle" /\ status \notin Terminal /\ UNCHANGED job /\ used \in Nat
    BY <1>18 DEF FinishPlanFails, Commit, Terminal, ManagedIInv, TypeOK, DatabaseOK
  <2>1. CASE UNCHANGED <<dags, used>>
    BY <2>0, <2>1 DEF ManagedIInv, ManagedInv, Owned, Unused
  <2>2. CASE used' = used + 1 /\ dags' = [dags EXCEPT ![used + 1] = PlannedRow("ready")]
    <3>1. Unused(dags, used)'
      BY <2>0, <2>2 DEF ManagedIInv, ManagedInv, Unused, TypeOK, DatabaseOK, DagId
    <3>2. \A d \in DagId : job[d] = "alive" => d # used + 1
      BY <2>0 DEF ManagedIInv, ManagedInv, Owned, Unused, DagId
    <3>3. Owned(dags)'
      BY <2>0, <2>2, <3>2 DEF ManagedIInv, ManagedInv, Owned, TypeOK, DatabaseOK
    <3>. QED
      BY <2>0, <3>1, <3>3 DEF ManagedInv
  <2>. QED
    BY <1>18, <2>1, <2>2 DEF FinishPlanFails
<1>19. CASE StuckStopping
  <2>1. \A d \in DagId : dags'[d].st = dags[d].st /\ (job'[d] = "alive" => job[d] = "alive")
    BY <1>19, <1>0 DEF StuckStopping, AfterRemove, DagRow
  <2>. QED
    BY <1>19, <2>1 DEF StuckStopping, Stopping, Idle, ManagedIInv, ManagedInv, Owned, Unused
<1>20. CASE Crash
  <2>1. dags' = snap.dags /\ used' = snap.used /\ UNCHANGED job /\ ~Evaluating' /\ Evaluating
    BY <1>20 DEF Crash
  <2>. QED
    BY <2>1 DEF ManagedIInv, ManagedInv, Owned, Unused
<1>26. CASE Restart
  BY <1>26 DEF Restart, ManagedIInv, ManagedInv, Owned, Unused
<1>21. CASE StopRequest
  <2>1. \A d \in DagId : dags'[d].st = dags[d].st
    BY <1>21, <1>0 DEF StopRequest, MarkHead, ManagedIInv, TypeOK, DatabaseOK, DagRow
  <2>2. \A d \in DagId : job'[d] = "alive" => job[d] = "alive"
    BY <1>21, CondorRmOwned DEF StopRequest, ManagedIInv, TypeOK
  <2>. QED
    BY <1>21, <2>1, <2>2 DEF StopRequest, Idle, ManagedIInv, ManagedInv, Owned, Unused, Terminal
<1>22. CASE FailRunning
  <2>1. \A d \in DagId : dags'[d].st = dags[d].st
    BY <1>22, <1>0 DEF FailRunning, MarkHead, ManagedIInv, TypeOK, DatabaseOK, DagRow
  <2>2. \A d \in DagId : job'[d] = "alive" => job[d] = "alive"
    BY <1>22, CondorRmOwned DEF FailRunning, ManagedIInv, TypeOK
  <2>. QED
    BY <1>22, <2>1, <2>2 DEF FailRunning, Idle, ManagedIInv, ManagedInv, Owned, Unused, Terminal
<1>23. CASE FailStopped
  <2>1. Unused(dags, used)'
    BY <1>23, <1>0 DEF FailStopped, FailedRows, ManagedIInv, ManagedInv, Unused, DagRow
  <2>. QED
    BY <1>23, <2>1 DEF FailStopped, Idle, ManagedInv, Terminal
<1>24. CASE Condor
  <2>1. \A d \in DagId : job'[d] = "alive" => job[d] = "alive"
    BY <1>24 DEF Condor, WuSucceeds, WuFails, DagmanExits, DagmanRemoved, LeavesQueue, DagmanLost,
       DagmanStep, ManagedIInv, TypeOK, CondorOK
  <2>2. UNCHANGED <<db, evaluation>>
    BY <1>24 DEF Condor, WuSucceeds, WuFails, DagmanExits, DagmanRemoved, LeavesQueue, DagmanLost, DagmanStep
  <2>. QED
    BY <2>1, <2>2 DEF ManagedIInv, ManagedInv, Owned, Unused
<1>25. CASE UNCHANGED vars
  BY <1>25 DEF vars, ManagedIInv, ManagedInv, Owned, Unused
<1>. QED
  BY <1>1, <1>2, <1>3, <1>4, <1>5, <1>6, <1>7, <1>8, <1>9, <1>10, <1>11, <1>12, <1>13, <1>14, <1>15, <1>16, <1>17, <1>18, <1>19, <1>20, <1>21, <1>22, <1>23, <1>24, <1>25, <1>26 DEF Next, Lifecycle, Operator, Finish

\* At first there is no DAGMan.
LEMMA ManagedInit == Init => ManagedIInv
BY TypeInit, NoDagType DEF Init, Evaluating, ManagedIInv, ManagedInv, EvaluationInv, Owned, Unused, NoDag

\* Outside the terminal states the monitor polls every DAGMan that runs,
\* through rescues, stops, failed condor_rm calls and rollbacks.
THEOREM ManagedCorrect == Spec => []AliveDagmanIsManaged
<1>1. Init => ManagedIInv
  BY ManagedInit
<1>2. ManagedIInv /\ [Next]_vars => ManagedIInv'
  BY TypeStep, EvaluationStep, ManagedStep DEF ManagedIInv
<1>3. ManagedIInv => AliveDagmanIsManaged
  BY DEF ManagedIInv, ManagedInv, Owned, AliveDagmanIsManaged
<1>. QED
  BY <1>1, <1>2, <1>3, PTL DEF Spec

-------------------------------------------------------------------------------
(* A PAUSED request is quiet: what is left active when the stop ends is what   *)
(* its last evaluation saw drained, and every DAGMan alive has an active row.  *)

\* A request is paused only without active rows, and none becomes active then.
LEMMA PausedStep ==
    ManagedIInv /\ ManagedInv' /\ PausedIsQuiet /\ [Next]_vars => PausedIsQuiet'
<1>. SUFFICES ASSUME ManagedIInv, ManagedInv', PausedIsQuiet, [Next]_vars, status' = "paused"
              PROVE  ActiveDags(dags)' = {}
  BY DEF PausedIsQuiet, ManagedInv, Owned, ActiveDags, Terminal
<1>. USE DEF db, condor, evaluation, Evaluating
<1>1. CASE status = "paused" /\ UNCHANGED dags
  BY <1>1 DEF PausedIsQuiet, ActiveDags
<1>2. CASE StoppingDone
  <2>1. \A d \in DagId : dags'[d].st # "active"
    BY <1>2 DEF StoppingDone, ManagedIInv, TypeOK, DatabaseOK, DagRow
  <2>. QED
    BY <2>1 DEF ActiveDags
<1>3. CASE \E d \in DagId : Poll(d)
  <2>1. PICK d \in DagId : Poll(d)
    BY <1>3
  <2>2. pc = "poll" /\ status \in {"active", "held"}
    BY <2>1 DEF Poll, PollNothing, PollRunning, PollCompleted, PollFailed, Polling,
       ManagedIInv, EvaluationInv
  <2>. QED
    BY <2>1, <2>2 DEF Poll, PollNothing, PollRunning, PollCompleted, PollFailed, AfterRound, FailureHandling
<1>4. CASE Finish
  BY <1>4 DEF Finish, FinishHeld, FinishTarget, FinishPlan, FinishWait, FinishPlanFails
<1>5. CASE Crash \/ Restart
  BY <1>5 DEF Crash, Restart, ManagedIInv, EvaluationInv, PausedIsQuiet, ActiveDags
<1>6. CASE HandleSubmitted \/ QueuedToActive \/ QueuedSubmitRescue \/ QueuedPlan \/ QueuedNothingLeft
           \/ HandleResubmitting \/ ActiveBegin \/ ActiveHeadFailed \/ StuckFails
  BY <1>6 DEF HandleSubmitted, QueuedToActive, QueuedSubmitRescue, QueuedPlan, QueuedNothingLeft,
     HandleResubmitting, ActiveBegin, ActiveHeadFailed, StuckFails, FailureHandling
<1>7. CASE StoppingRetriesRemove \/ StuckStopping
  BY <1>7 DEF StoppingRetriesRemove, StuckStopping, Stopping
<1>8. CASE Operator
  BY <1>8 DEF Operator, StopRequest, ReleaseRequest, FailRunning, FailStopped, AbortRequest
<1>9. CASE Condor
  BY <1>9, <1>1 DEF Condor, WuSucceeds, WuFails, DagmanExits, DagmanRemoved, LeavesQueue, DagmanLost, DagmanStep
<1>10. CASE UNCHANGED vars
  BY <1>10, <1>1 DEF vars
<1>. QED
  BY <1>2, <1>3, <1>4, <1>5, <1>6, <1>7, <1>8, <1>9, <1>10 DEF Next, Lifecycle

\* A PAUSED request has no active row and no DAGMan alive, whichever
\* condor_rm calls of the stop failed.
THEOREM PausedCorrect == Spec => []PausedIsQuiet
<1>1. Init => ManagedIInv /\ PausedIsQuiet
  BY ManagedInit DEF Init, PausedIsQuiet
<1>2. ManagedIInv /\ PausedIsQuiet /\ [Next]_vars => (ManagedIInv /\ PausedIsQuiet)'
  BY TypeStep, EvaluationStep, ManagedStep, PausedStep DEF ManagedIInv
<1>. QED
  BY <1>1, <1>2, PTL DEF Spec

-------------------------------------------------------------------------------
(* No more rounds run than allowed.  The number of active rows also bounds     *)
(* what a rollback brings back.                                                *)

RoundsInv ==
    /\ ConcurrentRoundsBounded
    /\ Evaluating => Cardinality(ActiveDags(snap.dags)) <= MaxConcurrentRounds

RoundsIInv == ManagedIInv /\ RoundsInv

\* The rows have finitely many active ones; fewer of them stay in the bound.
LEMMA ActiveFinite ==
    ASSUME NEW rows PROVE IsFiniteSet(ActiveDags(rows)) /\ Cardinality(ActiveDags(rows)) \in Nat
<1>1. IsFiniteSet(DagId)
  BY ConstantTypes, FS_Interval DEF DagId
<1>2. ActiveDags(rows) \subseteq DagId
  BY DEF ActiveDags
<1>. QED
  BY <1>1, <1>2, FS_Subset, FS_CardinalityType

\* With no more active rows there are no more rounds.
LEMMA FewerRounds ==
    ASSUME ConcurrentRoundsBounded, ActiveDags(dags)' \subseteq ActiveDags(dags)
    PROVE  ConcurrentRoundsBounded'
<1>1. Cardinality(ActiveDags(dags)') <= Cardinality(ActiveDags(dags))
  BY ActiveFinite, FS_Subset
<1>2. Cardinality(ActiveDags(dags)') \in Nat
  BY ActiveFinite
<1>. QED
  BY <1>1, <1>2, ActiveFinite, ConstantTypes DEF ConcurrentRoundsBounded

\* A round is added where one more is allowed.
LEMMA OneMoreRound ==
    ASSUME NEW d, ActiveDags(dags)' \subseteq ActiveDags(dags) \cup {d},
           ActiveDags(dags) = {} \/ Cardinality(ActiveDags(dags)) < MaxConcurrentRounds
    PROVE  ConcurrentRoundsBounded'
<1>. DEFINE S == ActiveDags(dags)
<1>1. Cardinality(S) < MaxConcurrentRounds
  BY FS_EmptySet, ConstantTypes
<1>2. IsFiniteSet(S \cup {d}) /\ Cardinality(S \cup {d}) \in Nat /\ Cardinality(S \cup {d}) <= Cardinality(S) + 1
  BY ActiveFinite, FS_AddElement, FS_CardinalityType
<1>3. Cardinality(ActiveDags(dags)') <= Cardinality(S \cup {d}) /\ Cardinality(ActiveDags(dags)') \in Nat
  BY <1>2, FS_Subset, ActiveFinite
<1>4. Cardinality(S) \in Nat
  BY ActiveFinite
<1>. HIDE DEF S
<1>. QED
  BY <1>1, <1>2, <1>3, <1>4, ConstantTypes DEF ConcurrentRoundsBounded

\* A rescue row is no active row.
LEMMA FailureHandlingRounds ==
    ASSUME NEW d, NEW rows \in [DagId -> DagRow], FailureHandling(rows, d)
    PROVE  ActiveDags(dags)' \subseteq ActiveDags(rows)
BY DEF FailureHandling, ActiveDags, RescueRow

\* What a rollback would bring back was the database at some earlier moment.
LEMMA SnapshotStep ==
    ManagedIInv /\ [Next]_vars /\ Evaluating' => (Evaluating /\ UNCHANGED snap) \/ snap'.dags = dags
<1>. SUFFICES ASSUME ManagedIInv, [Next]_vars, Evaluating'
              PROVE  (Evaluating /\ UNCHANGED snap) \/ snap'.dags = dags
  OBVIOUS
<1>. USE DEF db, condor, evaluation, Evaluating
<1>1. CASE ActiveBegin
  BY <1>1 DEF ActiveBegin, Begin
<1>2. CASE \E d \in DagId : Poll(d)
  BY <1>2 DEF Poll, PollNothing, PollRunning, PollCompleted, PollFailed, Polling, NextPoll, Commit
<1>3. CASE Finish \/ Crash \/ Restart
  BY <1>3 DEF Finish, FinishHeld, FinishTarget, FinishPlan, FinishWait, FinishPlanFails, Crash, Restart, Commit
<1>4. CASE HandleSubmitted \/ QueuedToActive \/ QueuedSubmitRescue \/ QueuedPlan \/ QueuedNothingLeft
           \/ HandleResubmitting \/ StoppingRetriesRemove \/ StoppingDone \/ ActiveHeadFailed
           \/ StuckFails \/ StuckStopping
  BY <1>4 DEF HandleSubmitted, QueuedToActive, QueuedSubmitRescue, QueuedPlan, QueuedNothingLeft,
     HandleResubmitting, StoppingRetriesRemove, StoppingDone, ActiveHeadFailed, StuckFails, StuckStopping
<1>5. CASE Operator \/ Condor \/ UNCHANGED vars
  BY <1>5 DEF Operator, StopRequest, ReleaseRequest, FailRunning, FailStopped, AbortRequest, vars,
     Condor, WuSucceeds, WuFails, DagmanExits, DagmanRemoved, LeavesQueue, DagmanLost, DagmanStep
<1>. QED
  BY <1>1, <1>2, <1>3, <1>4, <1>5 DEF Next, Lifecycle

\* Every step keeps the number of rounds in its limit.
LEMMA RoundsStep == RoundsIInv /\ [Next]_vars => RoundsInv'
<1>. SUFFICES ASSUME RoundsIInv, [Next]_vars PROVE ConcurrentRoundsBounded'
  BY SnapshotStep DEF RoundsIInv, RoundsInv, ConcurrentRoundsBounded
<1>. USE DEF db, condor, evaluation, Evaluating
<1>. DEFINE Fewer == ActiveDags(dags)' \subseteq ActiveDags(dags)
<1>0. /\ dags \in [DagId -> DagRow] /\ head \in DagId \cup {0} /\ used \in Nat
      /\ \A d \in DagId : dags[d] \in DagRow
  BY DEF RoundsIInv, ManagedIInv, TypeOK, DatabaseOK
<1>1. Fewer => ConcurrentRoundsBounded'
  BY FewerRounds DEF RoundsIInv, RoundsInv
<1>2. CASE UNCHANGED dags
  BY <1>1, <1>2 DEF ActiveDags
<1>3. CASE QueuedSubmitRescue
  <2>1. ActiveDags(dags)' \subseteq ActiveDags(dags) \cup {head} /\ ActiveDags(dags) = {}
    BY <1>0, <1>3 DEF QueuedSubmitRescue, ActiveDags
  <2>. QED
    BY <2>1, OneMoreRound
<1>4. ASSUME NEW rows \in [DagId -> DagRow], PlanRound(rows), ActiveDags(rows) \subseteq ActiveDags(dags),
             ActiveDags(dags) = {} \/ Cardinality(ActiveDags(dags)) < MaxConcurrentRounds
      PROVE  ConcurrentRoundsBounded'
  <2>1. ActiveDags(dags)' \subseteq ActiveDags(dags) \cup {used + 1}
    BY <1>4 DEF PlanRound, ActiveDags
  <2>. QED
    BY <2>1, <1>4, OneMoreRound
<1>5. CASE QueuedPlan
  <2>1. CASE PlanRound(dags)
    BY <1>0, <1>4, <1>5, <2>1 DEF QueuedPlan
  <2>2. CASE RescuePending /\ PlanRound([dags EXCEPT ![head].st = "failed"])
    <3>1. [dags EXCEPT ![head].st = "failed"] \in [DagId -> DagRow]
      BY <1>0, <2>2 DEF RescuePending, DagRow, DagStatus
    <3>2. ActiveDags([dags EXCEPT ![head].st = "failed"]) \subseteq ActiveDags(dags)
      BY <1>0, <2>2 DEF RescuePending, ActiveDags, DagRow
    <3>. QED
      BY <1>4, <1>5, <2>2, <3>1, <3>2 DEF QueuedPlan
  <2>. QED
    BY <1>5, <2>1, <2>2 DEF QueuedPlan
<1>6. CASE QueuedNothingLeft \/ HandleResubmitting \/ StoppingDone \/ StuckStopping \/ FinishPlanFails
  <2>1. Fewer
    BY <1>0, <1>6 DEF QueuedNothingLeft, HandleResubmitting, StoppingDone, StuckStopping, FinishPlanFails,
       RescuePending, FailedRows, RescueRow, PlannedRow, ActiveDags, DagRow
  <2>. QED
    BY <1>1, <2>1
<1>7. CASE ActiveHeadFailed
  BY <1>0, <1>1, <1>7, FailureHandlingRounds DEF ActiveHeadFailed
<1>8. ASSUME NEW d \in DagId, Poll(d) PROVE ConcurrentRoundsBounded'
  <2>1. CASE PollNothing(d)
    BY <1>2, <2>1 DEF PollNothing
  <2>2. CASE PollRunning(d)
    <3>1. pc = "poll" /\ job[d] = "alive" /\ dags' = RecordPoll(d, "active")
      BY <2>2 DEF PollRunning, Polling
    <3>2. dags[d].st = "active"
      BY <3>1 DEF RoundsIInv, ManagedIInv, EvaluationInv, ManagedInv, Owned, Terminal
    <3>3. Fewer
      BY <1>0, <3>1, <3>2 DEF RecordPoll, ActiveDags
    <3>. QED
      BY <1>1, <3>3
  <2>3. CASE PollCompleted(d)
    <3>1. dags' = RecordPoll(d, "completed")
      BY <2>3 DEF PollCompleted
    <3>2. Fewer
      BY <1>0, <3>1 DEF RecordPoll, ActiveDags, DagRow
    <3>. QED
      BY <1>1, <3>2
  <2>4. CASE PollFailed(d)
    <3>1. PICK st \in {"partial", "failed"} : FailureHandling(RecordPoll(d, st), d)
      BY <2>4 DEF PollFailed
    <3>2. ActiveDags(RecordPoll(d, st)) \subseteq ActiveDags(dags)
      BY <1>0, <3>1 DEF RecordPoll, ActiveDags, DagRow
    <3>3. RecordPoll(d, st) \in [DagId -> DagRow]
      BY RecordPollType DEF RoundsIInv, ManagedIInv, DagStatus
    <3>. QED
      BY <1>1, <3>1, <3>2, <3>3, FailureHandlingRounds
  <2>. QED
    BY <1>8, <2>1, <2>2, <2>3, <2>4 DEF Poll
<1>9. CASE FinishTarget
  <2>1. Fewer
    BY <1>0, <1>9 DEF FinishTarget, ActiveDags, DagRow
  <2>. QED
    BY <1>1, <2>1
<1>10. CASE FinishPlan
  BY <1>0, <1>4, <1>10 DEF FinishPlan, MayAdvance
<1>11. CASE Crash
  <2>1. Evaluating /\ dags' = snap.dags
    BY <1>11 DEF Crash
  <2>. QED
    BY <2>1 DEF RoundsIInv, RoundsInv, ConcurrentRoundsBounded
<1>12. CASE StopRequest \/ FailRunning
  <2>1. Fewer
    BY <1>0, <1>12 DEF StopRequest, FailRunning, MarkHead, ActiveDags, DagRow
  <2>. QED
    BY <1>1, <2>1
<1>13. CASE FailStopped
  <2>1. Fewer
    BY <1>0, <1>13 DEF FailStopped, FailedRows, ActiveDags, DagRow
  <2>. QED
    BY <1>1, <2>1
<1>14. CASE HandleSubmitted \/ QueuedToActive \/ StoppingRetriesRemove \/ ActiveBegin \/ StuckFails
            \/ FinishHeld \/ FinishWait \/ ReleaseRequest \/ AbortRequest \/ Restart
  BY <1>2, <1>14 DEF HandleSubmitted, QueuedToActive, StoppingRetriesRemove, ActiveBegin, StuckFails,
     FinishHeld, FinishWait, ReleaseRequest, AbortRequest, Restart
<1>15. CASE Condor \/ UNCHANGED vars
  BY <1>2, <1>15 DEF Condor, WuSucceeds, WuFails, DagmanExits, DagmanRemoved, LeavesQueue, DagmanLost,
     DagmanStep, vars
<1>. QED
  BY <1>3, <1>5, <1>6, <1>7, <1>8, <1>9, <1>10, <1>11, <1>12, <1>13, <1>14, <1>15 DEF Next, Lifecycle, Operator, Finish

\* No round runs at first.
LEMMA RoundsInit == Init => RoundsIInv
<1>1. Init => ActiveDags(dags) = {}
  BY DEF Init, ActiveDags, NoDag
<1>. QED
  BY <1>1, ManagedInit, FS_EmptySet, ConstantTypes DEF Init, Evaluating, RoundsIInv, RoundsInv, ConcurrentRoundsBounded

\* DD-20: at most max_concurrent_rounds rounds run at any time, whatever
\* rescues, releases, crashes and failed submissions come in between.
THEOREM RoundsCorrect == Spec => []ConcurrentRoundsBounded
<1>1. Init => RoundsIInv
  BY RoundsInit
<1>2. RoundsIInv /\ [Next]_vars => RoundsIInv'
  BY TypeStep, EvaluationStep, ManagedStep, RoundsStep DEF RoundsIInv, ManagedIInv
<1>3. RoundsIInv => ConcurrentRoundsBounded
  BY DEF RoundsIInv, RoundsInv
<1>. QED
  BY <1>1, <1>2, <1>3, PTL DEF Spec

-------------------------------------------------------------------------------
(* No work unit is counted twice.  Rows that share a directory are the rescues *)
(* of one round; the row that may still be polled or rescued lists what all    *)
(* the others list, so what it finds new was never counted.                    *)

\* The work units recorded as completed, once for each directory.
Recorded(rows) == {x \in DagId \X Wu : \E d \in DagId : rows[d].dir = x[1] /\ x[2] \in rows[d].done}

\* The rows whose files may be read again: the running ones and the head.
Live(rows, hd) == {d \in DagId : rows[d].st = "active" \/ d = hd}

\* One live row of a directory at most, and it lists all that is recorded.
Latest(rows, S) ==
    \A d \in S, e \in DagId :
        rows[e].dir = rows[d].dir /\ e # d => rows[e].done \subseteq rows[d].done /\ e \notin S

\* Directories are named after rows already created; the others are empty.
Fresh(rows, n) ==
    \A d \in DagId : IF d <= n THEN rows[d].dir <= n
                     ELSE rows[d].st = "absent" /\ rows[d].done = {}

Counted(rows, hd, n, prod) ==
    /\ hd <= n
    /\ Latest(rows, Live(rows, hd))
    /\ Fresh(rows, n)
    /\ prod <= Cardinality(Recorded(rows))

CountInv ==
    /\ Counted(dags, head, used, produced)
    /\ todo # {} => pc = "poll"
    /\ \A d \in todo : dags[d].st = "active"
    /\ Evaluating => Counted(snap.dags, snap.head, snap.used, snap.produced)

\* Recorded work units are finitely many; a row adds its own to them.
LEMMA RecordedFinite ==
    ASSUME NEW rows
    PROVE  IsFiniteSet(Recorded(rows)) /\ Cardinality(Recorded(rows)) \in Nat
<1>1. IsFiniteSet(DagId) /\ IsFiniteSet(Wu)
  BY ConstantTypes, FS_Interval DEF DagId, Wu
<1>2. IsFiniteSet(DagId \X Wu)
  BY <1>1, FS_Product
<1>3. Recorded(rows) \subseteq DagId \X Wu
  BY DEF Recorded
<1>. QED
  BY <1>2, <1>3, FS_Subset, FS_CardinalityType

\* Rows that list no less record no less.
LEMMA RecordedMore ==
    ASSUME NEW rows, NEW more,
           \A d \in DagId : rows[d].done # {} =>
               more[d].dir = rows[d].dir /\ rows[d].done \subseteq more[d].done
    PROVE  Cardinality(Recorded(rows)) <= Cardinality(Recorded(more))
<1>1. Recorded(rows) \subseteq Recorded(more)
  BY DEF Recorded
<1>. QED
  BY <1>1, RecordedFinite, FS_Subset

\* The work units of one directory, as pairs, are as many as the work units.
LEMMA PairsOfDirectory ==
    ASSUME NEW dir, NEW S \in SUBSET Wu
    PROVE  IsFiniteSet({dir} \X S) /\ Cardinality({dir} \X S) = Cardinality(S) /\ Cardinality(S) \in Nat
<1>1. IsFiniteSet(Wu)
  BY ConstantTypes, FS_Interval DEF Wu
<1>2. IsFiniteSet(S) /\ Cardinality(S) \in Nat
  BY <1>1, FS_Subset, FS_CardinalityType
<1>3. IsFiniteSet({dir}) /\ Cardinality({dir}) = 1
  BY FS_Singleton
<1>4. IsFiniteSet({dir} \X S) /\ Cardinality({dir} \X S) = 1 * Cardinality(S)
  BY <1>2, <1>3, FS_Product
<1>. QED
  BY <1>2, <1>4

\* Rows that change at most their status, none becoming live, stay counted.
LEMMA CountedKept ==
    ASSUME NEW rows, NEW more, NEW hd \in Nat, NEW n \in Nat, NEW prod,
           Counted(rows, hd, n, prod),
           \A d \in DagId :
               /\ more[d].dir = rows[d].dir /\ more[d].done = rows[d].done
               /\ more[d].st = "active" => d \in Live(rows, hd)
               /\ rows[d].st = "absent" /\ d > n => more[d].st = "absent"
    PROVE  Counted(more, hd, n, prod)
<1>1. Live(more, hd) \subseteq Live(rows, hd)
  BY DEF Live
<1>2. Latest(more, Live(more, hd))
  BY <1>1 DEF Counted, Latest, Live
<1>3. Fresh(more, n)
  BY DEF Counted, Fresh, DagId
<1>4. Recorded(more) = Recorded(rows)
  BY DEF Recorded
<1>. QED
  BY <1>2, <1>3, <1>4 DEF Counted

\* A fresh row with a directory of its own stays counted, head or not.
LEMMA CountedFreshRow ==
    ASSUME NEW rows \in [DagId -> DagRow], NEW hd \in Nat, NEW n \in Nat, NEW prod \in Nat,
           n + 1 \in DagId, NEW new \in DagRow, NEW h \in {hd, n + 1},
           h = hd => new.st # "active",
           new.dir = n + 1, new.done = {},
           Counted(rows, hd, n, prod)
    PROVE  Counted([rows EXCEPT ![n + 1] = new], h, n + 1, prod)
<1>. DEFINE more == [rows EXCEPT ![n + 1] = new]
<1>0. DagId \subseteq Nat
  BY DEF DagId
<1>1. /\ more[n + 1] = new
      /\ \A d \in DagId : d # n + 1 => more[d] = rows[d]
  OBVIOUS
<1>2. /\ \A d \in DagId : d <= n => rows[d].dir \in DagId /\ rows[d].dir <= n
      /\ \A d \in DagId : d > n => rows[d].st = "absent" /\ rows[d].done = {}
  BY <1>0 DEF Counted, Fresh, DagRow
<1>3. hd <= n
  BY DEF Counted
<1>. HIDE DEF more
<1>4. Live(more, h) \subseteq Live(rows, hd) \cup {n + 1}
  BY <1>0, <1>1 DEF Live
<1>5. \A d \in Live(rows, hd) : d <= n /\ d \in DagId
  BY <1>0, <1>2, <1>3 DEF Live
<1>6. Latest(more, Live(more, h))
  <2>. SUFFICES ASSUME NEW d \in Live(more, h), NEW e \in DagId, more[e].dir = more[d].dir, e # d
                PROVE  more[e].done \subseteq more[d].done /\ e \notin Live(more, h)
    BY DEF Latest
  <2>1. CASE d = n + 1
    <3>1. rows[e].dir = n + 1 /\ more[e] = rows[e]
      BY <1>1, <2>1
    <3>2. e > n
      BY <1>0, <1>2, <3>1
    <3>3. e \notin Live(rows, hd) /\ rows[e].done = {}
      BY <1>2, <1>5, <3>2, <1>0
    <3>. QED
      BY <1>4, <2>1, <3>1, <3>3
  <2>2. CASE d # n + 1
    <3>1. d \in Live(rows, hd) /\ d <= n /\ d \in DagId /\ more[d] = rows[d]
      BY <1>1, <1>4, <1>5, <2>2
    <3>2. e # n + 1
      BY <1>0, <1>1, <1>2, <3>1
    <3>3. more[e] = rows[e]
      BY <1>1, <3>2
    <3>. QED
      BY <1>4, <3>1, <3>2, <3>3 DEF Counted, Latest
  <2>. QED
    BY <2>1, <2>2
<1>7. Fresh(more, n + 1)
  BY <1>0, <1>1, <1>2 DEF Fresh
<1>8. h <= n + 1
  BY <1>3
<1>9. prod <= Cardinality(Recorded(more))
  <2>1. \A d \in DagId : rows[d].done # {} => d # n + 1
    BY <1>2
  <2>2. Cardinality(Recorded(rows)) <= Cardinality(Recorded(more))
    BY <1>1, <2>1, RecordedMore
  <2>. QED
    BY <2>2, RecordedFinite DEF Counted
<1>. QED
  BY <1>6, <1>7, <1>8, <1>9 DEF Counted, more

\* The rescue row takes the place of the live row it copies.
LEMMA CountedRescue ==
    ASSUME NEW rows \in [DagId -> DagRow], NEW hd \in Nat, NEW n \in Nat, NEW prod \in Nat,
           n + 1 \in DagId, NEW d \in DagId, d <= n, rows[d].st # "active",
           Latest(rows, Live(rows, hd) \cup {d}), Fresh(rows, n), hd <= n,
           prod <= Cardinality(Recorded(rows))
    PROVE  Counted([rows EXCEPT ![n + 1] = RescueRow(rows[d])], n + 1, n + 1, prod)
<1>. DEFINE more == [rows EXCEPT ![n + 1] = RescueRow(rows[d])]
            S == Live(rows, hd) \cup {d}
<1>0. DagId \subseteq Nat
  BY DEF DagId
<1>1. /\ more[n + 1].st = "ready" /\ more[n + 1].dir = rows[d].dir /\ more[n + 1].done = rows[d].done
      /\ \A e \in DagId : e # n + 1 => more[e] = rows[e]
      /\ d # n + 1
  BY <1>0 DEF RescueRow
<1>2. /\ \A e \in DagId : e <= n => rows[e].dir \in DagId /\ rows[e].dir <= n
      /\ \A e \in DagId : e > n => rows[e].st = "absent" /\ rows[e].done = {}
  BY <1>0 DEF Fresh, DagRow
<1>. HIDE DEF more
<1>3. /\ Live(more, n + 1) \subseteq (S \ {d}) \cup {n + 1}
      /\ n + 1 \notin S
      /\ S \subseteq DagId
  BY <1>0, <1>1, <1>2 DEF Live
<1>4. Latest(more, Live(more, n + 1))
  <2>. SUFFICES ASSUME NEW l \in Live(more, n + 1), NEW e \in DagId, more[e].dir = more[l].dir, e # l
                PROVE  more[e].done \subseteq more[l].done /\ e \notin Live(more, n + 1)
    BY DEF Latest
  <2>0. /\ d \in S
        /\ \A x \in S, y \in DagId : rows[y].dir = rows[x].dir /\ y # x =>
               rows[y].done \subseteq rows[x].done /\ y \notin S
    BY DEF Latest
  <2>. HIDE DEF S
  <2>1. CASE l = n + 1
    <3>1. more[e] = rows[e] /\ rows[e].dir = rows[d].dir
      BY <1>1, <2>1
    <3>2. CASE e = d
      BY <1>1, <1>3, <2>1, <3>2
    <3>3. CASE e # d
      BY <1>1, <1>3, <2>0, <2>1, <3>1, <3>3
    <3>. QED
      BY <3>2, <3>3
  <2>2. CASE l # n + 1
    <3>1. l \in S /\ l # d /\ more[l] = rows[l] /\ l \in DagId
      BY <1>1, <1>3, <2>2
    <3>2. e # n + 1
      BY <1>1, <2>0, <3>1
    <3>. QED
      BY <1>1, <1>3, <2>0, <3>1, <3>2
  <2>. QED
    BY <2>1, <2>2
<1>5. Fresh(more, n + 1)
  <2>. SUFFICES ASSUME NEW e \in DagId
                PROVE  IF e <= n + 1 THEN more[e].dir <= n + 1
                       ELSE more[e].st = "absent" /\ more[e].done = {}
    BY DEF Fresh
  <2>. HIDE DEF S
  <2>0. e \in Nat /\ rows[d].dir \in Nat /\ rows[d].dir <= n
    BY <1>0, <1>2
  <2>1. CASE e = n + 1
    <3>1. more[e].dir = rows[d].dir /\ rows[d].dir <= n + 1 /\ e <= n + 1
      BY <1>1, <2>0, <2>1
    <3>. QED
      BY <3>1
  <2>2. CASE e # n + 1
    <3>1. more[e] = rows[e]
      BY <1>1, <2>2
    <3>2. e <= n => rows[e].dir \in Nat /\ rows[e].dir <= n
      BY <1>0, <1>2
    <3>3. ~(e <= n) => e > n /\ ~(e <= n + 1)
      BY <2>0, <2>2
    <3>4. ~(e <= n) => rows[e].st = "absent" /\ rows[e].done = {}
      BY <1>2, <3>3
    <3>5. rows[e].dir \in Nat /\ rows[e].dir <= n => rows[e].dir <= n + 1
      OBVIOUS
    <3>6. e <= n => e <= n + 1
      BY <2>0
    <3>. QED
      BY <3>1, <3>2, <3>3, <3>4, <3>5, <3>6
  <2>. QED
    BY <2>1, <2>2
<1>6. prod <= Cardinality(Recorded(more))
  <2>1. \A e \in DagId : rows[e].done # {} => e # n + 1
    BY <1>2
  <2>2. Cardinality(Recorded(rows)) <= Cardinality(Recorded(more))
    BY <1>1, <2>1, RecordedMore
  <2>. QED
    BY <2>2, RecordedFinite
<1>. QED
  BY <1>4, <1>5, <1>6 DEF Counted, more

\* A poll of a live row keeps it the latest of its directory, and credits no
\* more than what it records and nobody recorded before.
LEMMA PollCounts ==
    ASSUME TypeOK, Counted(dags, head, used, produced), NEW d \in DagId, dags[d].st = "active",
           NEW st \in DagStatus, NEW refusal \in BOOLEAN
    PROVE  /\ d <= used
           /\ Live(RecordPoll(d, st), head) \subseteq Live(dags, head)
           /\ d \in Live(dags, head)
           /\ Latest(RecordPoll(d, st), Live(dags, head))
           /\ Fresh(RecordPoll(d, st), used)
           /\ Credited(d, refusal) <= Cardinality(Recorded(RecordPoll(d, st)))
           /\ CountedAtCompletion(d, Credited(d, refusal)) <= Cardinality(Recorded(RecordPoll(d, st)))
<1>. DEFINE rows == RecordPoll(d, st)
            fresh == NewlyCompleted(d)
            all == dags[d].done \cup NewlyCompleted(d)
            S == Live(dags, head)
<1>0. /\ dags \in [DagId -> DagRow] /\ dags[d] \in DagRow /\ DagId \subseteq Nat
      /\ used \in Nat /\ produced \in Nat /\ fresh \in SUBSET Wu
  BY RecordPollType DEF TypeOK, DatabaseOK, DagId
<1>1. /\ rows[d].st = st /\ rows[d].dir = dags[d].dir /\ rows[d].done = all
      /\ \A e \in DagId : e # d => rows[e] = dags[e]
  BY <1>0 DEF RecordPoll, DagRow
<1>2. dags[d].dir \in DagId /\ all \in SUBSET Wu /\ fresh \cap dags[d].done = {}
  BY <1>0 DEF DagRow, NewlyCompleted
<1>3. d <= used
  BY <1>0 DEF Counted, Fresh
<1>. HIDE DEF rows, fresh, all
<1>4. d \in S /\ Live(rows, head) \subseteq S
  BY <1>1 DEF Live
<1>5. Latest(dags, S)
  BY DEF Counted
<1>6. Latest(rows, S)
  <2>. SUFFICES ASSUME NEW l \in S, NEW e \in DagId, rows[e].dir = rows[l].dir, e # l
                PROVE  rows[e].done \subseteq rows[l].done /\ e \notin S
    BY DEF Latest
  <2>1. l \in DagId /\ dags[e].dir = dags[l].dir
    BY <1>1 DEF Live
  <2>2. dags[e].done \subseteq dags[l].done /\ e \notin S
    BY <1>5, <2>1 DEF Latest
  <2>3. e # d
    BY <1>4, <2>2
  <2>. QED
    BY <1>1, <2>1, <2>2, <2>3 DEF all
<1>7. Fresh(rows, used)
  BY <1>0, <1>1, <1>3 DEF Counted, Fresh
<1>8. {dags[d].dir} \X all \subseteq Recorded(rows)
  BY <1>1, <1>2 DEF Recorded
<1>9. Cardinality(all) <= Cardinality(Recorded(rows))
  <2>1. Cardinality({dags[d].dir} \X all) = Cardinality(all)
    BY <1>2, PairsOfDirectory
  <2>2. Cardinality({dags[d].dir} \X all) <= Cardinality(Recorded(rows))
    BY <1>8, RecordedFinite, FS_Subset
  <2>. QED
    BY <2>1, <2>2
<1>10. produced + Cardinality(fresh) <= Cardinality(Recorded(rows))
  <2>. DEFINE P == {dags[d].dir} \X fresh
  <2>1. IsFiniteSet(P) /\ Cardinality(P) = Cardinality(fresh) /\ Cardinality(fresh) \in Nat
    BY <1>0, PairsOfDirectory
  <2>2. Recorded(dags) \cap P = {}
    <3>. SUFFICES ASSUME NEW x \in Recorded(dags), x \in P PROVE FALSE
      OBVIOUS
    <3>1. PICK e \in DagId : dags[e].dir = dags[d].dir /\ x[2] \in dags[e].done
      BY DEF Recorded
    <3>2. x[2] \in fresh
      OBVIOUS
    <3>3. dags[e].done \subseteq dags[d].done
      BY <1>4, <1>5, <3>1 DEF Latest
    <3>. QED
      BY <1>2, <3>1, <3>2, <3>3
  <2>3. Recorded(dags) \cup P \subseteq Recorded(rows)
    <3>1. P \subseteq Recorded(rows)
      BY <1>8 DEF all, fresh
    <3>2. Recorded(dags) \subseteq Recorded(rows)
      BY <1>1 DEF Recorded, all
    <3>. QED
      BY <3>1, <3>2
  <2>. HIDE DEF P
  <2>4. Cardinality(Recorded(dags) \cup P) = Cardinality(Recorded(dags)) + Cardinality(P)
    <3>1. /\ IsFiniteSet(Recorded(dags)) /\ Cardinality(Recorded(dags)) \in Nat
      BY RecordedFinite
    <3>2. Cardinality(Recorded(dags) \cup P)
            = Cardinality(Recorded(dags)) + Cardinality(P) - Cardinality(Recorded(dags) \cap P)
      BY <2>1, <3>1, FS_Union
    <3>3. Cardinality(Recorded(dags) \cap P) = 0
      BY <2>2, FS_EmptySet
    <3>. QED
      BY <2>1, <3>1, <3>2, <3>3
  <2>5. Cardinality(Recorded(dags) \cup P) <= Cardinality(Recorded(rows))
    BY <2>3, RecordedFinite, FS_Subset
  <2>6. produced <= Cardinality(Recorded(dags)) /\ Cardinality(Recorded(dags)) \in Nat
        /\ Cardinality(Recorded(rows)) \in Nat
    BY RecordedFinite DEF Counted
  <2>. QED
    BY <1>0, <2>1, <2>4, <2>5, <2>6
<1>11. Credited(d, refusal) <= Cardinality(Recorded(rows))
  <2>1. Credited(d, refusal) \in {produced, produced + Cardinality(fresh)}
    BY DEF Credited, fresh
  <2>2. Cardinality(fresh) \in Nat /\ Cardinality(Recorded(rows)) \in Nat
    BY <1>0, WuCardinality, RecordedFinite
  <2>. QED
    BY <1>0, <1>10, <2>1, <2>2
<1>12. CountedAtCompletion(d, Credited(d, refusal)) <= Cardinality(Recorded(rows))
  BY <1>9, <1>11 DEF CountedAtCompletion, all
<1>. QED
  BY <1>3, <1>4, <1>6, <1>7, <1>11, <1>12 DEF rows

\* A step that leaves directories and lists of completed work units alone and
\* makes no row live keeps the rows counted.
LEMMA KeptStep ==
    ASSUME TypeOK, CountInv, UNCHANGED <<head, used, produced>>,
           \A d \in DagId :
               /\ dags'[d].dir = dags[d].dir /\ dags'[d].done = dags[d].done
               /\ dags'[d].st = "active" => d \in Live(dags, head)
               /\ dags[d].st = "absent" => dags'[d].st = "absent"
    PROVE  Counted(dags, head, used, produced)'
<1>1. head \in Nat /\ used \in Nat
  BY DEF TypeOK, DatabaseOK, DagId
<1>2. Counted(dags', head, used, produced)
  BY <1>1, CountedKept DEF CountInv
<1>. QED
  BY <1>2 DEF Counted, Latest, Live, Fresh, Recorded

\* A round planned.
LEMMA PlanRoundCounted ==
    ASSUME TypeOK, CountInv, NEW rows \in [DagId -> DagRow], PlanRound(rows),
           \A d \in DagId :
               /\ rows[d].dir = dags[d].dir /\ rows[d].done = dags[d].done
               /\ rows[d].st = "active" => dags[d].st = "active"
               /\ dags[d].st = "absent" => rows[d].st = "absent"
    PROVE  Counted(dags, head, used, produced)'
<1>1. /\ used + 1 \in DagId /\ PlannedRow("active") \in DagRow
      /\ head \in Nat /\ used \in Nat /\ produced \in Nat
  BY PlannedRowType DEF TypeOK, DatabaseOK, PlanRound, DagStatus, DagId
<1>2. PlannedRow("active").dir = used + 1 /\ PlannedRow("active").done = {}
  BY DEF PlannedRow
<1>3. Counted(rows, head, used, produced)
  <2>1. Counted(dags, head, used, produced)
    BY DEF CountInv
  <2>2. \A d \in DagId : dags[d].st = "active" => d \in Live(dags, head)
    BY DEF Live
  <2>. QED
    BY <1>1, <2>1, <2>2, CountedKept
<1>4. Counted([rows EXCEPT ![used + 1] = PlannedRow("active")], used + 1, used + 1, produced)
  <2>. DEFINE new == PlannedRow("active")
              h == used + 1
  <2>1. h \in {head, used + 1} /\ (h = head => new.st # "active") /\ new \in DagRow
        /\ new.dir = used + 1 /\ new.done = {} /\ used + 1 \in DagId
    BY <1>1, <1>2, <1>3 DEF Counted
  <2>. HIDE DEF new, h
  <2>2. Counted([rows EXCEPT ![used + 1] = new], h, used + 1, produced)
    BY <1>1, <1>3, <2>1, CountedFreshRow
  <2>. QED
    BY <2>2 DEF new, h
<1>5. /\ dags' = [rows EXCEPT ![used + 1] = PlannedRow("active")]
      /\ head' = used + 1 /\ used' = used + 1 /\ produced' = produced
  BY DEF PlanRound
<1>6. Counted(dags', head', used', produced')
  BY <1>4, <1>5
<1>. QED
  BY <1>6 DEF Counted, Latest, Live, Fresh, Recorded

\* A rescue row made for the head, or for a row just polled.
LEMMA RescueCounted ==
    ASSUME TypeOK, used < MaxDags, NEW rows \in [DagId -> DagRow], NEW d \in DagId, d <= used,
           rows[d].st # "active", Latest(rows, Live(rows, head) \cup {d}), Fresh(rows, used),
           head <= used, produced' \in Nat, produced' <= Cardinality(Recorded(rows)),
           used' = used + 1, head' = used + 1,
           dags' = [rows EXCEPT ![used + 1] = RescueRow(rows[d])]
    PROVE  Counted(dags, head, used, produced)'
<1>1. used + 1 \in DagId /\ head \in Nat /\ used \in Nat
  BY ConstantTypes DEF TypeOK, DatabaseOK, DagId
<1>2. Counted([rows EXCEPT ![used + 1] = RescueRow(rows[d])], used + 1, used + 1, produced')
  BY <1>1, CountedRescue
<1>3. Counted(dags', head', used', produced')
  BY <1>2
<1>. QED
  BY <1>3 DEF Counted, Latest, Live, Fresh, Recorded

\* One poll of one row.
LEMMA PollCounted ==
    ASSUME TypeOK, CountInv, NEW d \in DagId, Poll(d)
    PROVE  CountInv'
<1>. USE DEF db, condor, evaluation
<1>0. /\ pc = "poll" /\ d \in todo /\ dags[d].st = "active" /\ Evaluating
      /\ Counted(dags, head, used, produced) /\ \A e \in todo : dags[e].st = "active"
      /\ Counted(snap.dags, snap.head, snap.used, snap.produced)
  BY DEF Poll, PollNothing, PollRunning, PollCompleted, PollFailed, Polling, CountInv, Evaluating
<1>1. /\ dags \in [DagId -> DagRow] /\ todo \subseteq DagId /\ used \in Nat /\ head <= used /\ head \in Nat
  BY <1>0 DEF TypeOK, DatabaseOK, EvaluationOK, Counted, DagId
<1>2. ASSUME NEW st \in DagStatus, dags' = RecordPoll(d, st)
      PROVE  \A e \in DagId : e # d => dags'[e] = dags[e]
  BY <1>1, <1>2 DEF RecordPoll
<1>3. CASE PollNothing(d)
  <2>1. Counted(dags, head, used, produced)'
    BY <1>0, <1>3 DEF PollNothing, Counted, Latest, Live, Fresh, Recorded
  <2>. QED
    BY <1>0, <1>3, <2>1 DEF PollNothing, NextPoll, CountInv
<1>4. ASSUME NEW st \in DagStatus, dags' = RecordPoll(d, st), UNCHANGED <<head, used>>,
             NEW refusal \in BOOLEAN,
             produced' \in {Credited(d, refusal), CountedAtCompletion(d, Credited(d, refusal))}
      PROVE  Counted(dags, head, used, produced)'
  <2>1. /\ Live(dags', head) \subseteq Live(dags, head) /\ Latest(dags', Live(dags, head))
        /\ Fresh(dags', used) /\ produced' <= Cardinality(Recorded(dags'))
    BY <1>0, <1>4, PollCounts
  <2>2. Latest(dags', Live(dags', head))
    BY <2>1 DEF Latest, Live
  <2>3. Counted(dags', head', used', produced')
    BY <1>1, <1>4, <2>1, <2>2 DEF Counted
  <2>. QED
    BY <2>3 DEF Counted, Latest, Live, Fresh, Recorded
<1>5. CASE PollRunning(d)
  <2>1. PICK refusal \in Refusals(d) : produced' = Credited(d, refusal) /\ NextPoll(d, refused \/ refusal)
    BY <1>5 DEF PollRunning
  <2>2. Counted(dags, head, used, produced)'
    BY <1>4, <1>5, <2>1, RefusalsType DEF PollRunning, DagStatus
  <2>3. \A e \in DagId : e # d => dags'[e] = dags[e]
    BY <1>2, <1>5 DEF PollRunning, DagStatus
  <2>. QED
    BY <1>0, <1>1, <2>1, <2>2, <2>3 DEF NextPoll, CountInv
<1>6. CASE PollCompleted(d)
  <2>1. PICK refusal \in Refusals(d) :
          /\ produced' = CountedAtCompletion(d, Credited(d, refusal))
          /\ IF status' = "active" THEN NextPoll(d, refused \/ refusal) ELSE Commit(refused \/ refusal)
    BY <1>6 DEF PollCompleted
  <2>2. Counted(dags, head, used, produced)'
    BY <1>4, <1>6, <2>1, RefusalsType DEF PollCompleted, DagStatus
  <2>3. \A e \in DagId : e # d => dags'[e] = dags[e]
    BY <1>2, <1>6 DEF PollCompleted, DagStatus
  <2>4. CASE NextPoll(d, refused \/ refusal)
    BY <1>0, <1>1, <2>2, <2>3, <2>4 DEF NextPoll, CountInv
  <2>5. CASE Commit(refused \/ refusal)
    BY <2>2, <2>5 DEF Commit, CountInv, Evaluating
  <2>. QED
    BY <2>1, <2>4, <2>5
<1>7. CASE PollFailed(d)
  <2>. DEFINE st == FinalStatus(dags[d].dir)
              rows == RecordPoll(d, st)
  <2>1. PICK refusal \in Refusals(d) : produced' = Credited(d, refusal) /\ Commit(refused \/ refusal)
    BY <1>7 DEF PollFailed
  <2>2. st \in {"partial", "failed"} /\ st \in DagStatus /\ FailureHandling(rows, d)
    BY <1>7 DEF PollFailed, DagStatus
  <2>3. refusal \in BOOLEAN /\ produced' \in Nat /\ rows \in [DagId -> DagRow]
    BY <2>1, <2>2, RefusalsType, CreditType, RecordPollType
  <2>4. rows[d].st # "active"
    BY <1>1, <2>2 DEF RecordPoll, DagRow
  <2>. HIDE DEF st
  <2>5. /\ d <= used /\ Live(rows, head) \cup {d} \subseteq Live(dags, head)
        /\ Latest(rows, Live(dags, head)) /\ Fresh(rows, used)
        /\ produced' <= Cardinality(Recorded(rows))
    BY <1>0, <2>1, <2>2, <2>3, PollCounts
  <2>6. Counted(dags, head, used, produced)'
    <3>. HIDE DEF rows
    <3>1. CASE RescueAllowed(rows[d])
      <4>1. used < MaxDags /\ used' = used + 1 /\ head' = used + 1
            /\ dags' = [rows EXCEPT ![used + 1] = RescueRow(rows[d])]
        BY <2>2, <3>1 DEF FailureHandling
      <4>2. Latest(rows, Live(rows, head) \cup {d})
        BY <2>5 DEF Latest
      <4>. QED
        BY <1>1, <2>3, <2>4, <2>5, <4>1, <4>2, RescueCounted
    <3>2. CASE ~RescueAllowed(rows[d])
      BY <1>4, <2>1, <2>2, <2>3, <3>2 DEF FailureHandling, rows
    <3>. QED
      BY <3>1, <3>2
  <2>. QED
    BY <2>1, <2>6 DEF Commit, CountInv, Evaluating
<1>. QED
  BY <1>3, <1>5, <1>6, <1>7 DEF Poll

\* Every step keeps the count right.
LEMMA CountStep == TypeOK /\ CountInv /\ [Next]_vars => CountInv'
<1>. SUFFICES ASSUME TypeOK, CountInv, [Next]_vars PROVE CountInv'
  OBVIOUS
<1>. USE DEF db, condor, evaluation
<1>0. /\ dags \in [DagId -> DagRow] /\ \A d \in DagId : dags[d] \in DagRow
      /\ used \in Nat /\ head \in Nat /\ head <= used /\ produced \in Nat
      /\ Counted(dags, head, used, produced) /\ (head # 0 => head \in DagId)
  BY DEF TypeOK, DatabaseOK, CountInv, Counted, DagId
<1>1. ASSUME Idle \/ Finishing, UNCHANGED evaluation \/ (\E b \in BOOLEAN : Commit(b)),
             Counted(dags, head, used, produced)'
      PROVE  CountInv'
  <2>1. CASE \E b \in BOOLEAN : Commit(b)
    BY <1>1, <2>1 DEF Commit, CountInv, Evaluating
  <2>2. CASE Idle /\ UNCHANGED evaluation
    BY <1>1, <2>2 DEF CountInv, Evaluating, Idle
  <2>3. CASE Finishing /\ UNCHANGED evaluation
    BY <1>1, <2>3 DEF CountInv, Evaluating, Finishing
  <2>. QED
    BY <1>1, <2>1, <2>2, <2>3
<1>2. CASE HandleSubmitted \/ QueuedToActive \/ StoppingRetriesRemove \/ StuckFails \/ ReleaseRequest \/ AbortRequest
  <2>1. Idle /\ UNCHANGED evaluation /\ UNCHANGED <<dags, head, used, produced>>
    BY <1>2 DEF HandleSubmitted, QueuedToActive, Queued, StoppingRetriesRemove, Stopping, StuckFails,
       ReleaseRequest, AbortRequest
  <2>2. Counted(dags, head, used, produced)'
    BY <1>0, <2>1 DEF Counted, Latest, Live, Fresh, Recorded
  <2>. QED
    BY <1>1, <2>1, <2>2
<1>3. CASE QueuedSubmitRescue
  <2>1. Idle /\ UNCHANGED evaluation /\ UNCHANGED <<head, used, produced>>
        /\ dags' = [dags EXCEPT ![head].st = "active"] /\ dags[head].st = "ready"
    BY <1>3 DEF QueuedSubmitRescue, Queued, RescuePending
  <2>2. \A d \in DagId : /\ dags'[d].dir = dags[d].dir /\ dags'[d].done = dags[d].done
                         /\ dags'[d].st = "active" => d \in Live(dags, head)
                         /\ dags[d].st = "absent" => dags'[d].st = "absent"
    BY <1>0, <2>1 DEF DagRow, Live
  <2>. QED
    BY <1>1, <2>1, <2>2, KeptStep
<1>4. CASE QueuedNothingLeft
  <2>0. Idle /\ UNCHANGED evaluation /\ UNCHANGED <<head, used, produced>>
    BY <1>4 DEF QueuedNothingLeft, Queued
  <2>1. UNCHANGED dags \/ (dags' = [dags EXCEPT ![head].st = "failed"] /\ RescuePending)
    BY <1>4 DEF QueuedNothingLeft
  <2>2. \A d \in DagId : /\ dags'[d].dir = dags[d].dir /\ dags'[d].done = dags[d].done
                         /\ dags'[d].st = "active" => d \in Live(dags, head)
                         /\ dags[d].st = "absent" => dags'[d].st = "absent"
    <3>1. CASE UNCHANGED dags
      BY <3>1 DEF Live
    <3>2. CASE dags' = [dags EXCEPT ![head].st = "failed"] /\ RescuePending
      BY <1>0, <3>2 DEF RescuePending, DagRow, Live
    <3>. QED
      BY <2>1, <3>1, <3>2
  <2>. QED
    BY <1>1, <2>0, <2>2, KeptStep
<1>5. CASE StoppingDone \/ StuckStopping \/ StopRequest \/ FailRunning \/ FailStopped
  <2>1. Idle /\ UNCHANGED evaluation /\ UNCHANGED <<head, used, produced>>
    BY <1>5 DEF StoppingDone, StuckStopping, Stopping, StopRequest, FailRunning, FailStopped
  <2>2. \A d \in DagId : /\ dags'[d].dir = dags[d].dir /\ dags'[d].done = dags[d].done
                         /\ dags'[d].st = "active" => dags[d].st = "active"
                         /\ dags[d].st = "absent" => dags'[d].st = "absent"
    <3>1. CASE StoppingDone
      BY <1>0, <3>1 DEF StoppingDone, FailedRows, DagRow
    <3>2. CASE StuckStopping
      BY <1>0, <3>2 DEF StuckStopping, DagRow
    <3>3. CASE StopRequest \/ FailRunning
      BY <1>0, <3>3 DEF StopRequest, FailRunning, MarkHead, DagRow
    <3>4. CASE FailStopped
      BY <1>0, <3>4 DEF FailStopped, FailedRows, DagRow
    <3>. QED
      BY <1>5, <3>1, <3>2, <3>3, <3>4
  <2>3. \A d \in DagId : dags[d].st = "active" => d \in Live(dags, head)
    BY DEF Live
  <2>. QED
    BY <1>1, <2>1, <2>2, <2>3, KeptStep
<1>6. CASE QueuedPlan
  <2>1. Idle /\ UNCHANGED evaluation
    BY <1>6 DEF QueuedPlan, Queued
  <2>2. CASE PlanRound(dags)
    BY <1>0, <1>1, <2>1, <2>2, PlanRoundCounted
  <2>3. CASE RescuePending /\ PlanRound([dags EXCEPT ![head].st = "failed"])
    <3>. DEFINE rows == [dags EXCEPT ![head].st = "failed"]
    <3>1. head \in DagId /\ dags[head].st = "ready"
      BY <1>0, <2>3 DEF RescuePending
    <3>2. rows \in [DagId -> DagRow]
      BY <1>0, <3>1 DEF DagRow, DagStatus
    <3>3. \A d \in DagId : /\ rows[d].dir = dags[d].dir /\ rows[d].done = dags[d].done
                           /\ rows[d].st = "active" => dags[d].st = "active"
                           /\ dags[d].st = "absent" => rows[d].st = "absent"
      BY <1>0, <3>1 DEF DagRow
    <3>4. PlanRound(rows)
      BY <2>3
    <3>. HIDE DEF rows
    <3>. QED
      BY <1>1, <2>1, <3>2, <3>3, <3>4, PlanRoundCounted
  <2>. QED
    BY <1>6, <2>2, <2>3 DEF QueuedPlan
<1>7. ASSUME head \in DagId, dags[head].st # "active", used < MaxDags, used' = used + 1, head' = used + 1,
             UNCHANGED produced, dags' = [dags EXCEPT ![used + 1] = RescueRow(dags[head])]
      PROVE  Counted(dags, head, used, produced)'
  <2>1. Live(dags, head) \cup {head} = Live(dags, head)
    BY <1>7 DEF Live
  <2>. QED
    BY <1>0, <1>7, <2>1, RescueCounted DEF Counted
<1>8. CASE HandleResubmitting
  <2>1. Idle /\ UNCHANGED evaluation /\ UNCHANGED produced
    BY <1>8 DEF HandleResubmitting
  <2>2. CASE head # 0 /\ dags[head].st = "stopped"
    BY <1>0, <1>1, <1>7, <1>8, <2>1, <2>2 DEF HandleResubmitting
  <2>3. CASE ~(head # 0 /\ dags[head].st = "stopped")
    <3>1. UNCHANGED <<used, head, dags>>
      BY <1>8, <2>3 DEF HandleResubmitting
    <3>2. Counted(dags, head, used, produced)'
      BY <1>0, <2>1, <3>1 DEF Counted, Latest, Live, Fresh, Recorded
    <3>. QED
      BY <1>1, <2>1, <3>2
  <2>. QED
    BY <2>2, <2>3
<1>9. CASE ActiveHeadFailed
  <2>1. /\ Idle /\ UNCHANGED evaluation /\ UNCHANGED produced /\ FailureHandling(dags, head)
        /\ head \in DagId /\ dags[head].st # "active"
    BY <1>0, <1>9 DEF ActiveHeadFailed, HeadFailed
  <2>2. CASE RescueAllowed(dags[head])
    BY <1>0, <1>1, <1>7, <2>1, <2>2 DEF FailureHandling
  <2>3. CASE ~RescueAllowed(dags[head])
    <3>1. UNCHANGED <<used, head, dags>>
      BY <2>1, <2>3 DEF FailureHandling
    <3>2. Counted(dags, head, used, produced)'
      BY <1>0, <2>1, <3>1 DEF Counted, Latest, Live, Fresh, Recorded
    <3>. QED
      BY <1>1, <2>1, <3>2
  <2>. QED
    BY <2>2, <2>3
<1>10. CASE ActiveBegin
  <2>1. /\ pc' = (IF todo' = {} THEN "finish" ELSE "poll") /\ todo' = ActiveDags(dags)
        /\ snap' = [status |-> status, head |-> head, round |-> round,
                    produced |-> produced, dags |-> dags, used |-> used]
        /\ UNCHANGED <<dags, head, used, produced>>
    BY <1>10 DEF ActiveBegin, Begin
  <2>2. Counted(dags, head, used, produced)' /\ Counted(snap.dags, snap.head, snap.used, snap.produced)'
    BY <1>0, <2>1 DEF Counted, Latest, Live, Fresh, Recorded
  <2>. QED
    BY <2>1, <2>2 DEF CountInv, ActiveDags
<1>11. CASE \E d \in DagId : Poll(d)
  BY <1>11, PollCounted
<1>12. refused \in BOOLEAN
  BY DEF TypeOK, EvaluationOK
<1>13. CASE FinishHeld \/ FinishWait
  <2>1. Finishing /\ (\E b \in BOOLEAN : Commit(b)) /\ UNCHANGED <<dags, head, used, produced>>
    BY <1>12, <1>13 DEF FinishHeld, FinishWait
  <2>2. Counted(dags, head, used, produced)'
    BY <1>0, <2>1 DEF Counted, Latest, Live, Fresh, Recorded
  <2>. QED
    BY <1>1, <2>1, <2>2
<1>14. CASE FinishTarget
  <2>1. Finishing /\ (\E b \in BOOLEAN : Commit(b)) /\ UNCHANGED <<head, used, produced>>
    BY <1>12, <1>14 DEF FinishTarget
  <2>2. \A d \in DagId : /\ dags'[d].dir = dags[d].dir /\ dags'[d].done = dags[d].done
                         /\ dags'[d].st = "active" => d \in Live(dags, head)
                         /\ dags[d].st = "absent" => dags'[d].st = "absent"
    BY <1>0, <1>14 DEF FinishTarget, DagRow
  <2>. QED
    BY <1>1, <2>1, <2>2, KeptStep
<1>15. CASE FinishPlan
  <2>1. Finishing /\ (\E b \in BOOLEAN : Commit(b)) /\ PlanRound(dags)
    BY <1>12, <1>15 DEF FinishPlan
  <2>. QED
    BY <1>0, <1>1, <2>1, PlanRoundCounted
<1>16. CASE FinishPlanFails
  <2>1. Finishing /\ (\E b \in BOOLEAN : Commit(b)) /\ UNCHANGED <<head, produced>> /\ ~TargetReached
    BY <1>12, <1>16 DEF FinishPlanFails
  <2>2. CASE UNCHANGED <<dags, used>>
    <3>1. Counted(dags, head, used, produced)'
      BY <1>0, <2>1, <2>2 DEF Counted, Latest, Live, Fresh, Recorded
    <3>. QED
      BY <1>1, <2>1, <3>1
  <2>3. CASE used < MaxDags /\ used' = used + 1 /\ dags' = [dags EXCEPT ![used + 1] = PlannedRow("ready")]
    <3>1. used + 1 \in DagId /\ PlannedRow("ready") \in DagRow
      BY <2>1, <2>3, PlannedRowType DEF TypeOK, DagStatus
    <3>2. PlannedRow("ready").st = "ready" /\ PlannedRow("ready").dir = used + 1 /\ PlannedRow("ready").done = {}
      BY DEF PlannedRow
    <3>3. Counted([dags EXCEPT ![used + 1] = PlannedRow("ready")], head, used + 1, produced)
      BY <1>0, <3>1, <3>2, CountedFreshRow
    <3>4. Counted(dags', head', used', produced')
      BY <2>1, <2>3, <3>3
    <3>5. Counted(dags, head, used, produced)'
      BY <3>4 DEF Counted, Latest, Live, Fresh, Recorded
    <3>. QED
      BY <1>1, <2>1, <3>5
  <2>. QED
    BY <1>16, <2>2, <2>3 DEF FinishPlanFails
<1>17. CASE Crash
  <2>1. Counted(snap.dags, snap.head, snap.used, snap.produced)
    BY <1>17 DEF Crash, CountInv
  <2>2. Counted(dags, head, used, produced)'
    BY <1>17, <2>1 DEF Crash, Counted, Latest, Live, Fresh, Recorded
  <2>. QED
    BY <1>17, <2>2 DEF Crash, CountInv, Evaluating
<1>18. CASE Restart
  <2>1. Counted(dags, head, used, produced)'
    BY <1>0, <1>18 DEF Restart, Counted, Latest, Live, Fresh, Recorded
  <2>. QED
    BY <1>18, <2>1 DEF Restart, CountInv, Evaluating
<1>19. CASE Condor \/ UNCHANGED vars
  <2>1. UNCHANGED <<db, evaluation>>
    BY <1>19 DEF Condor, WuSucceeds, WuFails, DagmanExits, DagmanRemoved, LeavesQueue, DagmanLost, DagmanStep, vars
  <2>. QED
    BY <2>1 DEF CountInv, Evaluating, Counted, Latest, Live, Fresh, Recorded
<1>. QED
  BY <1>2, <1>3, <1>4, <1>5, <1>6, <1>8, <1>9, <1>10, <1>11, <1>13, <1>14, <1>15, <1>16, <1>17, <1>18, <1>19
     DEF Next, Lifecycle, Operator, Finish

\* Nothing is counted at first.
LEMMA CountInit == Init => CountInv
<1>. SUFFICES ASSUME Init PROVE CountInv
  OBVIOUS
<1>1. \A d \in DagId : dags[d] = NoDag /\ d \in Nat /\ d > 0
  BY DEF Init, DagId
<1>2. Live(dags, head) = {} /\ Fresh(dags, used)
  BY <1>1 DEF Init, Live, Fresh, NoDag
<1>3. Counted(dags, head, used, produced)
  BY <1>2, RecordedFinite DEF Init, Counted, Latest
<1>. QED
  BY <1>3 DEF Init, CountInv, Evaluating

\* A work unit enters events_produced at most once, whatever rescues,
\* recoveries, crashes and repairs of the counter happen.
THEOREM NotCountedTwice == Spec => []NoDoubleCounting
<1>1. Init => TypeOK /\ CountInv
  BY TypeInit, CountInit
<1>2. TypeOK /\ CountInv /\ [Next]_vars => (TypeOK /\ CountInv)'
  BY TypeStep, CountStep
<1>3. CountInv => NoDoubleCounting
  BY DEF CountInv, Counted, NoDoubleCounting, Recorded
<1>. QED
  BY <1>1, <1>2, <1>3, PTL DEF Spec

-------------------------------------------------------------------------------
(* Rescue first, when one round runs at a time: the rescue of a round stands   *)
(* alone, so no round can be running beside it and bring the request back to   *)
(* ACTIVE before the rescue is submitted.                                      *)

RescueInv ==
    /\ status = "resubmitting" => ActiveDags(dags) = {}
    /\ RescuePending => ActiveDags(dags) = {} /\ status \in {"resubmitting", "queued"} \cup Terminal
    /\ Evaluating => ~(snap.head # 0 /\ snap.dags[snap.head].st = "ready" /\ snap.dags[snap.head].tries > 0)

RescueIInv == RoundsIInv /\ CountInv /\ PausedIsQuiet /\ RescueInv

\* With one round at a time, the round a poll finds failed was the only one.
LEMMA OnlyRound ==
    ASSUME MaxConcurrentRounds = 1, ConcurrentRoundsBounded, NEW d \in ActiveDags(dags)
    PROVE  ActiveDags(dags) = {d}
<1>1. IsFiniteSet(ActiveDags(dags)) /\ Cardinality(ActiveDags(dags)) \in Nat
  BY ActiveFinite
<1>2. Cardinality(ActiveDags(dags)) # 0
  BY <1>1, FS_EmptySet
<1>3. Cardinality(ActiveDags(dags)) = 1
  BY <1>1, <1>2 DEF ConcurrentRoundsBounded
<1>4. PICK x : ActiveDags(dags) = {x}
  BY <1>1, <1>3, FS_Singleton
<1>. QED
  BY <1>4

\* Rows that become neither active nor ready leave a pending rescue alone, if
\* there is one.
LEMMA PendingKept ==
    ASSUME head' = head, head # 0 => head \in DagId,
           \A d \in DagId : /\ dags'[d].st = "active" => dags[d].st = "active"
                            /\ dags'[d].st = "ready" => dags[d].st = "ready" /\ dags'[d].tries = dags[d].tries
    PROVE  ActiveDags(dags)' \subseteq ActiveDags(dags) /\ (RescuePending' => RescuePending)
BY DEF ActiveDags, RescuePending

\* A failure handled leaves the rescue alone in the workflow.
LEMMA FailureAlone ==
    ASSUME TypeOK, NEW d \in DagId, NEW rows \in [DagId -> DagRow], ActiveDags(rows) = {},
           FailureHandling(rows, d), ~(head # 0 /\ rows[head].st = "ready" /\ rows[head].tries > 0)
    PROVE  /\ ActiveDags(dags)' = {}
           /\ status' \in {"resubmitting", "held"}
           /\ RescuePending' => status' = "resubmitting"
<1>1. CASE RescueAllowed(rows[d])
  <2>1. status' = "resubmitting" /\ dags' = [rows EXCEPT ![used + 1] = RescueRow(rows[d])]
    BY <1>1 DEF FailureHandling
  <2>2. \A e \in DagId : dags'[e].st # "active"
    BY <2>1 DEF ActiveDags, RescueRow
  <2>. QED
    BY <2>1, <2>2 DEF ActiveDags
<1>2. CASE ~RescueAllowed(rows[d])
  <2>1. status' = "held" /\ dags' = rows /\ head' = head
    BY <1>2 DEF FailureHandling
  <2>. QED
    BY <2>1 DEF ActiveDags, RescuePending
<1>. QED
  BY <1>1, <1>2

\* A round planned becomes the head: no rescue is pending.
LEMMA PlanRoundNotPending ==
    ASSUME TypeOK, NEW rows \in [DagId -> DagRow], PlanRound(rows) PROVE ~RescuePending'
<1>1. used + 1 \in DagId
  BY PlannedRowType DEF TypeOK, PlanRound, DagStatus
<1>2. dags'[head'].st = "active"
  BY <1>1 DEF PlanRound, PlannedRow
<1>. QED
  BY <1>2 DEF RescuePending

\* Every step keeps a pending rescue alone and starts no round beside it.
LEMMA RescueStep ==
    ASSUME MaxConcurrentRounds = 1, RescueIInv, [Next]_vars PROVE RescueInv'
<1>. USE DEF db, condor, evaluation
<1>. DEFINE Waits == {"resubmitting", "queued"} \cup Terminal
<1>0. /\ TypeOK /\ dags \in [DagId -> DagRow] /\ \A d \in DagId : dags[d] \in DagRow
      /\ (head # 0 => head \in DagId) /\ head \in Nat /\ used \in Nat /\ head <= used
      /\ ConcurrentRoundsBounded /\ RescueInv /\ EvaluationInv /\ PausedIsQuiet
      /\ \A d \in todo : dags[d].st = "active"
  BY DEF RescueIInv, RoundsIInv, RoundsInv, ManagedIInv, CountInv, Counted, TypeOK, DatabaseOK, DagId
<1>1. /\ status \notin Waits => ~RescuePending
      /\ RescuePending => ActiveDags(dags) = {}
      /\ status = "resubmitting" => ActiveDags(dags) = {}
      /\ Evaluating => status \in {"active", "held"} /\ ~RescuePending
  BY <1>0 DEF RescueInv, EvaluationInv, Terminal
<1>2. ASSUME pc' \notin {"poll", "finish"}, ActiveDags(dags)' \subseteq ActiveDags(dags), RescuePending' => RescuePending,
             \/ status' = status
             \/ status' \in Terminal
             \/ ~RescuePending /\ status' # "resubmitting"
             \/ ActiveDags(dags) = {} /\ status' \in Waits
      PROVE  RescueInv'
  <2>1. /\ status' = "resubmitting" => ActiveDags(dags)' = {}
        /\ RescuePending' => ActiveDags(dags)' = {} /\ status' \in Waits
    BY <1>1, <1>2 DEF Terminal
  <2>. QED
    BY <1>2, <2>1 DEF RescueInv, Evaluating, Terminal
<1>3. ASSUME pc' \notin {"poll", "finish"}, ~RescuePending', status' # "resubmitting" PROVE RescueInv'
  BY <1>3 DEF RescueInv, Evaluating
<1>4. ASSUME UNCHANGED <<dags, head>> PROVE ActiveDags(dags)' \subseteq ActiveDags(dags) /\ (RescuePending' => RescuePending)
  BY <1>0, <1>4, PendingKept
<1>5. CASE HandleSubmitted \/ StoppingRetriesRemove \/ StuckFails \/ AbortRequest \/ ReleaseRequest
  <2>1. UNCHANGED <<dags, head>> /\ pc' = "idle"
    BY <1>5 DEF HandleSubmitted, StoppingRetriesRemove, Stopping, StuckFails, AbortRequest, ReleaseRequest, Idle
  <2>2. \/ status' = status \/ status' \in Terminal
        \/ status = "submitted" /\ status' = "queued"
        \/ status = "held" /\ status' = "queued"
        \/ status = "paused" /\ status' = "resubmitting"
    BY <1>5 DEF HandleSubmitted, StoppingRetriesRemove, StuckFails, AbortRequest, ReleaseRequest, Terminal
  <2>3. status = "paused" => ActiveDags(dags) = {}
    BY <1>0 DEF PausedIsQuiet
  <2>4. status \in {"submitted", "held"} => ~RescuePending
    BY <1>1 DEF Terminal
  <2>. QED
    BY <1>2, <1>4, <2>1, <2>2, <2>3, <2>4
<1>6. CASE QueuedToActive
  <2>1. UNCHANGED <<dags, head>> /\ pc' = "idle" /\ ActiveDags(dags) # {} /\ status' = "active"
    BY <1>6 DEF QueuedToActive, Queued, Idle
  <2>. QED
    BY <1>1, <1>2, <1>4, <2>1
<1>7. CASE QueuedSubmitRescue
  <2>1. pc' = "idle" /\ head \in DagId /\ dags' = [dags EXCEPT ![head].st = "active"] /\ head' = head
        /\ status' = "active"
    BY <1>0, <1>7 DEF QueuedSubmitRescue, Queued, Idle, RescuePending
  <2>2. dags'[head].st = "active"
    BY <1>0, <2>1 DEF DagRow
  <2>. QED
    BY <1>3, <2>1, <2>2 DEF RescuePending
<1>8. CASE QueuedPlan
  <2>1. pc' = "idle" /\ status' = "active"
    BY <1>8 DEF QueuedPlan, Queued, Idle
  <2>2. CASE PlanRound(dags)
    BY <1>0, <1>3, <2>1, <2>2, PlanRoundNotPending
  <2>3. CASE RescuePending /\ PlanRound([dags EXCEPT ![head].st = "failed"])
    <3>1. [dags EXCEPT ![head].st = "failed"] \in [DagId -> DagRow]
      BY <1>0, <2>3 DEF RescuePending, DagRow, DagStatus
    <3>. QED
      BY <1>0, <1>3, <2>1, <2>3, <3>1, PlanRoundNotPending
  <2>. QED
    BY <1>8, <2>2, <2>3 DEF QueuedPlan
<1>9. CASE QueuedNothingLeft
  <2>1. pc' = "idle" /\ status' = "completed" /\ head' = head
    BY <1>9 DEF QueuedNothingLeft, Queued, Idle
  <2>2. UNCHANGED dags \/ (dags' = [dags EXCEPT ![head].st = "failed"] /\ RescuePending)
    BY <1>9 DEF QueuedNothingLeft
  <2>3. \A d \in DagId : /\ dags'[d].st = "active" => dags[d].st = "active"
                         /\ dags'[d].st = "ready" => dags[d].st = "ready" /\ dags'[d].tries = dags[d].tries
    BY <1>0, <2>2 DEF RescuePending, DagRow
  <2>. QED
    BY <1>0, <1>2, <2>1, <2>3, PendingKept DEF Terminal
<1>10. CASE HandleResubmitting
  <2>1. pc' = "idle" /\ status' = "queued" /\ ActiveDags(dags) = {}
    BY <1>1, <1>10 DEF HandleResubmitting, Idle
  <2>2. CASE head # 0 /\ dags[head].st = "stopped"
    <3>1. dags' = [dags EXCEPT ![used + 1] = RescueRow(dags[head])]
      BY <1>10, <2>2 DEF HandleResubmitting
    <3>2. ActiveDags(dags)' = {}
      BY <1>0, <2>1, <3>1 DEF ActiveDags, RescueRow
    <3>. QED
      BY <2>1, <3>2 DEF RescueInv, Evaluating
  <2>3. CASE ~(head # 0 /\ dags[head].st = "stopped")
    <3>1. UNCHANGED <<dags, head>>
      BY <1>10, <2>3 DEF HandleResubmitting
    <3>. QED
      BY <1>2, <1>4, <2>1, <3>1
  <2>. QED
    BY <2>2, <2>3
<1>11. CASE StoppingDone \/ StuckStopping \/ StopRequest \/ FailRunning \/ FailStopped
  <2>1. pc' = "idle" /\ head' = head /\ status' # "resubmitting" /\ status \in {"stopping", "active", "held", "paused"}
    BY <1>11 DEF StoppingDone, StuckStopping, Stopping, StopRequest, FailRunning, FailStopped, Idle
  <2>2. \A d \in DagId : /\ dags'[d].st = "active" => dags[d].st = "active"
                         /\ dags'[d].st = "ready" => dags[d].st = "ready" /\ dags'[d].tries = dags[d].tries
    <3>1. CASE StoppingDone
      BY <1>0, <3>1 DEF StoppingDone, FailedRows, DagRow
    <3>2. CASE StuckStopping
      BY <1>0, <3>2 DEF StuckStopping, DagRow
    <3>3. CASE StopRequest \/ FailRunning
      BY <1>0, <3>3 DEF StopRequest, FailRunning, MarkHead, DagRow
    <3>4. CASE FailStopped
      BY <1>0, <3>4 DEF FailStopped, FailedRows, DagRow
    <3>. QED
      BY <1>11, <3>1, <3>2, <3>3, <3>4
  <2>3. ~RescuePending
    BY <1>1, <2>1 DEF Terminal
  <2>. QED
    BY <1>0, <1>2, <2>1, <2>2, <2>3, PendingKept
<1>12. CASE ActiveBegin
  <2>1. /\ UNCHANGED <<dags, head, status>> /\ status = "active"
        /\ snap'.head = head /\ snap'.dags = dags
    BY <1>12 DEF ActiveBegin, Begin
  <2>2. ~RescuePending
    BY <1>1, <2>1 DEF Terminal
  <2>. QED
    BY <2>1, <2>2 DEF RescueInv, RescuePending
<1>13. CASE ActiveHeadFailed
  <2>1. pc' = "idle" /\ head \in DagId /\ ActiveDags(dags) = {} /\ FailureHandling(dags, head)
        /\ dags[head].st # "ready"
    BY <1>0, <1>13 DEF ActiveHeadFailed, HeadFailed, Idle
  <2>2. ActiveDags(dags)' = {} /\ status' \in {"resubmitting", "held"}
        /\ (RescuePending' => status' = "resubmitting")
    BY <1>0, <2>1, FailureAlone
  <2>. QED
    BY <2>1, <2>2 DEF RescueInv, Evaluating
<1>14. ASSUME NEW d \in DagId, Poll(d) PROVE RescueInv'
  <2>1. Evaluating /\ d \in todo /\ dags[d].st = "active" /\ status \in {"active", "held"} /\ ~RescuePending
    BY <1>0, <1>1, <1>14 DEF Poll, PollNothing, PollRunning, PollCompleted, PollFailed, Polling, Evaluating
  <2>2. ASSUME NEW st \in DagStatus \ {"ready"}
        PROVE  \A e \in DagId : /\ RecordPoll(d, st)[e].st = "active" => dags[e].st = "active"
                                /\ RecordPoll(d, st)[e].st = "ready" =>
                                     dags[e].st = "ready" /\ RecordPoll(d, st)[e].tries = dags[e].tries
    BY <1>0, <2>1 DEF RecordPoll, DagRow
  <2>3. CASE PollNothing(d)
    BY <1>0, <2>1, <2>3 DEF PollNothing, NextPoll, RescueInv, RescuePending, ActiveDags, Evaluating
  <2>4. CASE PollRunning(d) \/ PollCompleted(d)
    <3>1. head' = head /\ (snap' = snap \/ pc' = "idle")
          /\ (dags' = RecordPoll(d, "active") \/ dags' = RecordPoll(d, "completed"))
      BY <2>4 DEF PollRunning, PollCompleted, NextPoll, Commit
    <3>2. status' # "resubmitting"
      BY <2>1, <2>4 DEF PollRunning, PollCompleted, AfterRound
    <3>3. ~RescuePending'
      BY <1>0, <2>1, <2>2, <3>1, PendingKept DEF DagStatus
    <3>. QED
      BY <1>0, <2>1, <3>1, <3>2, <3>3 DEF RescueInv, Evaluating
  <2>5. CASE PollFailed(d)
    <3>. DEFINE st == FinalStatus(dags[d].dir)
                rows == RecordPoll(d, st)
    <3>1. st \in {"partial", "failed"} /\ FailureHandling(rows, d) /\ pc' = "idle"
      BY <2>5 DEF PollFailed, Commit
    <3>2. rows \in [DagId -> DagRow] /\ rows[d].st = st /\ \A e \in DagId : e # d => rows[e] = dags[e]
      <4>1. st \in DagStatus
        BY <3>1 DEF DagStatus
      <4>. HIDE DEF st
      <4>2. rows \in [DagId -> DagRow]
        BY <1>0, <4>1, RecordPollType
      <4>. QED
        BY <1>0, <4>2 DEF RecordPoll, DagRow
    <3>. HIDE DEF rows, st
    <3>3. ActiveDags(dags) = {d}
      BY <1>0, <2>1, OnlyRound DEF ActiveDags
    <3>4. ActiveDags(rows) = {}
      BY <3>1, <3>2, <3>3 DEF ActiveDags
    <3>5. ~(head # 0 /\ rows[head].st = "ready" /\ rows[head].tries > 0)
      BY <1>0, <2>1, <3>1, <3>2 DEF RescuePending
    <3>6. ActiveDags(dags)' = {} /\ status' \in {"resubmitting", "held"}
          /\ (RescuePending' => status' = "resubmitting")
      BY <1>0, <3>1, <3>2, <3>4, <3>5, FailureAlone
    <3>. QED
      BY <3>1, <3>6 DEF RescueInv, Evaluating
  <2>. QED
    BY <1>14, <2>3, <2>4, <2>5 DEF Poll
<1>15. CASE FinishHeld \/ FinishWait \/ FinishTarget \/ FinishPlanFails
  <2>1. pc' = "idle" /\ head' = head /\ status' # "resubmitting" /\ ~RescuePending /\ status \in {"active", "held"}
    BY <1>1, <1>15 DEF FinishHeld, FinishWait, FinishTarget, FinishPlanFails, Finishing, Evaluating, Commit
  <2>2. CASE FinishPlanFails /\ used < MaxDags /\ dags' = [dags EXCEPT ![used + 1] = PlannedRow("ready")]
    <3>1. head # used + 1
      BY <1>0
    <3>2. head # 0 => dags'[head] = dags[head]
      BY <1>0, <2>2, <3>1
    <3>. QED
      BY <1>3, <2>1, <3>2 DEF RescuePending
  <2>3. CASE ~(FinishPlanFails /\ used < MaxDags /\ dags' = [dags EXCEPT ![used + 1] = PlannedRow("ready")])
    <3>1. UNCHANGED dags \/ FinishTarget
      BY <1>15, <2>3 DEF FinishHeld, FinishWait, FinishPlanFails
    <3>2. \A d \in DagId : /\ dags'[d].st = "active" => dags[d].st = "active"
                           /\ dags'[d].st = "ready" => dags[d].st = "ready" /\ dags'[d].tries = dags[d].tries
      BY <1>0, <3>1 DEF FinishTarget, DagRow
    <3>. QED
      BY <1>0, <1>3, <2>1, <3>2, PendingKept
  <2>. QED
    BY <2>2, <2>3
<1>16. CASE FinishPlan
  <2>1. pc' = "idle" /\ status' = "active" /\ PlanRound(dags)
    BY <1>16 DEF FinishPlan, Commit
  <2>. QED
    BY <1>0, <1>3, <2>1, PlanRoundNotPending
<1>17. CASE Crash
  <2>1. Evaluating /\ pc' = "down" /\ status' = snap.status /\ head' = snap.head /\ dags' = snap.dags
    BY <1>17 DEF Crash
  <2>2. status' = "active" /\ ~RescuePending'
    BY <1>0, <2>1 DEF EvaluationInv, RescueInv, RescuePending
  <2>. QED
    BY <1>3, <2>1, <2>2
<1>18. CASE Restart
  <2>1. UNCHANGED <<dags, head, status>> /\ pc' = "idle"
    BY <1>18 DEF Restart
  <2>. QED
    BY <1>2, <1>4, <2>1
<1>19. CASE Condor \/ UNCHANGED vars
  <2>1. UNCHANGED <<db, evaluation>>
    BY <1>19 DEF Condor, WuSucceeds, WuFails, DagmanExits, DagmanRemoved, LeavesQueue, DagmanLost, DagmanStep, vars
  <2>. QED
    BY <1>0, <2>1 DEF RescueInv, RescuePending, ActiveDags, Evaluating
<1>. QED
  BY <1>5, <1>6, <1>7, <1>8, <1>9, <1>10, <1>11, <1>12, <1>13, <1>14, <1>15, <1>16, <1>17, <1>18, <1>19
     DEF Next, Lifecycle, Operator, Finish

\* A step that leaves a rescue pending plans no round.
LEMMA RescueGoesFirst ==
    ASSUME RescueIInv, [Next]_vars, RescuePending, dags'[head].st = "ready" PROVE round' = round
<1>. USE DEF db
<1>0. /\ head \in DagId /\ dags[head].st = "ready" /\ used \in Nat /\ head \in Nat /\ head <= used
      /\ dags \in [DagId -> DagRow]
      /\ (Evaluating => snap.status = "active" /\ status \in {"active", "held"})
      /\ status \in {"resubmitting", "queued"} \cup Terminal
  BY DEF RescueIInv, RoundsIInv, ManagedIInv, EvaluationInv, RescueInv, RescuePending, CountInv, Counted,
     TypeOK, DatabaseOK, DagId
<1>1. ~Evaluating
  BY <1>0 DEF Terminal
<1>2. ~QueuedPlan
  <2>. SUFFICES ASSUME QueuedPlan PROVE FALSE
    OBVIOUS
  <2>1. PlanRound([dags EXCEPT ![head].st = "failed"])
    BY DEF QueuedPlan
  <2>2. dags' = [[dags EXCEPT ![head].st = "failed"] EXCEPT ![used + 1] = PlannedRow("active")]
    BY <2>1 DEF PlanRound
  <2>3. dags'[head].st = "failed"
    BY <1>0, <2>2 DEF DagRow
  <2>. QED
    BY <2>3
<1>3. CASE Lifecycle
  BY <1>1, <1>2, <1>3 DEF Lifecycle, HandleSubmitted, QueuedToActive, QueuedSubmitRescue, QueuedNothingLeft,
     HandleResubmitting, StoppingRetriesRemove, StoppingDone, ActiveBegin, ActiveHeadFailed, Poll, PollNothing,
     PollRunning, PollCompleted, PollFailed, Polling, Finish, FinishHeld, FinishTarget, FinishPlan, FinishWait,
     FinishPlanFails, Finishing, StuckFails, StuckStopping, Crash, Restart, Evaluating
<1>4. CASE Operator \/ Condor \/ UNCHANGED vars
  BY <1>4 DEF Operator, StopRequest, ReleaseRequest, FailRunning, FailStopped, AbortRequest, Condor,
     WuSucceeds, WuFails, DagmanExits, DagmanRemoved, LeavesQueue, DagmanLost, DagmanStep, vars
<1>. QED
  BY <1>3, <1>4 DEF Next

\* With one round at a time no new round is planned while the rescue of an
\* earlier one waits for its submission, whatever fails, stops and crashes.
THEOREM RescueBeforeRound == ASSUME MaxConcurrentRounds = 1 PROVE Spec => RescueFirst
<1>1. Init => RescueIInv
  <2>. SUFFICES ASSUME Init PROVE RescueIInv
    OBVIOUS
  <2>1. RoundsIInv /\ CountInv
    BY RoundsInit, CountInit
  <2>2. PausedIsQuiet /\ RescueInv
    BY DEF Init, PausedIsQuiet, RescueInv, RescuePending, Evaluating
  <2>. QED
    BY <2>1, <2>2 DEF RescueIInv
<1>2. RescueIInv /\ [Next]_vars => RescueIInv'
  BY TypeStep, EvaluationStep, ManagedStep, RoundsStep, CountStep, PausedStep, RescueStep
     DEF RescueIInv, RoundsIInv, ManagedIInv
<1>3. RescueIInv /\ [Next]_vars => [RescuePending /\ dags'[head].st = "ready" => round' = round]_vars
  BY RescueGoesFirst
<1>. QED
  BY <1>1, <1>2, <1>3, PTL DEF Spec, RescueFirst

-------------------------------------------------------------------------------
(* One DAGMan per submit directory.  Outside the terminal states a DAGMan that *)
(* runs or still shuts down belongs to an active row, and CountInv leaves one  *)
(* live row to a directory; in a terminal state DAGMans only end.  Somebody    *)
(* else's condor_rm ("lost") is left out: the row it removes is rescued while  *)
(* its DAGMan shuts down.                                                      *)

Running(d) == job[d] \in {"alive", "removing"}

SoleInv ==
    /\ status \notin Terminal =>
           \A d \in DagId : job[d] = "removing" => status = "stopping" /\ dags[d].st = "active"
    /\ status \in Terminal => OneDagmanPerDirectory

SoleIInv == ManagedIInv /\ CountInv /\ SoleInv

\* What runs outside the terminal states is active, hence live and alone.
LEMMA RunningIsActive ==
    ASSUME SoleIInv, status \notin Terminal, NEW d \in DagId, Running(d)
    PROVE  dags[d].st = "active"
BY DEF SoleIInv, SoleInv, ManagedIInv, ManagedInv, Owned, Running

\* Two DAGMans in one directory would have to be one row's.
LEMMA SoleHolds == SoleIInv => OneDagmanPerDirectory
<1>. SUFFICES ASSUME SoleIInv, status \notin Terminal, NEW d \in DagId, NEW e \in DagId,
                     Running(d), Running(e), dags[d].dir = dags[e].dir, d # e
              PROVE  FALSE
  BY DEF OneDagmanPerDirectory, SoleIInv, SoleInv, Running
<1>1. d \in Live(dags, head) /\ e \in Live(dags, head)
  BY RunningIsActive DEF Live
<1>2. Latest(dags, Live(dags, head))
  BY DEF SoleIInv, CountInv, Counted
<1>. QED
  BY <1>1, <1>2 DEF Latest

\* Where DAGMans only end and rows keep their directory, none meets another.
LEMMA SoleKept ==
    ASSUME OneDagmanPerDirectory,
           \A d \in DagId : dags'[d].dir = dags[d].dir /\ (Running(d)' => Running(d))
    PROVE  OneDagmanPerDirectory'
BY DEF OneDagmanPerDirectory, Running

\* condor_rm starts no DAGMan.
LEMMA CondorRmRunning ==
    ASSUME CondorOK, NEW S, CondorRm(S)
    PROVE  \A d \in DagId : Running(d)' => Running(d)
BY DEF CondorRm, CondorOK, AfterRemove, Running

\* Outside a stop nothing shuts down: a DAGMan is removed by the stop alone.
NoneRemoved == \A d \in DagId : job[d] # "removing"

\* A rescue is submitted to its directory only after the DAGMan there has ended.
LEMMA SoleStep ==
    ASSUME "lost" \notin Faults PROVE SoleIInv /\ [Next]_vars => SoleInv'
<1>. SUFFICES ASSUME SoleIInv, [Next]_vars PROVE SoleInv'
  OBVIOUS
<1>. USE DEF db, condor, evaluation, Evaluating
<1>0. /\ dags \in [DagId -> DagRow] /\ job \in [DagId -> JobState] /\ CondorOK
      /\ \A d \in DagId : dags[d] \in DagRow
  BY DEF SoleIInv, ManagedIInv, TypeOK, DatabaseOK, CondorOK
<1>1. OneDagmanPerDirectory
  BY SoleHolds
<1>2. status \notin Terminal /\ status # "stopping" => NoneRemoved
  BY DEF SoleIInv, SoleInv, NoneRemoved
<1>3. NoneRemoved' /\ status' \notin Terminal => SoleInv'
  BY DEF NoneRemoved, SoleInv
<1>4. (\A d \in DagId : dags'[d].dir = dags[d].dir /\ (Running(d)' => Running(d))) /\ status' \in Terminal => SoleInv'
  BY <1>1, SoleKept DEF SoleInv
<1>5. Evaluating => status \notin Terminal /\ status # "stopping"
  BY DEF SoleIInv, ManagedIInv, EvaluationInv, Terminal
<1>6. CASE HandleSubmitted \/ QueuedToActive \/ HandleResubmitting \/ ActiveHeadFailed
  <2>1. /\ status \notin Terminal /\ status # "stopping" /\ UNCHANGED job /\ status' \notin Terminal
    BY <1>6 DEF HandleSubmitted, QueuedToActive, Queued, HandleResubmitting, ActiveHeadFailed, FailureHandling, Terminal
  <2>. QED
    BY <1>2, <1>3, <2>1 DEF NoneRemoved
<1>7. CASE QueuedSubmitRescue
  <2>1. /\ status = "queued" /\ status' = "active" /\ job' = [job EXCEPT ![head] = "alive"]
    BY <1>7 DEF QueuedSubmitRescue, Queued
  <2>. QED
    BY <1>0, <1>2, <1>3, <2>1 DEF NoneRemoved, Terminal
<1>8. CASE QueuedPlan \/ FinishPlan
  <2>1. /\ status \in {"queued", "active"} /\ status' = "active" /\ job' = [job EXCEPT ![used + 1] = "alive"]
    BY <1>8 DEF QueuedPlan, Queued, FinishPlan, PlanRound
  <2>. QED
    BY <1>0, <1>2, <1>3, <2>1 DEF NoneRemoved, Terminal
<1>9. CASE QueuedNothingLeft
  <2>1. UNCHANGED job /\ status' \in Terminal
    BY <1>9 DEF QueuedNothingLeft, Terminal
  <2>2. \A d \in DagId : dags'[d].dir = dags[d].dir
    BY <1>0, <1>9 DEF QueuedNothingLeft, DagRow
  <2>. QED
    BY <1>4, <2>1, <2>2 DEF Running
<1>10. CASE StoppingRetriesRemove
  <2>1. /\ status = "stopping" /\ UNCHANGED <<status, dags>> /\ CondorRm(ActiveDags(dags))
    BY <1>10 DEF StoppingRetriesRemove, Stopping
  <2>2. \A d \in DagId : job'[d] = "removing" => job[d] = "removing" \/ dags[d].st = "active"
    BY <1>0, <2>1 DEF CondorRm, AfterRemove, ActiveDags
  <2>. QED
    BY <2>1, <2>2 DEF SoleIInv, SoleInv, Terminal
<1>11. CASE StoppingDone
  <2>1. status = "stopping" /\ UNCHANGED job /\ Drained(ActiveDags(dags))
    BY <1>11 DEF StoppingDone, Stopping
  <2>2. NoneRemoved
    BY <2>1 DEF SoleIInv, SoleInv, Terminal, NoneRemoved, Drained, ActiveDags
  <2>3. \A d \in DagId : dags'[d].dir = dags[d].dir
    BY <1>0, <1>11 DEF StoppingDone, FailedRows, DagRow
  <2>. QED
    BY <1>3, <1>4, <2>1, <2>2, <2>3 DEF NoneRemoved, Running
<1>12. CASE ActiveBegin
  <2>1. status = "active" /\ UNCHANGED <<job, status>>
    BY <1>12 DEF ActiveBegin
  <2>. QED
    BY <1>2, <1>3, <2>1 DEF NoneRemoved, Terminal
<1>13. ASSUME NEW d \in DagId, Poll(d) PROVE SoleInv'
  <2>1. NoneRemoved
    BY <1>2, <1>5, <1>13 DEF Poll, PollNothing, PollRunning, PollCompleted, PollFailed, Polling
  <2>2. status \notin Terminal
    BY <1>5, <1>13 DEF Poll, PollNothing, PollRunning, PollCompleted, PollFailed, Polling
  <2>3. CASE PollNothing(d) \/ PollRunning(d) \/ PollFailed(d)
    <3>1. UNCHANGED job
      BY <2>3 DEF PollNothing, PollRunning, PollFailed
    <3>2. status' \notin Terminal
      BY <2>2, <2>3 DEF PollNothing, PollRunning, PollFailed, FailureHandling, Terminal
    <3>. QED
      BY <1>3, <2>1, <3>1, <3>2 DEF NoneRemoved
  <2>4. CASE PollCompleted(d)
    <3>1. CondorRm({d}) /\ DagmanEnded(d) /\ dags' = RecordPoll(d, "completed")
      BY <2>4 DEF PollCompleted
    <3>2. NoneRemoved'
      BY <1>0, <2>1, <3>1 DEF CondorRm, AfterRemove, DagmanEnded, NoneRemoved
    <3>3. \A e \in DagId : dags'[e].dir = dags[e].dir
      BY <1>0, <3>1 DEF RecordPoll, DagRow
    <3>4. \A e \in DagId : Running(e)' => Running(e)
      BY <1>0, <3>1, CondorRmRunning
    <3>. QED
      BY <1>3, <1>4, <3>2, <3>3, <3>4
  <2>. QED
    BY <1>13, <2>3, <2>4 DEF Poll
<1>14. CASE FinishHeld \/ FinishWait \/ FinishPlanFails
  <2>1. UNCHANGED job /\ status' \notin Terminal /\ pc = "finish"
    BY <1>5, <1>14 DEF FinishHeld, FinishWait, FinishPlanFails, Finishing, Terminal
  <2>. QED
    BY <1>2, <1>3, <1>5, <2>1 DEF NoneRemoved
<1>15. CASE FinishTarget
  <2>1. status' \in Terminal /\ CondorRm(ActiveDags(dags))
    BY <1>15 DEF FinishTarget, Terminal
  <2>2. \A d \in DagId : dags'[d].dir = dags[d].dir
    BY <1>0, <1>15 DEF FinishTarget, DagRow
  <2>. QED
    BY <1>0, <1>4, <2>1, <2>2, CondorRmRunning
<1>16. CASE StuckFails \/ AbortRequest
  <2>1. UNCHANGED <<job, dags>> /\ status' \in Terminal
    BY <1>16 DEF StuckFails, AbortRequest, Terminal
  <2>. QED
    BY <1>4, <2>1 DEF Running
<1>17. CASE StuckStopping
  <2>1. status = "stopping" /\ UNCHANGED status
    BY <1>17 DEF StuckStopping, Stopping
  <2>2. \A d \in DagId : dags'[d].st = dags[d].st
    BY <1>0, <1>17 DEF StuckStopping, DagRow
  <2>3. \A d \in DagId : job'[d] = "removing" => job[d] = "removing" \/ dags[d].st = "active"
    BY <1>0, <1>17 DEF StuckStopping, AfterRemove
  <2>. QED
    BY <2>1, <2>2, <2>3 DEF SoleIInv, SoleInv, Terminal
<1>18. CASE Crash
  <2>1. UNCHANGED job /\ status' = "active"
    BY <1>18 DEF Crash, SoleIInv, ManagedIInv, EvaluationInv
  <2>2. NoneRemoved
    BY <1>2, <1>5, <1>18 DEF Crash
  <2>. QED
    BY <1>3, <2>1, <2>2 DEF NoneRemoved, Terminal
<1>19. CASE StopRequest \/ FailRunning
  <2>1. status' = "stopping" /\ (CondorRm(HeadIfActive) \/ UNCHANGED job) /\ status \in {"active", "stopping"}
    BY <1>19 DEF StopRequest, FailRunning
  <2>2. \A d \in DagId : dags'[d].st = dags[d].st
    BY <1>0, <1>19 DEF StopRequest, FailRunning, MarkHead, DagRow
  <2>3. \A d \in DagId : job'[d] = "removing" => job[d] = "removing" \/ dags[d].st = "active"
    BY <1>0, <2>1 DEF CondorRm, AfterRemove, HeadIfActive, ActiveDags
  <2>. QED
    BY <2>1, <2>2, <2>3 DEF SoleIInv, SoleInv, Terminal
<1>20. CASE ReleaseRequest
  <2>1. status \in {"held", "paused"} /\ status' \in {"queued", "resubmitting"} /\ UNCHANGED job
    BY <1>20 DEF ReleaseRequest
  <2>. QED
    BY <1>2, <1>3, <2>1 DEF NoneRemoved, Terminal
<1>21. CASE FailStopped
  <2>1. status' \in Terminal /\ CondorRm(HeadIfActive)
    BY <1>21 DEF FailStopped, Terminal
  <2>2. \A d \in DagId : dags'[d].dir = dags[d].dir
    BY <1>0, <1>21 DEF FailStopped, FailedRows, DagRow
  <2>. QED
    BY <1>0, <1>4, <2>1, <2>2, CondorRmRunning
<1>22. CASE Condor
  <2>1. UNCHANGED <<status, dags>>
    BY <1>22 DEF Condor, WuSucceeds, WuFails, DagmanExits, DagmanRemoved, LeavesQueue, DagmanLost, DagmanStep
  <2>2. \A d \in DagId : (Running(d)' => Running(d)) /\ (job'[d] = "removing" => job[d] = "removing")
    BY <1>0, <1>22 DEF Condor, WuSucceeds, WuFails, DagmanExits, DagmanRemoved, LeavesQueue, DagmanLost,
       DagmanStep, Running
  <2>. QED
    BY <1>4, <2>1, <2>2 DEF SoleIInv, SoleInv
<1>23. CASE Restart \/ UNCHANGED vars
  BY <1>23 DEF Restart, vars, SoleIInv, SoleInv, OneDagmanPerDirectory
<1>. QED
  BY <1>6, <1>7, <1>8, <1>9, <1>10, <1>11, <1>12, <1>13, <1>14, <1>15, <1>16, <1>17, <1>18, <1>19, <1>20, <1>21, <1>22, <1>23
     DEF Next, Lifecycle, Operator, Finish

\* Two DAGMans never run in one submit directory, whatever rescues, stops,
\* rollbacks and failed condor_rm calls: a rescue starts when the DAGMan whose
\* rescue file it needs is gone (unless somebody else removes that DAGMan).
THEOREM OneDagmanCorrect == ASSUME "lost" \notin Faults PROVE Spec => []OneDagmanPerDirectory
<1>1. Init => SoleIInv
  BY ManagedInit, CountInit DEF Init, SoleIInv, SoleInv, Terminal
<1>2. SoleIInv /\ [Next]_vars => SoleIInv'
  BY TypeStep, EvaluationStep, ManagedStep, CountStep, SoleStep DEF SoleIInv, ManagedIInv
<1>3. SoleIInv => OneDagmanPerDirectory
  BY SoleHolds
<1>. QED
  BY <1>1, <1>2, <1>3, PTL DEF Spec

-------------------------------------------------------------------------------
(* Overproduction.  A work unit is owed while a live row still has it to do    *)
(* (or, before the first one is counted, while it may be counted at the end of *)
(* its round): what is produced and owed never exceeds what the settings allow. *)

\* A row whose output is thrown away owes nothing.
Discards(row) == PilotThrowaway /\ row.rnd = 0

OwedRow(row, prod) ==
    {w \in Wu : ~Discards(row) /\ w \in 1..row.total /\ (prod = 0 \/ w \notin row.done)}

Owed(rows, S, prod) == {x \in DagId \X Wu : x[1] \in S /\ x[2] \in OwedRow(rows[x[1]], prod)}

\* The work units that a round in flight has counted at least when another one
\* is planned, and the bound that follows.
CountedEach == IF "rucio" \in Faults \/ AdvancePercent = 0 THEN 0 ELSE 1
Allowance == Target + (MaxConcurrentRounds - 1) * (Cardinality(Wu) - CountedEach)

\* A round has its work units, and the status file of its directory names no
\* other; the rows of one directory have the same.
Sized(rows, n, files) ==
    /\ \A d \in DagId : d <= n => /\ rows[d].total \in Wu
                                  /\ rows[d].done \subseteq 1..rows[d].total
                                  /\ files[rows[d].dir] \subseteq 1..rows[d].total
    /\ \A d \in DagId : d > n => rows[d].total = 0 /\ files[d] = {}
    /\ \A d \in DagId, e \in DagId :
           d <= n /\ e <= n /\ rows[d].dir = rows[e].dir => rows[d].total = rows[e].total

\* While no registration is refused a work unit that is kept is counted at once.
Credits(rows, prod) ==
    "rucio" \notin Faults =>
        \A d \in DagId : ~Discards(rows[d]) /\ rows[d].done # {} => prod > 0

\* A round is planned beside others when each of them has made a start.
Started(rows) ==
    AdvancePercent > 0 =>
        \A d \in ActiveDags(rows), e \in ActiveDags(rows) : d < e => rows[d].done # {}

Owing(rows, hd, n, prod, files) ==
    /\ Sized(rows, n, files)
    /\ Credits(rows, prod)
    /\ Started(rows)
    /\ prod + Cardinality(Owed(rows, Live(rows, hd), prod)) <= Allowance

\* A rollback finds the rows of the same rounds.
SameRounds(rows, more) ==
    \A d \in DagId : more[d].dir = rows[d].dir /\ more[d].total = rows[d].total

OverInv ==
    /\ Owing(dags, head, used, produced, nodeDone)
    /\ Evaluating => /\ Owing(snap.dags, snap.head, snap.used, snap.produced, nodeDone)
                     /\ snap.used = used /\ SameRounds(dags, snap.dags)

\* The numbers of the bound.
LEMMA AllowanceType ==
    /\ Cardinality(Wu) \in Nat /\ Cardinality(Wu) > 0
    /\ CountedEach \in {0, 1} /\ Cardinality(Wu) - CountedEach \in Nat
    /\ MaxConcurrentRounds - 1 \in Nat
    /\ Allowance \in Nat /\ Allowance >= Target
<1>1. Cardinality(Wu) \in Nat /\ Cardinality(Wu) > 0
  <2>. DEFINE k == IF FirstRoundWUs > WUsPerRound THEN FirstRoundWUs ELSE WUsPerRound
  <2>1. k \in Nat /\ k > 0
    BY ConstantsAssumption
  <2>. HIDE DEF k
  <2>2. Cardinality(1..k) = k
    BY <2>1, FS_Interval
  <2>. QED
    BY <2>1, <2>2 DEF Wu, k
<1>2. CountedEach \in {0, 1} /\ Cardinality(Wu) - CountedEach \in Nat
  BY <1>1 DEF CountedEach
<1>3. MaxConcurrentRounds - 1 \in Nat /\ Target \in Nat
  BY ConstantTypes
<1>4. \A m \in Nat, k \in Nat : m * k \in Nat
  OBVIOUS
<1>5. (MaxConcurrentRounds - 1) * (Cardinality(Wu) - CountedEach) \in Nat
  BY <1>2, <1>3, <1>4
<1>. QED
  BY <1>1, <1>2, <1>3, <1>5 DEF Allowance

\* The work units 1 .. total of a round.
LEMMA RoundInterval ==
    ASSUME NEW t \in Wu
    PROVE  1..t \in SUBSET Wu /\ t \in Nat /\ t > 0 /\ Cardinality(1..t) = t
<1>. DEFINE k == IF FirstRoundWUs > WUsPerRound THEN FirstRoundWUs ELSE WUsPerRound
<1>1. k \in Nat
  BY ConstantsAssumption
<1>2. t \in 1..k /\ Wu = 1..k
  BY DEF Wu
<1>. HIDE DEF k
<1>3. t \in Nat /\ t > 0 /\ 1..t \subseteq 1..k
  BY <1>1, <1>2
<1>4. Cardinality(1..t) = t
  BY <1>3, FS_Interval
<1>. QED
  BY <1>2, <1>3, <1>4

\* Owed work units are finitely many.
LEMMA OwedFinite ==
    ASSUME NEW rows, NEW S, NEW prod
    PROVE  IsFiniteSet(Owed(rows, S, prod)) /\ Cardinality(Owed(rows, S, prod)) \in Nat
<1>1. IsFiniteSet(DagId \X Wu)
  BY FiniteIds, FS_Product
<1>2. Owed(rows, S, prod) \subseteq DagId \X Wu
  BY DEF Owed
<1>. QED
  BY <1>1, <1>2, FS_Subset, FS_CardinalityType

\* Fewer rows that owe less each owe less.
LEMMA OwedLess ==
    ASSUME NEW rows, NEW more, NEW S, NEW T, NEW p, NEW q,
           \A d \in DagId : d \in T => d \in S /\ OwedRow(more[d], q) \subseteq OwedRow(rows[d], p)
    PROVE  Cardinality(Owed(more, T, q)) <= Cardinality(Owed(rows, S, p))
<1>1. Owed(more, T, q) \subseteq Owed(rows, S, p)
  BY DEF Owed
<1>. QED
  BY <1>1, OwedFinite, FS_Subset

\* What is counted is no longer owed.
LEMMA OwedPaid ==
    ASSUME NEW rows, NEW more, NEW S, NEW d \in DagId, d \in S, NEW p, NEW q, NEW F \in SUBSET Wu,
           F \subseteq OwedRow(rows[d], p), F \cap OwedRow(more[d], q) = {},
           \A e \in DagId : e \in S => OwedRow(more[e], q) \subseteq OwedRow(rows[e], p)
    PROVE  Cardinality(F) + Cardinality(Owed(more, S, q)) <= Cardinality(Owed(rows, S, p))
<1>. DEFINE P == {d} \X F
            O == Owed(more, S, q)
<1>1. IsFiniteSet(P) /\ Cardinality(P) = Cardinality(F) /\ Cardinality(F) \in Nat
  BY PairsOfDirectory
<1>2. IsFiniteSet(O) /\ Cardinality(O) \in Nat
  BY OwedFinite
<1>3. O \cap P = {}
  BY DEF Owed
<1>4. O \cup P \subseteq Owed(rows, S, p)
  BY DEF Owed
<1>. HIDE DEF O, P
<1>5. Cardinality(O \cup P) = Cardinality(O) + Cardinality(P) - Cardinality(O \cap P)
  BY <1>1, <1>2, FS_Union
<1>6. Cardinality(O \cap P) = 0
  BY <1>3, FS_EmptySet
<1>7. Cardinality(O \cup P) <= Cardinality(Owed(rows, S, p))
  BY <1>4, OwedFinite, FS_Subset
<1>8. Cardinality(Owed(rows, S, p)) \in Nat
  BY OwedFinite
<1>. QED
  BY <1>1, <1>2, <1>5, <1>6, <1>7, <1>8 DEF O

\* A row that takes the place of another and owes no more than it.
LEMMA OwedReplaced ==
    ASSUME NEW rows, NEW more, NEW S, NEW d \in DagId, d \in S, NEW n \in DagId, n \notin S, NEW p,
           OwedRow(more[n], p) \subseteq OwedRow(rows[d], p),
           \A e \in DagId : e # n => more[e] = rows[e]
    PROVE  Cardinality(Owed(more, (S \ {d}) \cup {n}, p)) <= Cardinality(Owed(rows, S, p))
<1>. DEFINE A == Owed(more, (S \ {d}) \cup {n}, p)
            B == Owed(rows, S, p)
            f == [x \in A |-> IF x[1] = n THEN <<d, x[2]>> ELSE x]
<1>1. \A x \in A : x \in DagId \X Wu /\ x = <<x[1], x[2]>>
  BY DEF Owed
<1>2. ASSUME NEW x \in A PROVE f[x] \in B
  <2>1. CASE x[1] = n
    BY <1>1, <2>1 DEF Owed
  <2>2. CASE x[1] # n
    BY <1>1, <2>2 DEF Owed
  <2>. QED
    BY <2>1, <2>2
<1>3. ASSUME NEW x \in A, NEW y \in A, f[x] = f[y] PROVE x = y
  <2>1. x[2] = y[2] /\ (x[1] = n <=> y[1] = n)
    BY <1>1, <1>3 DEF Owed
  <2>. QED
    BY <1>1, <1>3, <2>1
<1>4. f \in Injection(A, B)
  BY <1>2, <1>3 DEF Injection, IsInjective
<1>5. IsFiniteSet(B)
  BY OwedFinite
<1>. HIDE DEF A, B, f
<1>6. Cardinality(A) <= Cardinality(B)
  BY <1>4, <1>5, FS_Injection
<1>. QED
  BY <1>6 DEF A, B

\* Rounds in flight owe their size at most, and one less each when each has
\* counted a work unit.
LEMMA OwedByRounds ==
    ASSUME NEW rows, NEW prod, NEW A \in SUBSET DagId, NEW m \in Nat, Cardinality(A) <= m,
           CountedEach = 1 =>
               \A d \in A : rows[d].done \cap Wu # {} /\ (Discards(rows[d]) \/ prod > 0)
    PROVE  Cardinality(Owed(rows, A, prod)) <= m * (Cardinality(Wu) - CountedEach)
<1>. DEFINE O == Owed(rows, A, prod)
            k == Cardinality(Wu)
            a == Cardinality(A)
<1>0. IsFiniteSet(A) /\ a \in Nat /\ IsFiniteSet(Wu) /\ k \in Nat
  BY FiniteIds, FS_Subset, FS_CardinalityType
<1>1. IsFiniteSet(A \X Wu) /\ Cardinality(A \X Wu) = a * k
  BY <1>0, FS_Product
<1>2. IsFiniteSet(O) /\ Cardinality(O) \in Nat /\ O \subseteq A \X Wu
  <2>1. \A x \in O : x \in A \X Wu
    BY DEF Owed, OwedRow
  <2>. HIDE DEF O
  <2>2. O \subseteq A \X Wu
    BY <2>1
  <2>. QED
    BY <2>2, OwedFinite DEF O
<1>3. a <= m
  OBVIOUS
<1>4. Cardinality(O) <= a * (k - CountedEach)
  <2>1. CASE CountedEach = 0
    <3>. HIDE DEF O
    <3>1. Cardinality(O) <= a * k
      BY <1>1, <1>2, FS_Subset
    <3>. HIDE DEF a, k
    <3>. QED
      BY <1>0, <2>1, <3>1
  <2>2. CASE CountedEach = 1
    <3>. DEFINE pick(d) == CHOOSE w \in Wu : w \in rows[d].done
                G == {x \in A \X Wu : x[2] = pick(x[1])}
                f == [d \in A |-> <<d, pick(d)>>]
    <3>1. \A d \in A : pick(d) \in Wu /\ pick(d) \in rows[d].done
      BY <2>2
    <3>. HIDE DEF pick
    <3>2. f \in Bijection(A, G)
      <4>1. \A d \in A : f[d] \in G
        BY <3>1
      <4>2. \A d \in A, e \in A : f[d] = f[e] => d = e
        OBVIOUS
      <4>3. \A x \in G : x[1] \in A /\ f[x[1]] = x
        OBVIOUS
      <4>4. f \in [A -> G]
        BY <4>1
      <4>. HIDE DEF f, G
      <4>. QED
        BY <4>2, <4>3, <4>4 DEF Bijection, Injection, IsInjective, Surjection
    <3>3. Cardinality(G) = a /\ IsFiniteSet(G)
      <4>1. ExistsBijection(A, G)
        BY <3>2 DEF ExistsBijection
      <4>. HIDE DEF G
      <4>. QED
        BY <1>0, <4>1, FS_Bijection
    <3>4. O \subseteq (A \X Wu) \ G
      <4>. SUFFICES ASSUME NEW x \in O PROVE x[2] # pick(x[1])
        BY <1>2
      <4>1. x[1] \in A /\ x[2] \in OwedRow(rows[x[1]], prod)
        BY DEF Owed
      <4>2. x[2] \notin rows[x[1]].done
        BY <2>2, <4>1 DEF OwedRow
      <4>. QED
        BY <3>1, <4>1, <4>2
    <3>5. G \subseteq A \X Wu
      OBVIOUS
    <3>. HIDE DEF G, O
    <3>6. Cardinality((A \X Wu) \ G) = a * k - Cardinality((A \X Wu) \cap G) /\ IsFiniteSet((A \X Wu) \ G)
      BY <1>1, FS_Difference
    <3>7. (A \X Wu) \cap G = G
      BY <3>5
    <3>8. Cardinality(O) <= a * k - a
      <4>1. Cardinality(O) <= Cardinality((A \X Wu) \ G)
        BY <3>4, <3>6, FS_Subset
      <4>2. Cardinality((A \X Wu) \ G) = a * k - a
        BY <3>3, <3>6, <3>7
      <4>. QED
        BY <4>1, <4>2
    <3>9. a * k - a = a * (k - 1)
      <4>. HIDE DEF a, k
      <4>. QED
        BY <1>0
    <3>. QED
      BY <2>2, <3>8, <3>9
  <2>. QED
    BY <2>1, <2>2, AllowanceType
<1>5. a * (k - CountedEach) <= m * (k - CountedEach)
  <2>1. k - CountedEach \in Nat
    BY AllowanceType
  <2>2. \A x \in Nat, y \in Nat, z \in Nat : x <= y => x * z <= y * z
    OBVIOUS
  <2>. HIDE DEF a, k
  <2>. QED
    BY <1>0, <1>3, <2>1, <2>2
<1>6. a * (k - CountedEach) \in Int /\ m * (k - CountedEach) \in Int /\ Cardinality(O) \in Int
  <2>. HIDE DEF a, k, O
  <2>. QED
    BY <1>0, <1>2, AllowanceType
<1>. QED
  BY <1>4, <1>5, <1>6

\* The size of a planned round: no round is empty, and it fits the target.
LEMMA RoundSizeFits ==
    ASSUME DatabaseOK, ~TargetReached
    PROVE  RoundSize \in Wu /\ produced + RoundSize <= Target
<1>1. produced \in Nat /\ Target \in Nat /\ produced < Target
  BY ConstantTypes DEF DatabaseOK, TargetReached
<1>2. /\ FirstRoundWUs \in Nat /\ FirstRoundWUs > 0
      /\ WUsPerRound \in Nat /\ WUsPerRound > 0
  BY ConstantsAssumption
<1>. QED
  BY <1>1, <1>2 DEF RoundSize, Wu

\* A non-empty set of rows has a newest one.
LEMMA NewestRow ==
    ASSUME NEW A \in SUBSET DagId, A # {}
    PROVE  \E d \in A : \A e \in A : e <= d
<1>. DEFINE B == {MaxDags - d : d \in A}
<1>1. MaxDags \in Nat /\ \A d \in A : d \in Nat /\ MaxDags - d \in Nat
  BY ConstantTypes DEF DagId
<1>2. B \in SUBSET Nat /\ B # {}
  BY <1>1
<1>. HIDE DEF B
<1>3. PICK x \in B : \A y \in B : <<y, x>> \notin OpToRel(<, Nat)
  BY <1>2, NatLessThanWellFounded, WFMin, Zenon
<1>4. \A y \in B : ~(y < x)
  BY <1>2, <1>3, Zenon DEF OpToRel
<1>5. PICK d \in A : x = MaxDags - d
  BY DEF B
<1>6. ASSUME NEW e \in A PROVE e <= d
  <2>1. MaxDags - e \in B
    BY DEF B
  <2>. QED
    BY <1>1, <1>4, <1>5, <2>1
<1>. QED
  BY <1>6

\* When a round may be planned beside others, each of them has made a start.
LEMMA AllStarted ==
    ASSUME TypeOK, Started(dags), Sized(dags, used, nodeDone), Fresh(dags, used), MayAdvance
    PROVE  /\ Cardinality(ActiveDags(dags)) < MaxConcurrentRounds
           /\ AdvancePercent > 0 => \A d \in ActiveDags(dags) : dags[d].done # {}
<1>. DEFINE A == ActiveDags(dags)
            latest == CHOOSE d \in A : \A e \in A : e <= d
<1>1. A # {} /\ Cardinality(A) < MaxConcurrentRounds
      /\ Cardinality(dags[latest].done) * 100 >= AdvancePercent * dags[latest].total
  BY DEF MayAdvance
<1>2. A \in SUBSET DagId
  BY DEF ActiveDags
<1>3. latest \in A /\ \A e \in A : e <= latest
  <2>. HIDE DEF A
  <2>. QED
    BY <1>1, <1>2, NewestRow
<1>. HIDE DEF latest
<1>4. latest \in DagId /\ dags[latest].st = "active" /\ used \in Nat /\ latest \in Nat
  BY <1>3 DEF ActiveDags, TypeOK, DatabaseOK, DagId
<1>5. dags[latest].total \in Nat /\ dags[latest].total > 0
  <2>1. latest <= used
    BY <1>4 DEF Fresh
  <2>. QED
    BY <1>4, <2>1 DEF Sized, Wu
<1>6. ASSUME AdvancePercent > 0 PROVE dags[latest].done # {}
  <2>1. AdvancePercent \in Nat
    BY ConstantsAssumption
  <2>2. \A x \in Nat, y \in Nat : x > 0 /\ y > 0 => x * y > 0
    OBVIOUS
  <2>3. AdvancePercent * dags[latest].total > 0
    BY <1>5, <1>6, <2>1, <2>2
  <2>4. CASE dags[latest].done = {}
    <3>1. Cardinality(dags[latest].done) = 0
      BY <2>4, FS_EmptySet
    <3>2. 0 * 100 >= AdvancePercent * dags[latest].total
      BY <1>1, <3>1
    <3>3. AdvancePercent * dags[latest].total \in Nat
      BY <1>5, <2>1
    <3>. HIDE DEF A
    <3>. QED
      BY <2>3, <3>2, <3>3
  <2>. QED
    BY <2>4
<1>7. ASSUME AdvancePercent > 0, NEW d \in A PROVE dags[d].done # {}
  <2>1. CASE d = latest
    BY <1>6, <1>7, <2>1
  <2>2. CASE d # latest
    <3>1. d < latest
      BY <1>2, <1>3, <1>4, <2>2 DEF DagId
    <3>. QED
      BY <1>3, <1>7, <3>1 DEF Started
  <2>. QED
    BY <2>1, <2>2
<1>. QED
  BY <1>1, <1>7

\* Rows that change at most their status, none becoming live, owe no more.
LEMMA OwingKept ==
    ASSUME NEW rows, NEW more, NEW hd, NEW n, NEW prod \in Nat, NEW files,
           Owing(rows, hd, n, prod, files), Started(more),
           \A d \in DagId :
               /\ more[d].dir = rows[d].dir /\ more[d].total = rows[d].total
               /\ more[d].rnd = rows[d].rnd /\ more[d].done = rows[d].done
               /\ more[d].st = "active" => d \in Live(rows, hd)
    PROVE  Owing(more, hd, n, prod, files)
<1>1. Sized(more, n, files)
  BY DEF Owing, Sized
<1>2. Credits(more, prod)
  BY DEF Owing, Credits, Discards
<1>3. \A d \in DagId : d \in Live(more, hd) =>
          d \in Live(rows, hd) /\ OwedRow(more[d], prod) \subseteq OwedRow(rows[d], prod)
  BY DEF Live, OwedRow, Discards
<1>4. Cardinality(Owed(more, Live(more, hd), prod)) <= Cardinality(Owed(rows, Live(rows, hd), prod))
  BY <1>3, OwedLess
<1>5. prod + Cardinality(Owed(more, Live(more, hd), prod)) <= Allowance
  BY <1>4, OwedFinite, AllowanceType DEF Owing
<1>. QED
  BY <1>1, <1>2, <1>5 DEF Owing

\* A fresh row that is not the head is not live yet.
LEMMA OwingFreshRow ==
    ASSUME NEW rows \in [DagId -> DagRow], NEW hd \in Nat, NEW n \in Nat, NEW prod \in Nat, NEW files,
           n + 1 \in DagId, NEW new \in DagRow, new.st # "active",
           new.dir = n + 1, new.done = {}, new.total \in Wu,
           hd <= n, Fresh(rows, n), Owing(rows, hd, n, prod, files)
    PROVE  Owing([rows EXCEPT ![n + 1] = new], hd, n + 1, prod, files)
<1>. DEFINE more == [rows EXCEPT ![n + 1] = new]
<1>0. DagId \subseteq Nat
  BY DEF DagId
<1>1. more[n + 1] = new /\ \A d \in DagId : d # n + 1 => more[d] = rows[d]
  OBVIOUS
<1>. HIDE DEF more
<1>2. \A d \in DagId : d <= n => rows[d].dir \in Nat /\ rows[d].dir <= n
  BY <1>0 DEF Fresh, DagRow
<1>3. Sized(more, n + 1, files)
  <2>1. \A d \in DagId : d <= n + 1 => d = n + 1 \/ d <= n
    BY <1>0
  <2>2. files[n + 1] = {}
    BY DEF Owing, Sized
  <2>3. \A d \in DagId : d <= n + 1 => /\ more[d].total \in Wu /\ more[d].done \subseteq 1..more[d].total
                                       /\ files[more[d].dir] \subseteq 1..more[d].total
    BY <1>0, <1>1, <2>1, <2>2 DEF Owing, Sized
  <2>4. \A d \in DagId : d > n + 1 => more[d].total = 0 /\ files[d] = {}
    <3>1. \A d \in Nat : d > n + 1 => d > n /\ d # n + 1
      OBVIOUS
    <3>. QED
      BY <1>0, <1>1, <3>1 DEF Owing, Sized
  <2>5. ASSUME NEW d \in DagId, NEW e \in DagId, d <= n + 1, e <= n + 1, more[d].dir = more[e].dir
        PROVE  more[d].total = more[e].total
    BY <1>0, <1>1, <1>2, <2>1, <2>5 DEF Owing, Sized
  <2>. QED
    BY <2>3, <2>4, <2>5 DEF Sized
<1>4. Credits(more, prod)
  BY <1>1 DEF Owing, Credits
<1>5. Started(more)
  BY <1>1 DEF Owing, Started, ActiveDags
<1>6. \A d \in DagId : d \in Live(more, hd) =>
          d \in Live(rows, hd) /\ OwedRow(more[d], prod) \subseteq OwedRow(rows[d], prod)
  BY <1>0, <1>1 DEF Live
<1>7. Cardinality(Owed(more, Live(more, hd), prod)) <= Cardinality(Owed(rows, Live(rows, hd), prod))
  BY <1>6, OwedLess
<1>8. prod + Cardinality(Owed(more, Live(more, hd), prod)) <= Allowance
  BY <1>7, OwedFinite, AllowanceType DEF Owing
<1>. QED
  BY <1>3, <1>4, <1>5, <1>8 DEF Owing, more

\* A round planned for what is missing, beside rounds that have made a start.
LEMMA OwingPlanned ==
    ASSUME NEW rows \in [DagId -> DagRow], NEW hd \in Nat, NEW n \in Nat, NEW prod \in Nat, NEW files,
           n + 1 \in DagId, NEW new \in DagRow, new.st = "active",
           new.dir = n + 1, new.done = {}, new.total \in Wu, prod + new.total <= Target,
           hd <= n, Fresh(rows, n), Owing(rows, hd, n, prod, files),
           ActiveDags(rows) = {} \/ Cardinality(ActiveDags(rows)) < MaxConcurrentRounds,
           AdvancePercent > 0 => \A d \in ActiveDags(rows) : rows[d].done # {}
    PROVE  Owing([rows EXCEPT ![n + 1] = new], n + 1, n + 1, prod, files)
<1>. DEFINE more == [rows EXCEPT ![n + 1] = new]
            A == ActiveDags(rows)
            K == Cardinality(Wu) - CountedEach
            M == MaxConcurrentRounds - 1
<1>0. DagId \subseteq Nat
  BY DEF DagId
<1>1. more[n + 1] = new /\ \A d \in DagId : d # n + 1 => more[d] = rows[d]
  OBVIOUS
<1>. HIDE DEF more
<1>2. \A d \in DagId : d <= n => rows[d].dir \in Nat /\ rows[d].dir <= n
  BY <1>0 DEF Fresh, DagRow
<1>3. Sized(more, n + 1, files)
  <2>1. \A d \in DagId : d <= n + 1 => d = n + 1 \/ d <= n
    BY <1>0
  <2>2. files[n + 1] = {}
    BY DEF Owing, Sized
  <2>3. \A d \in DagId : d <= n + 1 => /\ more[d].total \in Wu /\ more[d].done \subseteq 1..more[d].total
                                       /\ files[more[d].dir] \subseteq 1..more[d].total
    BY <1>0, <1>1, <2>1, <2>2 DEF Owing, Sized
  <2>4. \A d \in DagId : d > n + 1 => more[d].total = 0 /\ files[d] = {}
    <3>1. \A d \in Nat : d > n + 1 => d > n /\ d # n + 1
      OBVIOUS
    <3>. QED
      BY <1>0, <1>1, <3>1 DEF Owing, Sized
  <2>5. ASSUME NEW d \in DagId, NEW e \in DagId, d <= n + 1, e <= n + 1, more[d].dir = more[e].dir
        PROVE  more[d].total = more[e].total
    BY <1>0, <1>1, <1>2, <2>1, <2>5 DEF Owing, Sized
  <2>. QED
    BY <2>3, <2>4, <2>5 DEF Sized
<1>4. Credits(more, prod)
  BY <1>1 DEF Owing, Credits
<1>5. A \subseteq DagId /\ \A d \in A : d <= n /\ d # n + 1 /\ d \in Nat
  <2>1. \A d \in DagId : d \in Nat /\ (rows[d].st = "active" => d <= n)
    BY <1>0 DEF Fresh
  <2>2. \A d \in Nat : d <= n => d # n + 1
    OBVIOUS
  <2>. QED
    BY <2>1, <2>2 DEF ActiveDags
<1>6. Live(more, n + 1) \subseteq A \cup {n + 1} /\ ActiveDags(more) \subseteq A \cup {n + 1}
  BY <1>1 DEF Live, ActiveDags
<1>7. Started(more)
  <2>. SUFFICES ASSUME AdvancePercent > 0, NEW d \in ActiveDags(more), NEW e \in ActiveDags(more), d < e
                PROVE  more[d].done # {}
    BY DEF Started
  <2>1. d \in A \cup {n + 1} /\ e \in A \cup {n + 1}
    BY <1>6
  <2>. HIDE DEF A
  <2>2. d # n + 1
    BY <1>5, <2>1
  <2>. QED
    BY <1>1, <1>5, <2>1, <2>2 DEF A
<1>8. K \in Nat /\ M \in Nat /\ Cardinality(A) \in Nat /\ Cardinality(A) <= M
  BY ActiveFinite, AllowanceType, FS_EmptySet, ConstantTypes
<1>9. Cardinality(Owed(rows, A, prod)) <= M * K
  <2>1. ASSUME CountedEach = 1, NEW d \in A
        PROVE  rows[d].done \cap Wu # {} /\ (Discards(rows[d]) \/ prod > 0)
    <3>1. "rucio" \notin Faults /\ AdvancePercent # 0 /\ AdvancePercent \in Nat
      BY <2>1, ConstantsAssumption DEF CountedEach
    <3>2. rows[d].done # {} /\ rows[d].done \subseteq Wu
      BY <1>5, <3>1 DEF DagRow
    <3>. QED
      BY <1>5, <3>1, <3>2 DEF Owing, Credits
  <2>. HIDE DEF A, M
  <2>. QED
    BY <1>5, <1>8, <2>1, OwedByRounds DEF K
<1>10. Cardinality(Owed(more, Live(more, n + 1), prod)) <= M * K + new.total
  <2>. DEFINE O == Owed(more, Live(more, n + 1), prod)
              P == {n + 1} \X (1..new.total)
              B == Owed(rows, A, prod)
  <2>1. 1..new.total \in SUBSET Wu /\ new.total \in Nat /\ Cardinality(1..new.total) = new.total
    BY RoundInterval
  <2>2. IsFiniteSet(P) /\ Cardinality(P) = new.total
    BY <2>1, PairsOfDirectory
  <2>3. IsFiniteSet(B) /\ Cardinality(B) \in Nat /\ Cardinality(O) \in Nat
    BY OwedFinite
  <2>4. O \subseteq B \cup P
    <3>. SUFFICES ASSUME NEW x \in O PROVE x \in B \cup P
      OBVIOUS
    <3>1. x \in DagId \X Wu /\ x[1] \in Live(more, n + 1) /\ x[2] \in OwedRow(more[x[1]], prod)
      BY DEF Owed
    <3>2. CASE x[1] = n + 1
      BY <1>1, <3>1, <3>2 DEF OwedRow
    <3>3. CASE x[1] # n + 1
      BY <1>1, <1>6, <3>1, <3>3 DEF Owed
    <3>. QED
      BY <3>2, <3>3
  <2>. HIDE DEF O, P, B
  <2>5. Cardinality(B \cup P) = Cardinality(B) + Cardinality(P) - Cardinality(B \cap P)
        /\ IsFiniteSet(B \cup P)
    BY <2>2, <2>3, FS_Union
  <2>6. Cardinality(B \cap P) \in Nat
    BY <2>2, FS_Intersection, FS_CardinalityType
  <2>7. Cardinality(O) <= Cardinality(B \cup P)
    BY <2>4, <2>5, FS_Subset
  <2>8. Cardinality(B) <= M * K /\ M * K \in Nat
    BY <1>8, <1>9 DEF B
  <2>. HIDE DEF M, K
  <2>9. Cardinality(O) <= M * K + new.total
    BY <2>1, <2>2, <2>3, <2>5, <2>6, <2>7, <2>8
  <2>. QED
    BY <2>9 DEF O
<1>11. prod + Cardinality(Owed(more, Live(more, n + 1), prod)) <= Allowance
  <2>1. Allowance = Target + M * K
    BY DEF Allowance
  <2>2. new.total \in Nat /\ Target \in Nat
    BY ConstantTypes DEF Wu
  <2>3. M * K \in Nat
    BY <1>8
  <2>4. Cardinality(Owed(more, Live(more, n + 1), prod)) \in Nat
    BY OwedFinite
  <2>. HIDE DEF M, K
  <2>. QED
    BY <1>10, <2>1, <2>2, <2>3, <2>4
<1>. QED
  BY <1>3, <1>4, <1>7, <1>11 DEF Owing, more

\* The rescue row takes the place of the row it copies, and owes what it owed.
LEMMA OwingRescue ==
    ASSUME NEW rows \in [DagId -> DagRow], NEW hd \in Nat, NEW n \in Nat, NEW prod \in Nat, NEW files,
           n + 1 \in DagId, NEW d \in DagId, d <= n, hd <= n, rows[d].st # "active", Fresh(rows, n),
           Sized(rows, n, files), Credits(rows, prod), Started(rows),
           prod + Cardinality(Owed(rows, Live(rows, hd) \cup {d}, prod)) <= Allowance
    PROVE  Owing([rows EXCEPT ![n + 1] = RescueRow(rows[d])], n + 1, n + 1, prod, files)
<1>. DEFINE more == [rows EXCEPT ![n + 1] = RescueRow(rows[d])]
            S == Live(rows, hd) \cup {d}
            T == (S \ {d}) \cup {n + 1}
<1>0. DagId \subseteq Nat
  BY DEF DagId
<1>1. /\ more[n + 1].st = "ready" /\ more[n + 1].dir = rows[d].dir /\ more[n + 1].done = rows[d].done
      /\ more[n + 1].total = rows[d].total /\ more[n + 1].rnd = 0
      /\ \A e \in DagId : e # n + 1 => more[e] = rows[e]
  BY DEF RescueRow
<1>. HIDE DEF more
<1>2. Sized(more, n + 1, files)
  <2>1. \A e \in DagId : e <= n + 1 => e = n + 1 \/ e <= n
    BY <1>0
  <2>2. \A e \in DagId : e <= n + 1 => /\ more[e].total \in Wu /\ more[e].done \subseteq 1..more[e].total
                                       /\ files[more[e].dir] \subseteq 1..more[e].total
    BY <1>1, <2>1 DEF Sized
  <2>3. \A e \in DagId : e > n + 1 => more[e].total = 0 /\ files[e] = {}
    BY <1>0, <1>1 DEF Sized
  <2>4. ASSUME NEW e \in DagId, NEW f \in DagId, e <= n + 1, f <= n + 1, more[e].dir = more[f].dir
        PROVE  more[e].total = more[f].total
    BY <1>1, <2>1, <2>4 DEF Sized
  <2>. QED
    BY <2>2, <2>3, <2>4 DEF Sized
<1>3. Credits(more, prod)
  BY <1>1 DEF Credits, Discards
<1>4. Started(more)
  BY <1>1 DEF Started, ActiveDags
<1>5. /\ n + 1 \notin S /\ d \in S
      /\ \A e \in DagId : e \in Live(more, n + 1) => e \in T
  BY <1>0, <1>1 DEF Live, Fresh
<1>. HIDE DEF S, T
<1>6. OwedRow(more[n + 1], prod) \subseteq OwedRow(rows[d], prod)
  BY <1>1 DEF OwedRow, Discards
<1>7. Cardinality(Owed(more, Live(more, n + 1), prod)) <= Cardinality(Owed(more, T, prod))
  BY <1>5, OwedLess
<1>8. Cardinality(Owed(more, T, prod)) <= Cardinality(Owed(rows, S, prod))
  BY <1>1, <1>5, <1>6, OwedReplaced DEF T
<1>9. prod + Cardinality(Owed(more, Live(more, n + 1), prod)) <= Allowance
  BY <1>7, <1>8, OwedFinite, AllowanceType DEF S
<1>. QED
  BY <1>2, <1>3, <1>4, <1>9 DEF Owing, more

\* A poll of an active row: what it counts was owed until now.
LEMMA OwingPoll ==
    ASSUME TypeOK, Counted(dags, head, used, produced), Owing(dags, head, used, produced, nodeDone),
           NEW d \in DagId, dags[d].st = "active", NEW st \in DagStatus, NEW refusal \in Refusals(d),
           NEW q \in {Credited(d, refusal), CountedAtCompletion(d, Credited(d, refusal))}
    PROVE  /\ q \in Nat
           /\ Sized(RecordPoll(d, st), used, nodeDone)
           /\ Credits(RecordPoll(d, st), q)
           /\ Started(RecordPoll(d, st))
           /\ q + Cardinality(Owed(RecordPoll(d, st), Live(dags, head), q)) <= Allowance
           /\ SameRounds(dags, RecordPoll(d, st))
<1>. DEFINE rows == RecordPoll(d, st)
            fresh == NewlyCompleted(d)
            all == dags[d].done \cup NewlyCompleted(d)
            S == Live(dags, head)
<1>0. /\ dags \in [DagId -> DagRow] /\ dags[d] \in DagRow /\ DagId \subseteq Nat
      /\ used \in Nat /\ produced \in Nat /\ fresh \in SUBSET Wu /\ refusal \in BOOLEAN
      /\ all \in SUBSET Wu /\ fresh \cap dags[d].done = {}
  BY RecordPollType, RefusalsType DEF TypeOK, DatabaseOK, DagId, DagRow, NewlyCompleted
<1>1. /\ rows[d].st = st /\ rows[d].dir = dags[d].dir /\ rows[d].done = all
      /\ rows[d].total = dags[d].total /\ rows[d].rnd = dags[d].rnd
      /\ \A e \in DagId : e # d => rows[e] = dags[e]
  BY <1>0 DEF RecordPoll, DagRow
<1>2. d <= used /\ d \in S
  BY <1>0 DEF Counted, Fresh, Live
<1>3. fresh \subseteq 1..dags[d].total /\ all \subseteq 1..dags[d].total
  BY <1>2 DEF Owing, Sized, NewlyCompleted
<1>4. q \in Nat
  BY <1>0, CreditType
<1>5. Sized(rows, used, nodeDone)
  <2>. HIDE DEF rows, all, fresh
  <2>1. \A e \in DagId : rows[e].total = dags[e].total /\ rows[e].dir = dags[e].dir
    BY <1>1
  <2>2. \A e \in DagId : e <= used => rows[e].done \subseteq 1..dags[e].total
    BY <1>1, <1>3 DEF Owing, Sized
  <2>3. \A e \in DagId : e <= used => dags[e].total \in Wu /\ nodeDone[dags[e].dir] \subseteq 1..dags[e].total
    BY DEF Owing, Sized
  <2>4. /\ \A e \in DagId : e > used => dags[e].total = 0 /\ nodeDone[e] = {}
        /\ \A e \in DagId, f \in DagId :
               e <= used /\ f <= used /\ dags[e].dir = dags[f].dir => dags[e].total = dags[f].total
    BY DEF Owing, Sized
  <2>. QED
    BY <2>1, <2>2, <2>3, <2>4 DEF Sized
<1>6. Started(rows)
  <2>. HIDE DEF rows, fresh
  <2>1. \A e \in DagId : (rows[e].st = "active" => dags[e].st = "active") /\ dags[e].done \subseteq rows[e].done
    BY <1>1
  <2>. QED
    BY <2>1 DEF Owing, Started, ActiveDags
<1>7. Cardinality(fresh) \in Nat /\ Cardinality(all) \in Nat
      /\ (Cardinality(fresh) = 0 <=> fresh = {}) /\ (Cardinality(all) = 0 <=> all = {})
  <2>. HIDE DEF fresh, all
  <2>2. IsFiniteSet(fresh) /\ IsFiniteSet(all)
    BY <1>0, FiniteIds, FS_Subset
  <2>. QED
    BY <2>2, FS_CardinalityType, FS_EmptySet
<1>8. \/ q = produced
      \/ q = produced + Cardinality(fresh) /\ ~Discards(dags[d])
      \/ q = Cardinality(all) /\ produced = 0 /\ ~Discards(dags[d])
  <2>1. Throwaway(d) <=> Discards(dags[d])
    BY DEF Throwaway, Discards
  <2>2. Credited(d, refusal) = produced
        \/ (Credited(d, refusal) = produced + Cardinality(fresh) /\ ~Discards(dags[d]))
    BY <2>1 DEF Credited
  <2>. HIDE DEF fresh, all
  <2>3. q = Credited(d, refusal) \/ (q = Cardinality(all) /\ Credited(d, refusal) = 0 /\ ~Discards(dags[d]))
    BY <2>1 DEF CountedAtCompletion, all, fresh
  <2>. QED
    BY <1>0, <1>7, <2>2, <2>3
<1>9. Credits(rows, q)
  <2>. SUFFICES ASSUME "rucio" \notin Faults, NEW e \in DagId, ~Discards(rows[e]), rows[e].done # {}
                PROVE  q > 0
    BY DEF Credits
  <2>1. ~refusal
    BY DEF Refusals
  <2>2. q >= produced
    BY <1>0, <1>7, <1>8
  <2>3. ~Discards(dags[e])
    BY <1>1 DEF Discards
  <2>4. CASE dags[e].done # {}
    BY <1>0, <1>4, <2>2, <2>3, <2>4 DEF Owing, Credits
  <2>5. CASE dags[e].done = {}
    <3>1. e = d /\ fresh # {}
      BY <1>1, <2>5
    <3>2. Credited(d, refusal) = produced + Cardinality(fresh)
      BY <2>1, <2>3, <3>1 DEF Credited, Throwaway, Discards
    <3>. QED
      BY <1>0, <1>7, <3>1, <3>2 DEF CountedAtCompletion
  <2>. QED
    BY <2>4, <2>5
<1>10. q + Cardinality(Owed(rows, S, q)) <= Allowance
  <2>0. produced + Cardinality(Owed(dags, S, produced)) <= Allowance
        /\ Cardinality(Owed(dags, S, produced)) \in Nat /\ Cardinality(Owed(rows, S, q)) \in Nat
        /\ Allowance \in Nat
    BY OwedFinite, AllowanceType DEF Owing
  <2>1. q >= produced
    BY <1>0, <1>7, <1>8
  <2>. HIDE DEF fresh, all, rows, S
  <2>2. \A e \in DagId : e \in S => OwedRow(rows[e], q) \subseteq OwedRow(dags[e], produced)
    <3>1. \A e \in DagId : rows[e].total = dags[e].total /\ rows[e].rnd = dags[e].rnd
                           /\ dags[e].done \subseteq rows[e].done
      BY <1>1 DEF all
    <3>2. q = 0 => produced = 0
      BY <1>0, <2>1
    <3>. QED
      BY <3>1, <3>2 DEF OwedRow, Discards
  <2>3. CASE q = produced
    <3>1. Cardinality(Owed(rows, S, q)) <= Cardinality(Owed(dags, S, produced))
      BY <2>2, OwedLess
    <3>. QED
      BY <1>0, <2>0, <2>3, <3>1
  <2>4. ASSUME NEW F \in SUBSET Wu, Cardinality(F) \in Nat, q = produced + Cardinality(F), q # produced,
               ~Discards(dags[d]), F \subseteq all, produced = 0 \/ F \cap dags[d].done = {}
        PROVE  q + Cardinality(Owed(rows, S, q)) <= Allowance
    <3>1. F \subseteq OwedRow(dags[d], produced)
      BY <1>3, <2>4 DEF OwedRow
    <3>2. F \cap OwedRow(rows[d], q) = {}
      BY <1>0, <1>1, <2>4 DEF OwedRow
    <3>3. Cardinality(F) + Cardinality(Owed(rows, S, q)) <= Cardinality(Owed(dags, S, produced))
      BY <1>2, <2>2, <3>1, <3>2, OwedPaid
    <3>. QED
      BY <1>0, <2>0, <2>4, <3>3
  <2>5. CASE q # produced /\ q = produced + Cardinality(fresh) /\ ~Discards(dags[d])
    BY <1>0, <1>7, <2>4, <2>5 DEF all, fresh
  <2>6. CASE q # produced /\ q = Cardinality(all) /\ produced = 0 /\ ~Discards(dags[d])
    BY <1>0, <1>7, <2>4, <2>6
  <2>. QED
    BY <1>8, <2>3, <2>5, <2>6
<1>11. SameRounds(dags, rows)
  <2>. HIDE DEF rows
  <2>. QED
    BY <1>1 DEF SameRounds
<1>. QED
  BY <1>4, <1>5, <1>6, <1>9, <1>10, <1>11

\* A node that succeeds is a work unit of the directory its row names.
LEMMA SizedFile ==
    ASSUME TypeOK, Fresh(dags, used), Sized(dags, used, nodeDone),
           NEW rows, SameRounds(dags, rows), Sized(rows, used, nodeDone),
           NEW d \in DagId, NEW w \in Wu, WuSucceeds(d, w)
    PROVE  Sized(rows, used, nodeDone')
<1>0. /\ dags[d] \in DagRow /\ nodeDone \in [DagId -> SUBSET Wu] /\ used \in Nat /\ DagId \subseteq Nat
      /\ dags[d].dir \in DagId
  BY DEF TypeOK, DatabaseOK, CondorOK, DagRow, DagId
<1>1. /\ w \in 1..dags[d].total
      /\ nodeDone' = [nodeDone EXCEPT ![dags[d].dir] = @ \cup {w}]
  BY DEF WuSucceeds, WorkUnit
<1>2. d <= used
  <2>1. CASE d > used
    <3>1. dags[d].total = 0
      BY <2>1 DEF Sized
    <3>. QED
      BY <1>1, <3>1
  <2>. QED
    BY <1>0, <2>1
<1>3. dags[d].dir <= used
  BY <1>2 DEF Fresh
<1>4. ASSUME NEW e \in DagId, e <= used
      PROVE  /\ rows[e].total \in Wu /\ rows[e].done \subseteq 1..rows[e].total
             /\ nodeDone'[rows[e].dir] \subseteq 1..rows[e].total
  <2>1. CASE rows[e].dir = dags[d].dir
    <3>1. rows[e].total = dags[d].total
      BY <1>2, <1>4, <2>1 DEF Sized, SameRounds
    <3>2. nodeDone[rows[e].dir] \subseteq 1..rows[e].total
      BY <1>4 DEF Sized
    <3>3. nodeDone'[rows[e].dir] = nodeDone[rows[e].dir] \cup {w}
      BY <1>0, <1>1, <2>1
    <3>. QED
      BY <1>1, <1>4, <3>1, <3>2, <3>3 DEF Sized
  <2>2. CASE rows[e].dir # dags[d].dir
    <3>1. nodeDone'[rows[e].dir] = nodeDone[rows[e].dir]
      BY <1>0, <1>1, <2>2
    <3>. QED
      BY <1>4, <3>1 DEF Sized
  <2>. QED
    BY <2>1, <2>2
<1>5. ASSUME NEW e \in DagId, e > used PROVE rows[e].total = 0 /\ nodeDone'[e] = {}
  <2>1. e # dags[d].dir
    BY <1>0, <1>3, <1>5
  <2>2. nodeDone'[e] = nodeDone[e]
    BY <1>0, <1>1, <2>1
  <2>. QED
    BY <1>5, <2>2 DEF Sized
<1>. QED
  BY <1>4, <1>5 DEF Sized

\* The owed work units after a step, in terms of the variables it leaves.
LEMMA OwingPrimed ==
    /\ Owing(dags', head', used', produced', nodeDone') => Owing(dags, head, used, produced, nodeDone)'
    /\ Owing(snap'.dags, snap'.head, snap'.used, snap'.produced, nodeDone')
           => Owing(snap.dags, snap.head, snap.used, snap.produced, nodeDone)'
    /\ SameRounds(dags', snap'.dags) => SameRounds(dags, snap.dags)'
BY DEF Owing, Sized, Credits, Started, SameRounds, Owed, OwedRow, Discards, ActiveDags, Live, Allowance, CountedEach

\* A step that changes at most the status of rows, none becoming active.
LEMMA OwingSettled ==
    ASSUME TypeOK, OverInv, UNCHANGED <<head, used, produced, nodeDone>>,
           \A d \in DagId :
               /\ dags'[d].dir = dags[d].dir /\ dags'[d].total = dags[d].total
               /\ dags'[d].rnd = dags[d].rnd /\ dags'[d].done = dags[d].done
               /\ dags'[d].st = "active" => dags[d].st = "active"
    PROVE  Owing(dags', head', used', produced', nodeDone')
<1>1. produced \in Nat /\ Owing(dags, head, used, produced, nodeDone)
  BY DEF TypeOK, DatabaseOK, OverInv
<1>2. Started(dags')
  BY <1>1 DEF Owing, Started, ActiveDags
<1>3. \A d \in DagId : dags[d].st = "active" => d \in Live(dags, head)
  BY DEF Live
<1>4. Owing(dags', head, used, produced, nodeDone)
  BY <1>1, <1>2, <1>3, OwingKept
<1>. QED
  BY <1>4

\* A round planned, next to the running ones or alone.
LEMMA OwingPlanRound ==
    ASSUME TypeOK, CountInv, OverInv, NEW rows \in [DagId -> DagRow], PlanRound(rows),
           ActiveDags(dags) = {} \/ MayAdvance,
           \A d \in DagId :
               /\ rows[d].dir = dags[d].dir /\ rows[d].total = dags[d].total
               /\ rows[d].rnd = dags[d].rnd /\ rows[d].done = dags[d].done
               /\ rows[d].st = "active" => dags[d].st = "active"
               /\ dags[d].st = "absent" => rows[d].st = "absent"
    PROVE  Owing(dags', head', used', produced', nodeDone')
<1>1. /\ used + 1 \in DagId /\ PlannedRow("active") \in DagRow
      /\ head \in Nat /\ used \in Nat /\ produced \in Nat /\ head <= used
      /\ Fresh(dags, used) /\ Owing(dags, head, used, produced, nodeDone)
  BY PlannedRowType DEF TypeOK, DatabaseOK, PlanRound, DagStatus, DagId, CountInv, Counted, OverInv
<1>2. /\ PlannedRow("active").dir = used + 1 /\ PlannedRow("active").done = {}
      /\ PlannedRow("active").st = "active" /\ PlannedRow("active").total = RoundSize
  BY DEF PlannedRow
<1>3. RoundSize \in Wu /\ produced + RoundSize <= Target
  BY RoundSizeFits DEF TypeOK, PlanRound
<1>4. ActiveDags(rows) \subseteq ActiveDags(dags)
  BY DEF ActiveDags
<1>5. Owing(rows, head, used, produced, nodeDone)
  <2>1. Started(rows)
    BY <1>1, <1>4 DEF Owing, Started, ActiveDags
  <2>2. \A d \in DagId : dags[d].st = "active" => d \in Live(dags, head)
    BY DEF Live
  <2>. QED
    BY <1>1, <2>1, <2>2, OwingKept
<1>6. Fresh(rows, used)
  BY <1>1 DEF Fresh
<1>7. /\ ActiveDags(rows) = {} \/ Cardinality(ActiveDags(rows)) < MaxConcurrentRounds
      /\ AdvancePercent > 0 => \A d \in ActiveDags(rows) : rows[d].done # {}
  <2>1. CASE ActiveDags(dags) = {}
    BY <1>4, <2>1
  <2>2. CASE MayAdvance
    <3>1. /\ Cardinality(ActiveDags(dags)) < MaxConcurrentRounds
          /\ AdvancePercent > 0 => \A d \in ActiveDags(dags) : dags[d].done # {}
      BY <1>1, <2>2, AllStarted DEF Owing
    <3>2. Cardinality(ActiveDags(rows)) <= Cardinality(ActiveDags(dags))
      BY <1>4, ActiveFinite, FS_Subset
    <3>3. Cardinality(ActiveDags(rows)) \in Nat /\ Cardinality(ActiveDags(dags)) \in Nat
      BY ActiveFinite
    <3>4. \A d \in ActiveDags(rows) : d \in DagId /\ rows[d].done = dags[d].done
      BY DEF ActiveDags
    <3>5. Cardinality(ActiveDags(rows)) < MaxConcurrentRounds
      BY <3>1, <3>2, <3>3, ConstantTypes
    <3>. QED
      BY <1>4, <3>1, <3>4, <3>5
  <2>. QED
    BY <2>1, <2>2
<1>8. Owing([rows EXCEPT ![used + 1] = PlannedRow("active")], used + 1, used + 1, produced, nodeDone)
  <2>. DEFINE new == PlannedRow("active")
  <2>1. new \in DagRow /\ new.st = "active" /\ new.dir = used + 1 /\ new.done = {} /\ new.total \in Wu
        /\ produced + new.total <= Target
    BY <1>1, <1>2, <1>3
  <2>. HIDE DEF new
  <2>2. Owing([rows EXCEPT ![used + 1] = new], used + 1, used + 1, produced, nodeDone)
    BY <1>1, <1>5, <1>6, <1>7, <2>1, OwingPlanned
  <2>. QED
    BY <2>2 DEF new
<1>9. /\ dags' = [rows EXCEPT ![used + 1] = PlannedRow("active")]
      /\ head' = used + 1 /\ used' = used + 1 /\ produced' = produced /\ nodeDone' = nodeDone
  BY DEF PlanRound
<1>. QED
  BY <1>8, <1>9

\* A rescue of the head, outside a poll.
LEMMA OwingHeadRescue ==
    ASSUME TypeOK, CountInv, OverInv, head \in DagId, dags[head].st # "active", used < MaxDags,
           used' = used + 1, head' = used + 1, UNCHANGED <<produced, nodeDone>>,
           dags' = [dags EXCEPT ![used + 1] = RescueRow(dags[head])]
    PROVE  Owing(dags', head', used', produced', nodeDone')
<1>1. /\ dags \in [DagId -> DagRow] /\ used + 1 \in DagId
      /\ head \in Nat /\ used \in Nat /\ produced \in Nat /\ head <= used
      /\ Fresh(dags, used) /\ Owing(dags, head, used, produced, nodeDone)
  BY ConstantTypes DEF TypeOK, DatabaseOK, DagId, CountInv, Counted, OverInv
<1>2. Live(dags, head) \cup {head} = Live(dags, head)
  BY DEF Live
<1>3. /\ Sized(dags, used, nodeDone) /\ Credits(dags, produced) /\ Started(dags)
      /\ produced + Cardinality(Owed(dags, Live(dags, head) \cup {head}, produced)) <= Allowance
  BY <1>1, <1>2 DEF Owing
<1>4. Owing([dags EXCEPT ![used + 1] = RescueRow(dags[head])], used + 1, used + 1, produced, nodeDone)
  BY <1>1, <1>3, OwingRescue
<1>. QED
  BY <1>4

\* One poll of one row.
LEMMA OwingPollStep ==
    ASSUME TypeOK, CountInv, OverInv, NEW d \in DagId, Poll(d)
    PROVE  /\ Owing(dags', head', used', produced', nodeDone')
           /\ Evaluating' => UNCHANGED <<snap, used, nodeDone>> /\ SameRounds(dags, dags')
<1>. USE DEF db, condor, evaluation, Evaluating
<1>0. /\ dags[d].st = "active" /\ Counted(dags, head, used, produced) /\ Fresh(dags, used)
      /\ Owing(dags, head, used, produced, nodeDone) /\ head <= used /\ head \in Nat /\ used \in Nat
      /\ produced \in Nat
  BY DEF Poll, PollNothing, PollRunning, PollCompleted, PollFailed, Polling, CountInv, Counted, OverInv,
     TypeOK, DatabaseOK, DagId
<1>1. ASSUME NEW st \in DagStatus, NEW refusal \in Refusals(d), UNCHANGED <<head, used, nodeDone>>,
             dags' = RecordPoll(d, st),
             produced' \in {Credited(d, refusal), CountedAtCompletion(d, Credited(d, refusal))}
      PROVE  Owing(dags', head', used', produced', nodeDone') /\ SameRounds(dags, dags')
  <2>1. /\ produced' \in Nat /\ Sized(dags', used, nodeDone) /\ Credits(dags', produced') /\ Started(dags')
        /\ produced' + Cardinality(Owed(dags', Live(dags, head), produced')) <= Allowance
        /\ SameRounds(dags, dags')
    BY <1>0, <1>1, OwingPoll
  <2>2. \A e \in Live(dags', head) : e \in Live(dags, head)
    <3>1. Live(RecordPoll(d, st), head) \subseteq Live(dags, head)
      BY <1>0, <1>1, PollCounts, RefusalsType
    <3>. QED
      BY <1>1, <3>1
  <2>3. Cardinality(Owed(dags', Live(dags', head), produced')) <= Cardinality(Owed(dags', Live(dags, head), produced'))
    BY <2>2, OwedLess
  <2>4. produced' + Cardinality(Owed(dags', Live(dags', head), produced')) <= Allowance
    BY <2>1, <2>3, OwedFinite, AllowanceType
  <2>5. Owing(dags', head, used, produced', nodeDone)
    BY <2>1, <2>4 DEF Owing
  <2>. QED
    BY <1>1, <2>1, <2>5
<1>2. CASE PollNothing(d)
  BY <1>0, <1>2 DEF PollNothing, NextPoll, SameRounds
<1>3. CASE PollRunning(d)
  <2>1. PICK refusal \in Refusals(d) : produced' = Credited(d, refusal) /\ NextPoll(d, refused \/ refusal)
    BY <1>3 DEF PollRunning
  <2>2. dags' = RecordPoll(d, "active") /\ UNCHANGED <<head, used, nodeDone>> /\ "active" \in DagStatus
    BY <1>3 DEF PollRunning, DagStatus
  <2>3. Owing(dags', head', used', produced', nodeDone') /\ SameRounds(dags, dags')
    BY <1>1, <2>1, <2>2
  <2>. QED
    BY <2>1, <2>2, <2>3 DEF NextPoll
<1>4. CASE PollCompleted(d)
  <2>1. PICK refusal \in Refusals(d) :
          /\ produced' = CountedAtCompletion(d, Credited(d, refusal))
          /\ IF status' = "active" THEN NextPoll(d, refused \/ refusal) ELSE Commit(refused \/ refusal)
    BY <1>4 DEF PollCompleted
  <2>2. dags' = RecordPoll(d, "completed") /\ UNCHANGED <<head, used, nodeDone>> /\ "completed" \in DagStatus
    BY <1>4 DEF PollCompleted, DagStatus
  <2>3. Owing(dags', head', used', produced', nodeDone') /\ SameRounds(dags, dags')
    BY <1>1, <2>1, <2>2
  <2>. QED
    BY <2>1, <2>2, <2>3 DEF NextPoll, Commit
<1>5. CASE PollFailed(d)
  <2>. DEFINE st == FinalStatus(dags[d].dir)
              rows == RecordPoll(d, st)
  <2>1. PICK refusal \in Refusals(d) : produced' = Credited(d, refusal) /\ Commit(refused \/ refusal)
    BY <1>5 DEF PollFailed
  <2>2. st \in {"partial", "failed"} /\ st \in DagStatus /\ FailureHandling(rows, d) /\ UNCHANGED nodeDone
    BY <1>5 DEF PollFailed, DagStatus
  <2>3. rows \in [DagId -> DagRow] /\ rows[d].st # "active" /\ refusal \in BOOLEAN
    <3>1. refusal \in BOOLEAN /\ rows \in [DagId -> DagRow]
      BY <2>1, <2>2, RefusalsType, RecordPollType
    <3>2. dags \in [DagId -> DagRow]
      BY DEF TypeOK, DatabaseOK
    <3>3. rows[d].st = st
      BY <3>2 DEF RecordPoll, DagRow
    <3>. QED
      BY <3>1, <3>3, <2>2
  <2>. HIDE DEF st
  <2>4. CASE RescueAllowed(rows[d])
    <3>1. used < MaxDags /\ used' = used + 1 /\ head' = used + 1
          /\ dags' = [rows EXCEPT ![used + 1] = RescueRow(rows[d])]
      BY <2>2, <2>4 DEF FailureHandling
    <3>2. /\ produced' \in Nat /\ Sized(rows, used, nodeDone) /\ Credits(rows, produced') /\ Started(rows)
          /\ produced' + Cardinality(Owed(rows, Live(dags, head), produced')) <= Allowance
      BY <1>0, <2>1, <2>2, OwingPoll
    <3>3. d <= used /\ Live(rows, head) \cup {d} \subseteq Live(dags, head) /\ Fresh(rows, used)
      BY <1>0, <2>2, <2>3, PollCounts
    <3>. HIDE DEF rows
    <3>4. Cardinality(Owed(rows, Live(rows, head) \cup {d}, produced'))
            <= Cardinality(Owed(rows, Live(dags, head), produced'))
      BY <3>3, OwedLess
    <3>5. produced' + Cardinality(Owed(rows, Live(rows, head) \cup {d}, produced')) <= Allowance
      BY <3>2, <3>4, OwedFinite, AllowanceType
    <3>6. used + 1 \in DagId
      BY <1>0, <3>1, ConstantTypes DEF DagId
    <3>7. Owing([rows EXCEPT ![used + 1] = RescueRow(rows[d])], used + 1, used + 1, produced', nodeDone)
      BY <1>0, <2>3, <3>2, <3>3, <3>5, <3>6, OwingRescue
    <3>8. Owing(dags', head', used', produced', nodeDone')
      BY <2>2, <3>1, <3>7
    <3>. QED
      BY <2>1, <3>8 DEF Commit
  <2>5. CASE ~RescueAllowed(rows[d])
    <3>1. dags' = RecordPoll(d, st) /\ UNCHANGED <<head, used, nodeDone>>
      BY <2>2, <2>5 DEF FailureHandling
    <3>2. Owing(dags', head', used', produced', nodeDone')
      BY <1>1, <2>1, <2>2, <3>1
    <3>. QED
      BY <2>1, <3>2 DEF Commit
  <2>. QED
    BY <2>4, <2>5
<1>. QED
  BY <1>2, <1>3, <1>4, <1>5 DEF Poll

\* Every step keeps produced and owed events within the allowance.
LEMMA OverStep == TypeOK /\ CountInv /\ OverInv /\ [Next]_vars => OverInv'
<1>. SUFFICES ASSUME TypeOK, CountInv, OverInv, [Next]_vars PROVE OverInv'
  OBVIOUS
<1>. USE DEF db, condor, evaluation
<1>0. /\ dags \in [DagId -> DagRow] /\ \A d \in DagId : dags[d] \in DagRow
      /\ used \in Nat /\ head \in Nat /\ head <= used /\ produced \in Nat
      /\ Owing(dags, head, used, produced, nodeDone) /\ Fresh(dags, used) /\ (head # 0 => head \in DagId)
  BY DEF TypeOK, DatabaseOK, CountInv, Counted, OverInv, DagId
<1>1. ASSUME ~Evaluating', Owing(dags', head', used', produced', nodeDone') PROVE OverInv'
  BY <1>1, OwingPrimed DEF OverInv
<1>2. Idle /\ UNCHANGED evaluation => ~Evaluating'
  BY DEF Idle, Evaluating
<1>3. ASSUME ~Evaluating', UNCHANGED <<dags, head, used, produced, nodeDone>> PROVE OverInv'
  BY <1>0, <1>1, <1>3
<1>4. CASE HandleSubmitted \/ QueuedToActive \/ StoppingRetriesRemove \/ StuckFails \/ ReleaseRequest \/ AbortRequest
  BY <1>2, <1>3, <1>4 DEF HandleSubmitted, QueuedToActive, Queued, StoppingRetriesRemove, Stopping, StuckFails,
     ReleaseRequest, AbortRequest
<1>5. CASE FinishHeld \/ FinishWait \/ Restart
  <2>1. ~Evaluating' /\ UNCHANGED <<dags, head, used, produced, nodeDone>>
    BY <1>5 DEF FinishHeld, FinishWait, Restart, Commit, Evaluating
  <2>. QED
    BY <1>3, <2>1
<1>6. CASE QueuedSubmitRescue
  <2>1. /\ Idle /\ UNCHANGED evaluation /\ UNCHANGED <<head, used, produced, nodeDone>> /\ ActiveDags(dags) = {}
        /\ dags' = [dags EXCEPT ![head].st = "active"] /\ head \in DagId
    BY <1>0, <1>6 DEF QueuedSubmitRescue, Queued, RescuePending
  <2>2. \A d \in DagId : /\ dags'[d].dir = dags[d].dir /\ dags'[d].total = dags[d].total
                         /\ dags'[d].rnd = dags[d].rnd /\ dags'[d].done = dags[d].done
                         /\ dags'[d].st = "active" => d = head
    BY <1>0, <2>1 DEF DagRow, ActiveDags
  <2>3. Started(dags')
    <3>1. \A d \in ActiveDags(dags') : d = head
      BY <2>2 DEF ActiveDags
    <3>. QED
      BY <1>0, <3>1 DEF Started
  <2>4. \A d \in DagId : dags'[d].st = "active" => d \in Live(dags, head)
    BY <2>2 DEF Live
  <2>5. Owing(dags', head, used, produced, nodeDone)
    BY <1>0, <2>2, <2>3, <2>4, OwingKept
  <2>. QED
    BY <1>1, <1>2, <2>1, <2>5
<1>7. CASE QueuedNothingLeft
  <2>0. Idle /\ UNCHANGED evaluation /\ UNCHANGED <<head, used, produced, nodeDone>>
    BY <1>7 DEF QueuedNothingLeft, Queued
  <2>1. UNCHANGED dags \/ (dags' = [dags EXCEPT ![head].st = "failed"] /\ head \in DagId)
    BY <1>0, <1>7 DEF QueuedNothingLeft, RescuePending
  <2>2. \A d \in DagId : /\ dags'[d].dir = dags[d].dir /\ dags'[d].total = dags[d].total
                         /\ dags'[d].rnd = dags[d].rnd /\ dags'[d].done = dags[d].done
                         /\ dags'[d].st = "active" => dags[d].st = "active"
    <3>1. CASE UNCHANGED dags
      BY <3>1
    <3>2. CASE dags' = [dags EXCEPT ![head].st = "failed"] /\ head \in DagId
      BY <1>0, <3>2 DEF DagRow
    <3>. QED
      BY <2>1, <3>1, <3>2
  <2>. QED
    BY <1>1, <1>2, <2>0, <2>2, OwingSettled
<1>8. CASE StoppingDone \/ StuckStopping \/ StopRequest \/ FailRunning \/ FailStopped
  <2>1. Idle /\ UNCHANGED evaluation /\ UNCHANGED <<head, used, produced, nodeDone>>
    BY <1>8 DEF StoppingDone, StuckStopping, Stopping, StopRequest, FailRunning, FailStopped
  <2>2. \A d \in DagId : /\ dags'[d].dir = dags[d].dir /\ dags'[d].total = dags[d].total
                         /\ dags'[d].rnd = dags[d].rnd /\ dags'[d].done = dags[d].done
                         /\ dags'[d].st = "active" => dags[d].st = "active"
    <3>1. CASE StoppingDone
      BY <1>0, <3>1 DEF StoppingDone, FailedRows, DagRow
    <3>2. CASE StuckStopping
      BY <1>0, <3>2 DEF StuckStopping, DagRow
    <3>3. CASE StopRequest \/ FailRunning
      BY <1>0, <3>3 DEF StopRequest, FailRunning, MarkHead, DagRow
    <3>4. CASE FailStopped
      BY <1>0, <3>4 DEF FailStopped, FailedRows, DagRow
    <3>. QED
      BY <1>8, <3>1, <3>2, <3>3, <3>4
  <2>. QED
    BY <1>1, <1>2, <2>1, <2>2, OwingSettled
<1>9. CASE QueuedPlan
  <2>1. Idle /\ UNCHANGED evaluation /\ ActiveDags(dags) = {}
    BY <1>9 DEF QueuedPlan, Queued
  <2>2. CASE PlanRound(dags)
    BY <1>0, <1>1, <1>2, <2>1, <2>2, OwingPlanRound
  <2>3. CASE RescuePending /\ PlanRound([dags EXCEPT ![head].st = "failed"])
    <3>. DEFINE rows == [dags EXCEPT ![head].st = "failed"]
    <3>1. head \in DagId /\ dags[head].st = "ready"
      BY <1>0, <2>3 DEF RescuePending
    <3>2. rows \in [DagId -> DagRow]
      BY <1>0, <3>1 DEF DagRow, DagStatus
    <3>3. \A d \in DagId : /\ rows[d].dir = dags[d].dir /\ rows[d].total = dags[d].total
                           /\ rows[d].rnd = dags[d].rnd /\ rows[d].done = dags[d].done
                           /\ rows[d].st = "active" => dags[d].st = "active"
                           /\ dags[d].st = "absent" => rows[d].st = "absent"
      BY <1>0, <3>1 DEF DagRow
    <3>4. PlanRound(rows)
      BY <2>3
    <3>. HIDE DEF rows
    <3>. QED
      BY <1>1, <1>2, <2>1, <3>2, <3>3, <3>4, OwingPlanRound
  <2>. QED
    BY <1>9, <2>2, <2>3 DEF QueuedPlan
<1>10. CASE HandleResubmitting
  <2>1. Idle /\ UNCHANGED evaluation /\ UNCHANGED <<produced, nodeDone>>
    BY <1>10 DEF HandleResubmitting
  <2>2. CASE head # 0 /\ dags[head].st = "stopped"
    BY <1>0, <1>1, <1>2, <1>10, <2>1, <2>2, OwingHeadRescue DEF HandleResubmitting
  <2>3. CASE ~(head # 0 /\ dags[head].st = "stopped")
    BY <1>2, <1>3, <1>10, <2>1, <2>3 DEF HandleResubmitting
  <2>. QED
    BY <2>2, <2>3
<1>11. CASE ActiveHeadFailed
  <2>1. /\ Idle /\ UNCHANGED evaluation /\ UNCHANGED <<produced, nodeDone>> /\ FailureHandling(dags, head)
        /\ head \in DagId /\ dags[head].st # "active"
    BY <1>0, <1>11 DEF ActiveHeadFailed, HeadFailed
  <2>2. CASE RescueAllowed(dags[head])
    BY <1>1, <1>2, <2>1, <2>2, OwingHeadRescue DEF FailureHandling
  <2>3. CASE ~RescueAllowed(dags[head])
    BY <1>2, <1>3, <2>1, <2>3 DEF FailureHandling
  <2>. QED
    BY <2>2, <2>3
<1>12. CASE ActiveBegin
  <2>1. /\ snap' = [status |-> status, head |-> head, round |-> round,
                    produced |-> produced, dags |-> dags, used |-> used]
        /\ UNCHANGED <<dags, head, used, produced, nodeDone>>
    BY <1>12 DEF ActiveBegin, Begin
  <2>2. Owing(dags', head', used', produced', nodeDone')
    BY <1>0, <2>1
  <2>3. Owing(snap'.dags, snap'.head, snap'.used, snap'.produced, nodeDone')
    BY <1>0, <2>1
  <2>4. snap'.used = used' /\ SameRounds(dags', snap'.dags)
    BY <2>1 DEF SameRounds
  <2>. QED
    BY <2>2, <2>3, <2>4, OwingPrimed DEF OverInv
<1>13. CASE \E d \in DagId : Poll(d)
  <2>1. PICK d \in DagId : Poll(d)
    BY <1>13
  <2>2. Evaluating
    BY <2>1 DEF Poll, PollNothing, PollRunning, PollCompleted, PollFailed, Polling, Evaluating
  <2>3. /\ Owing(dags', head', used', produced', nodeDone')
        /\ Evaluating' => UNCHANGED <<snap, used, nodeDone>> /\ SameRounds(dags, dags')
    BY <2>1, OwingPollStep
  <2>4. ASSUME Evaluating' PROVE OverInv'
    <3>1. Owing(snap'.dags, snap'.head, snap'.used, snap'.produced, nodeDone') /\ snap'.used = used'
          /\ SameRounds(dags', snap'.dags)
      BY <2>2, <2>3, <2>4 DEF OverInv, SameRounds
    <3>. QED
      BY <2>3, <3>1, OwingPrimed DEF OverInv
  <2>. QED
    BY <1>1, <2>3, <2>4
<1>14. CASE FinishTarget
  <2>1. UNCHANGED <<head, used, produced, nodeDone>> /\ ~Evaluating'
    BY <1>14 DEF FinishTarget, Commit, Evaluating
  <2>2. \A d \in DagId : /\ dags'[d].dir = dags[d].dir /\ dags'[d].total = dags[d].total
                         /\ dags'[d].rnd = dags[d].rnd /\ dags'[d].done = dags[d].done
                         /\ dags'[d].st = "active" => dags[d].st = "active"
    BY <1>0, <1>14 DEF FinishTarget, DagRow
  <2>. QED
    BY <1>1, <2>1, <2>2, OwingSettled
<1>15. CASE FinishPlan
  <2>1. ~Evaluating' /\ PlanRound(dags) /\ (ActiveDags(dags) = {} \/ MayAdvance)
    BY <1>15 DEF FinishPlan, Commit, Evaluating
  <2>. QED
    BY <1>0, <1>1, <2>1, OwingPlanRound
<1>16. CASE FinishPlanFails
  <2>1. ~Evaluating' /\ UNCHANGED <<head, produced, nodeDone>> /\ ~TargetReached
    BY <1>16 DEF FinishPlanFails, Commit, Evaluating
  <2>2. CASE UNCHANGED <<dags, used>>
    BY <1>3, <2>1, <2>2
  <2>3. CASE used < MaxDags /\ used' = used + 1 /\ dags' = [dags EXCEPT ![used + 1] = PlannedRow("ready")]
    <3>. DEFINE new == PlannedRow("ready")
    <3>1. used + 1 \in DagId /\ new \in DagRow /\ RoundSize \in Wu
      BY <2>1, <2>3, PlannedRowType, RoundSizeFits DEF TypeOK, DagStatus
    <3>2. new.st # "active" /\ new.dir = used + 1 /\ new.done = {} /\ new.total \in Wu
      BY <3>1 DEF PlannedRow
    <3>3. dags' = [dags EXCEPT ![used + 1] = new]
      BY <2>3
    <3>. HIDE DEF new
    <3>4. Owing([dags EXCEPT ![used + 1] = new], head, used + 1, produced, nodeDone)
      BY <1>0, <3>1, <3>2, OwingFreshRow
    <3>. QED
      BY <1>1, <2>1, <2>3, <3>3, <3>4
  <2>. QED
    BY <1>16, <2>2, <2>3 DEF FinishPlanFails
<1>17. CASE Crash
  <2>1. Owing(snap.dags, snap.head, snap.used, snap.produced, nodeDone)
    BY <1>17 DEF Crash, OverInv
  <2>2. Owing(dags', head', used', produced', nodeDone')
    BY <1>17, <2>1 DEF Crash
  <2>3. ~Evaluating'
    BY <1>17 DEF Crash, Evaluating
  <2>. QED
    BY <1>1, <2>2, <2>3
<1>18. CASE UNCHANGED <<db, evaluation, nodeDone>>
  <2>1. Owing(dags', head', used', produced', nodeDone')
    BY <1>0, <1>18
  <2>2. Evaluating => Owing(snap'.dags, snap'.head, snap'.used, snap'.produced, nodeDone')
                      /\ snap'.used = used' /\ SameRounds(dags', snap'.dags)
    BY <1>18 DEF OverInv
  <2>. QED
    BY <1>18, <2>1, <2>2, OwingPrimed DEF OverInv, Evaluating
<1>19. ASSUME NEW d \in DagId, NEW w \in Wu, WuSucceeds(d, w) PROVE OverInv'
  <2>1. UNCHANGED <<db, evaluation>>
    BY <1>19 DEF WuSucceeds
  <2>2. SameRounds(dags, dags) /\ Sized(dags, used, nodeDone)
    BY <1>0 DEF SameRounds, Owing
  <2>3. Sized(dags, used, nodeDone')
    BY <1>0, <1>19, <2>2, SizedFile
  <2>4. Owing(dags', head', used', produced', nodeDone')
    BY <1>0, <2>1, <2>3 DEF Owing
  <2>5. ASSUME Evaluating
        PROVE  /\ Owing(snap'.dags, snap'.head, snap'.used, snap'.produced, nodeDone')
               /\ snap'.used = used' /\ SameRounds(dags', snap'.dags)
    <3>1. Owing(snap.dags, snap.head, snap.used, snap.produced, nodeDone) /\ snap.used = used
          /\ SameRounds(dags, snap.dags)
      BY <2>5 DEF OverInv
    <3>2. Sized(snap.dags, used, nodeDone)
      BY <3>1 DEF Owing
    <3>3. Sized(snap.dags, used, nodeDone')
      BY <1>0, <1>19, <2>2, <3>1, <3>2, SizedFile
    <3>4. Owing(snap.dags, snap.head, snap.used, snap.produced, nodeDone')
      BY <3>1, <3>3 DEF Owing
    <3>. QED
      BY <2>1, <3>1, <3>4
  <2>. QED
    BY <2>1, <2>4, <2>5, OwingPrimed DEF OverInv, Evaluating
<1>20. CASE Condor
  BY <1>18, <1>19, <1>20 DEF Condor, WuFails, DagmanExits, DagmanRemoved, LeavesQueue, DagmanLost, DagmanStep
<1>21. CASE UNCHANGED vars
  BY <1>18, <1>21 DEF vars
<1>. QED
  BY <1>4, <1>5, <1>6, <1>7, <1>8, <1>9, <1>10, <1>11, <1>12, <1>13, <1>14, <1>15, <1>16, <1>17, <1>20, <1>21
     DEF Next, Lifecycle, Operator, Finish

\* Nothing is planned at first, so nothing is owed.
LEMMA OverInit == Init => OverInv
<1>. SUFFICES ASSUME Init PROVE OverInv
  OBVIOUS
<1>1. /\ \A d \in DagId : dags[d] = NoDag /\ nodeDone[d] = {} /\ d \in Nat /\ d > 0
      /\ head = 0 /\ used = 0 /\ produced = 0
  BY DEF Init, DagId
<1>2. Sized(dags, used, nodeDone) /\ Credits(dags, produced) /\ Started(dags)
  BY <1>1 DEF Sized, Credits, Started, ActiveDags, NoDag
<1>3. Owed(dags, Live(dags, head), produced) = {}
  BY <1>1 DEF Owed, Live, NoDag
<1>4. produced + Cardinality(Owed(dags, Live(dags, head), produced)) <= Allowance
  BY <1>1, <1>3, FS_EmptySet, AllowanceType
<1>. QED
  BY <1>2, <1>4 DEF Init, OverInv, Owing, Evaluating

\* DD-20: overproduction is bounded, whatever rounds overlap, are rescued,
\* stopped, rolled back or repaired: no more than the target and, for each of
\* the other rounds in flight, a round less the work unit it has counted.
THEOREM OverproductionCorrect == Spec => []OverproductionBounded
<1>1. Init => TypeOK /\ CountInv /\ OverInv
  BY TypeInit, CountInit, OverInit
<1>2. TypeOK /\ CountInv /\ OverInv /\ [Next]_vars => (TypeOK /\ CountInv /\ OverInv)'
  BY TypeStep, CountStep, OverStep
<1>3. TypeOK /\ CountInv /\ OverInv => OverproductionBounded
  <2>. SUFFICES ASSUME TypeOK, OverInv PROVE produced <= Allowance
    BY DEF OverproductionBounded, Allowance, CountedEach
  <2>. QED
    BY OwedFinite, AllowanceType DEF OverInv, Owing, TypeOK, DatabaseOK
<1>. QED
  BY <1>1, <1>2, <1>3, PTL DEF Spec

-------------------------------------------------------------------------------
(* What clients see, in and out of an evaluation.                             *)

\* Between evaluations the rows are the committed ones.
LEMMA IdleView ==
    ASSUME ~Evaluating
    PROVE  /\ Committed.status = status /\ Committed.produced = produced
           /\ Committed.round = round /\ Committed.dags = dags
BY DEF Committed

\* In an evaluation they are those of its beginning.
LEMMA EvaluatingView ==
    ASSUME Evaluating PROVE Committed = snap
BY DEF Committed

-------------------------------------------------------------------------------
(* Within an evaluation rows only end and events are only added; rows are     *)
(* created, and rounds planned, by its last step.                             *)

EvaluationAdds ==
    Evaluating =>
        /\ \A d \in todo : dags[d].st = "active"
        /\ round = snap.round /\ used = snap.used
        /\ produced >= snap.produced
        /\ \A d \in DagId :
              \/ dags[d].st = snap.dags[d].st
              \/ snap.dags[d].st = "active" /\ dags[d].st \in Ended

RefinementInv == ManagedIInv /\ EvaluationAdds

\* A poll ends the row it is about, at most.
LEMMA PollEnds ==
    ASSUME TypeOK, NEW d \in DagId, NEW st
    PROVE  \A e \in DagId : RecordPoll(d, st)[e].st = IF e = d THEN st ELSE dags[e].st
BY DEF RecordPoll, TypeOK, DatabaseOK, DagRow

\* What a poll credits is added to what was counted.
LEMMA CreditAdds ==
    ASSUME TypeOK, NEW d \in DagId, NEW refusal \in BOOLEAN
    PROVE  /\ Credited(d, refusal) \in Nat /\ Credited(d, refusal) >= produced
           /\ CountedAtCompletion(d, Credited(d, refusal)) >= produced
<1>1. NewlyCompleted(d) \in SUBSET Wu /\ dags[d].done \in SUBSET Wu
  BY DEF TypeOK, DatabaseOK, CondorOK, NewlyCompleted, DagRow
<1>2. Cardinality(NewlyCompleted(d)) \in Nat
      /\ Cardinality(dags[d].done \cup NewlyCompleted(d)) \in Nat
  BY <1>1, WuCardinality
<1>3. produced \in Nat
  BY DEF TypeOK, DatabaseOK
<1>4. Credited(d, refusal) \in Nat /\ Credited(d, refusal) >= produced
  BY <1>2, <1>3 DEF Credited
<1>. QED
  BY <1>2, <1>3, <1>4 DEF CountedAtCompletion

\* An evaluation goes on ending rows and adding events.
LEMMA EvaluationAddsStep == RefinementInv /\ [Next]_vars => EvaluationAdds'
<1>. SUFFICES ASSUME RefinementInv, [Next]_vars, Evaluating' PROVE EvaluationAdds'
  BY DEF EvaluationAdds
<1>. USE DEF db, condor, evaluation
<1>1. CASE ActiveBegin
  <2>1. /\ snap' = [status |-> status, head |-> head, round |-> round,
                    produced |-> produced, dags |-> dags, used |-> used]
        /\ UNCHANGED db /\ todo' = ActiveDags(dags)
    BY <1>1 DEF ActiveBegin, Begin
  <2>2. produced \in Nat
    BY DEF RefinementInv, ManagedIInv, TypeOK, DatabaseOK
  <2>. QED
    BY <2>1, <2>2 DEF EvaluationAdds, ActiveDags
<1>2. ASSUME NEW d \in DagId, Poll(d) PROVE EvaluationAdds'
  <2>1. /\ Evaluating /\ UNCHANGED snap /\ UNCHANGED <<round, used>>
        /\ todo' \subseteq todo \ {d}
        /\ UNCHANGED <<dags, produced>> \/ PollRunning(d) \/ PollCompleted(d)
    BY <1>2 DEF Poll, PollNothing, PollRunning, PollCompleted, PollFailed, Polling, NextPoll,
       Commit, Evaluating
  <2>2. CASE UNCHANGED <<dags, produced>>
    BY <2>1, <2>2 DEF EvaluationAdds, RefinementInv
  <2>3. CASE PollRunning(d) \/ PollCompleted(d)
    <3>1. d \in todo /\ Refusals(d) \subseteq BOOLEAN /\ produced \in Nat /\ snap.produced \in Nat
      BY <2>3, RefusalsType DEF PollRunning, PollCompleted, Polling, RefinementInv, ManagedIInv,
         TypeOK, DatabaseOK, EvaluationOK, Database
    <3>2. produced' >= produced /\ produced' \in Nat
      <4>1. PICK refusal \in Refusals(d) : \/ produced' = Credited(d, refusal)
                                            \/ produced' = CountedAtCompletion(d, Credited(d, refusal))
        BY <2>3 DEF PollRunning, PollCompleted
      <4>. QED
        BY <3>1, <4>1, CreditAdds, CreditType DEF RefinementInv, ManagedIInv
    <3>3. PICK st \in {"active", "completed"} :
             dags' = RecordPoll(d, st) /\ (st = "active" => job[d] = "alive")
      BY <2>3 DEF PollRunning, PollCompleted
    <3>4. \A e \in DagId : dags'[e].st = IF e = d THEN st ELSE dags[e].st
      BY <3>3, PollEnds DEF RefinementInv, ManagedIInv
    <3>5. dags[d].st = "active"
      BY <2>1, <3>1 DEF EvaluationAdds, RefinementInv
    <3>6. \A e \in DagId : \/ dags'[e].st = dags[e].st
                           \/ dags[e].st = "active" /\ dags'[e].st \in Ended
      BY <3>3, <3>4, <3>5 DEF Ended
    <3>7. \A e \in todo' : dags'[e].st = "active"
      <4>1. todo' \subseteq DagId
        BY <2>1 DEF RefinementInv, ManagedIInv, TypeOK, EvaluationOK
      <4>. QED
        BY <2>1, <3>4, <4>1 DEF EvaluationAdds, RefinementInv
    <3>. QED
      BY <2>1, <3>1, <3>2, <3>6, <3>7 DEF EvaluationAdds, RefinementInv, Ended
  <2>. QED
    BY <2>1, <2>2, <2>3
<1>3. CASE Condor \/ UNCHANGED vars
  <2>1. Evaluating /\ UNCHANGED <<db, snap, todo>>
    BY <1>3 DEF Condor, vars, Evaluating, WuSucceeds, WuFails, DagmanExits, DagmanRemoved,
       LeavesQueue, DagmanLost, DagmanStep
  <2>. QED
    BY <2>1 DEF EvaluationAdds, RefinementInv
<1>4. ~Finish /\ ~Crash /\ ~Restart
  BY DEF Finish, FinishHeld, FinishTarget, FinishPlan, FinishWait, FinishPlanFails, Commit,
     Crash, Restart, Evaluating
<1>5. ~HandleSubmitted /\ ~QueuedToActive /\ ~QueuedSubmitRescue /\ ~QueuedPlan /\ ~QueuedNothingLeft
      /\ ~HandleResubmitting /\ ~StoppingRetriesRemove /\ ~StoppingDone /\ ~ActiveHeadFailed
      /\ ~StuckFails /\ ~StuckStopping /\ ~Operator
  BY DEF HandleSubmitted, QueuedToActive, QueuedSubmitRescue, QueuedPlan, QueuedNothingLeft, Queued,
     HandleResubmitting, StoppingRetriesRemove, StoppingDone, Stopping, ActiveHeadFailed, StuckFails,
     StuckStopping, Operator, StopRequest, ReleaseRequest, FailRunning, FailStopped, AbortRequest,
     Idle, Evaluating
<1>. QED
  BY <1>1, <1>2, <1>3, <1>4, <1>5 DEF Next, Lifecycle
-------------------------------------------------------------------------------
(* How a change of the rows looks to clients.                                 *)

\* Outside of S rows end, stay as they are, or are not submitted yet.
OnlyEnds(old, new, S) ==
    \A d \in DagId \ S : \/ new[d].st \in Ended
                         \/ new[d].st = old[d].st
                         \/ {old[d].st, new[d].st} \subseteq {"absent", "ready"}

\* What ends rows in two steps ends them.
LEMMA OnlyEndsTransitive ==
    ASSUME NEW a, NEW b, NEW c, NEW S, OnlyEnds(a, b, {}), OnlyEnds(b, c, S)
    PROVE  OnlyEnds(a, c, S)
BY DEF OnlyEnds, Ended

\* What an evaluation did to the rows before its last step.
LEMMA EvaluationEnds ==
    ASSUME RefinementInv, Evaluating
    PROVE  /\ Committed.status = "active" /\ Committed.round = round
           /\ Committed.produced \in Nat /\ Committed.produced <= produced
           /\ OnlyEnds(Committed.dags, dags, {})
<1>1. snap.produced \in Nat /\ produced \in Nat
  BY DEF RefinementInv, ManagedIInv, TypeOK, DatabaseOK, EvaluationOK, Database
<1>. QED
  BY <1>1, EvaluatingView DEF RefinementInv, ManagedIInv, EvaluationInv, EvaluationAdds, OnlyEnds

\* The abstract view of a step that ends some rows.
LEMMA SeenAsRowsEnd ==
    ASSUME OnlyEnds(Committed.dags, Committed'.dags, {}) PROVE SM!RowsEnd
BY DEF SM!RowsEnd, OnlyEnds, ActiveDags, Ended

\* The abstract view of a step that starts a row.
LEMMA SeenAsRowStarts ==
    ASSUME NEW r \in DagId, Committed.dags[r].st \in {"absent", "ready"}, Committed'.dags[r].st = "active",
           OnlyEnds(Committed.dags, Committed'.dags, {r})
    PROVE  SM!RowStarts
<1>. DEFINE active == ActiveDags(Committed.dags)
            over == {d \in DagId : Committed.dags[d].st \in Ended}
<1>1. r \in DagId \ (active \cup over)
  BY DEF ActiveDags, Ended
<1>2. active' \subseteq active \cup {r} /\ r \in active' /\ r \notin over'
  BY DEF OnlyEnds, ActiveDags, Ended
<1>3. (active \ active') \cup over \subseteq over'
  BY DEF OnlyEnds, ActiveDags, Ended
<1>. QED
  BY <1>1, <1>2, <1>3 DEF SM!RowStarts

\* The abstract view of a step that leaves the rows.
LEMMA SeenAsRowsStay ==
    ASSUME \A d \in DagId : Committed'.dags[d].st = Committed.dags[d].st PROVE SM!RowsStay
BY DEF SM!RowsStay, ActiveDags

\* The abstract view of a step inside an evaluation.
LEMMA SeenAsNothing ==
    ASSUME Committed'.status = Committed.status, Committed'.produced = Committed.produced,
           Committed'.round = Committed.round,
           \A d \in DagId : Committed'.dags[d].st = Committed.dags[d].st
    PROVE  UNCHANGED SM!public
BY SeenAsRowsStay DEF SM!public, SM!RowsStay
-------------------------------------------------------------------------------
(* What the operators that create rows do to them.                            *)

\* A rescue row replaces no row, and is not submitted yet.
LEMMA FailureHandlingRows ==
    ASSUME TypeOK, NEW d, NEW rows \in [DagId -> DagRow], FailureHandling(rows, d),
           used + 1 \in DagId => rows[used + 1].st = "absent"
    PROVE  status' \in {"held", "resubmitting"} /\ OnlyEnds(rows, dags', {})
BY DEF FailureHandling, OnlyEnds, RescueRow

\* A new round is a row that was absent, for events that are missing.
LEMMA PlanRoundRows ==
    ASSUME ManagedIInv, NEW rows \in [DagId -> DagRow], PlanRound(rows), OnlyEnds(dags, rows, {}),
           rows[used + 1].st = dags[used + 1].st
    PROVE  /\ used + 1 \in DagId /\ dags[used + 1].st = "absent" /\ dags'[used + 1].st = "active"
           /\ OnlyEnds(dags, dags', {used + 1})
           /\ round' = round + 1 /\ produced' = produced /\ produced < Target
<1>1. used \in Nat /\ produced \in Nat /\ used + 1 \in DagId
  BY ConstantTypes DEF ManagedIInv, TypeOK, DatabaseOK, PlanRound, DagId
<1>2. dags[used + 1].st = "absent"
  BY <1>1 DEF ManagedIInv, ManagedInv, Unused
<1>3. dags' = [rows EXCEPT ![used + 1] = PlannedRow("active")] /\ PlannedRow("active").st = "active"
  BY DEF PlanRound, PlannedRow
<1>4. dags'[used + 1].st = "active" /\ \A d \in DagId \ {used + 1} : dags'[d] = rows[d]
  BY <1>1, <1>3
<1>5. OnlyEnds(dags, dags', {used + 1})
  BY <1>4 DEF OnlyEnds
<1>. QED
  BY <1>1, <1>2, <1>4, <1>5, ConstantTypes DEF PlanRound, TargetReached

-------------------------------------------------------------------------------
(* The steps of the handlers that are no evaluation of an ACTIVE request.     *)

\* Between evaluations a step is seen as it is.
LEMMA HandlerStep ==
    ASSUME RefinementInv, ~Evaluating, ~Evaluating',
           \/ HandleSubmitted \/ QueuedToActive \/ QueuedSubmitRescue \/ QueuedPlan
           \/ QueuedNothingLeft \/ HandleResubmitting \/ StoppingRetriesRemove \/ StoppingDone
           \/ ActiveHeadFailed \/ StuckFails \/ StuckStopping
    PROVE  [SM!Next]_(SM!public)
<1>1. /\ Committed.status = status /\ Committed.produced = produced
      /\ Committed.round = round /\ Committed.dags = dags
  BY IdleView
<1>2. /\ Committed'.status = status' /\ Committed'.produced = produced'
      /\ Committed'.round = round' /\ Committed'.dags = dags'
  BY DEF Committed
<1>3. /\ TypeOK /\ produced \in Nat /\ used \in Nat /\ dags \in [DagId -> DagRow]
      /\ head \in DagId \cup {0}
      /\ (used + 1 \in DagId => dags[used + 1].st = "absent")
  BY DEF RefinementInv, ManagedIInv, ManagedInv, Unused, TypeOK, DatabaseOK
<1>. USE DEF db
<1>4. CASE HandleSubmitted
  <2>1. SM!RowsStay
    BY <1>1, <1>2, <1>4, SeenAsRowsStay DEF HandleSubmitted
  <2>. QED
    BY <1>1, <1>2, <1>4, <2>1 DEF HandleSubmitted, SM!Next, SM!Enqueued, SM!Moves
<1>5. CASE QueuedToActive
  <2>1. SM!RowsStay
    BY <1>1, <1>2, <1>5, SeenAsRowsStay DEF QueuedToActive
  <2>. QED
    BY <1>1, <1>2, <1>5, <2>1 DEF QueuedToActive, Queued, SM!Next, SM!Admitted, SM!Moves
<1>6. CASE QueuedSubmitRescue
  <2>1. head \in DagId /\ dags[head].st = "ready" /\ dags'[head].st = "active"
        /\ \A d \in DagId \ {head} : dags'[d] = dags[d]
    BY <1>3, <1>6 DEF QueuedSubmitRescue, RescuePending, DagRow
  <2>2. SM!RowStarts
    BY <1>1, <1>2, <2>1, SeenAsRowStarts DEF OnlyEnds
  <2>. QED
    BY <1>1, <1>2, <1>6, <2>2 DEF QueuedSubmitRescue, Queued, SM!Next, SM!Admitted, SM!Moves
<1>7. CASE QueuedPlan
  <2>1. PICK rows \in [DagId -> DagRow] :
           PlanRound(rows) /\ OnlyEnds(dags, rows, {}) /\ rows[used + 1].st = dags[used + 1].st
    <3>1. CASE PlanRound(dags)
      BY <1>3, <3>1 DEF OnlyEnds
    <3>2. CASE RescuePending /\ PlanRound([dags EXCEPT ![head].st = "failed"])
      <4>1. head \in DagId /\ dags[head].st = "ready" /\ used + 1 \in DagId
        BY <1>3, <3>2, ConstantTypes DEF RescuePending, PlanRound, DagId, TypeOK, DatabaseOK
      <4>2. [dags EXCEPT ![head].st = "failed"] \in [DagId -> DagRow]
        BY <1>3, <4>1 DEF DagRow, DagStatus
      <4>3. [dags EXCEPT ![head].st = "failed"][used + 1] = dags[used + 1]
        BY <1>3, <4>1
      <4>4. OnlyEnds(dags, [dags EXCEPT ![head].st = "failed"], {})
        BY <1>3, <4>1 DEF OnlyEnds, Ended, DagRow
      <4>. QED
        BY <3>2, <4>2, <4>3, <4>4
    <3>. QED
      BY <1>7, <3>1, <3>2 DEF QueuedPlan
  <2>2. /\ used + 1 \in DagId /\ dags[used + 1].st = "absent" /\ dags'[used + 1].st = "active"
        /\ OnlyEnds(dags, dags', {used + 1})
        /\ round' = round + 1 /\ produced' = produced /\ produced < Target
    BY <2>1, PlanRoundRows DEF RefinementInv
  <2>3. SM!RowStarts
    BY <1>1, <1>2, <2>2, SeenAsRowStarts
  <2>. QED
    BY <1>1, <1>2, <1>7, <2>2, <2>3 DEF QueuedPlan, Queued, SM!Next, SM!Admitted, SM!Moves, SM!RoundStarts
<1>8. CASE QueuedNothingLeft
  <2>1. OnlyEnds(dags, dags', {})
    <3>1. \/ UNCHANGED dags
          \/ head \in DagId /\ dags' = [dags EXCEPT ![head].st = "failed"]
      BY <1>3, <1>8 DEF QueuedNothingLeft, RescuePending
    <3>. QED
      BY <1>3, <3>1 DEF OnlyEnds, Ended, DagRow
  <2>2. SM!RowsEnd
    BY <1>1, <1>2, <2>1, SeenAsRowsEnd
  <2>. QED
    BY <1>1, <1>2, <1>8, <2>2 DEF QueuedNothingLeft, Queued, TargetReached, SM!Next, SM!NothingLeft, SM!Moves
<1>9. CASE HandleResubmitting
  <2>1. \A d \in DagId : {dags[d].st, dags'[d].st} \subseteq {"absent", "ready"} \/ dags'[d].st = dags[d].st
    BY <1>3, <1>9 DEF HandleResubmitting, RescueRow
  <2>2. SM!RowsStay
    BY <1>1, <1>2, <2>1 DEF SM!RowsStay, ActiveDags, Ended
  <2>. QED
    BY <1>1, <1>2, <1>9, <2>2 DEF HandleResubmitting, SM!Next, SM!Enqueued, SM!Moves
<1>10. CASE StoppingRetriesRemove
  BY <1>1, <1>2, <1>10, SeenAsNothing DEF StoppingRetriesRemove
<1>11. CASE StoppingDone
  <2>1. \A d \in DagId : dags'[d].st # "active" /\ (dags'[d].st \in Ended \/ dags'[d] = dags[d])
    <3>1. \/ dags' = FailedRows(dags)
          \/ dags' = [d \in DagId |-> IF dags[d].st = "active"
                                       THEN [dags[d] EXCEPT !.st = "stopped"] ELSE dags[d]]
      BY <1>11 DEF StoppingDone
    <3>. QED
      BY <1>3, <3>1 DEF FailedRows, Ended, DagRow
  <2>2. SM!RowsEnd
    BY <1>1, <1>2, <2>1, SeenAsRowsEnd DEF OnlyEnds
  <2>3. ActiveDags(Committed'.dags) = {}
    BY <1>2, <2>1 DEF ActiveDags
  <2>. QED
    BY <1>1, <1>2, <1>11, <2>2, <2>3 DEF StoppingDone, Stopping, SM!Next, SM!Stopped, SM!Moves
<1>12. CASE ActiveHeadFailed
  <2>1. status' \in {"held", "resubmitting"} /\ OnlyEnds(dags, dags', {})
    BY <1>3, <1>12, FailureHandlingRows DEF ActiveHeadFailed
  <2>2. SM!RowsEnd
    BY <1>1, <1>2, <2>1, SeenAsRowsEnd
  <2>. QED
    BY <1>1, <1>2, <1>3, <1>12, <2>1, <2>2 DEF ActiveHeadFailed, SM!Next, SM!Evaluated
<1>13. CASE StuckFails
  <2>1. SM!RowsStay
    BY <1>1, <1>2, <1>13, SeenAsRowsStay DEF StuckFails
  <2>. QED
    BY <1>1, <1>2, <1>13, <2>1 DEF StuckFails, SM!Next, SM!TimedOut, SM!Moves
<1>14. CASE StuckStopping
  <2>1. \A d \in DagId : dags'[d].st = dags[d].st
    BY <1>3, <1>14 DEF StuckStopping, DagRow
  <2>. QED
    BY <1>1, <1>2, <1>14, <2>1, SeenAsNothing DEF StuckStopping
<1>. QED
  BY <1>4, <1>5, <1>6, <1>7, <1>8, <1>9, <1>10, <1>11, <1>12, <1>13, <1>14

\* The operator's calls are between two evaluations.
LEMMA OperatorStep ==
    ASSUME RefinementInv, Operator
    PROVE  SM!Next
<1>1. ~Evaluating /\ ~Evaluating'
  BY DEF Operator, StopRequest, ReleaseRequest, FailRunning, FailStopped, AbortRequest, Idle,
     Evaluating, evaluation
<1>2. /\ Committed.status = status /\ Committed.produced = produced
      /\ Committed.round = round /\ Committed.dags = dags
  BY <1>1, IdleView
<1>3. /\ Committed'.status = status' /\ Committed'.produced = produced'
      /\ Committed'.round = round' /\ Committed'.dags = dags'
  BY <1>1 DEF Committed
<1>4. TypeOK /\ dags \in [DagId -> DagRow] /\ head \in DagId \cup {0}
  BY DEF RefinementInv, ManagedIInv, TypeOK, DatabaseOK
<1>5. CASE StopRequest \/ FailRunning
  <2>1. \A d \in DagId : dags'[d].st = dags[d].st
    BY <1>4, <1>5 DEF StopRequest, FailRunning, MarkHead, DagRow
  <2>2. SM!RowsStay
    BY <1>2, <1>3, <2>1, SeenAsRowsStay
  <2>. QED
    BY <1>2, <1>3, <1>5, <2>2 DEF StopRequest, FailRunning, SM!Next, SM!StopAsked, SM!Moves
<1>6. CASE ReleaseRequest \/ AbortRequest
  <2>1. SM!RowsStay
    BY <1>2, <1>3, <1>6, SeenAsRowsStay DEF ReleaseRequest, AbortRequest
  <2>2. CASE ReleaseRequest
    BY <1>2, <1>3, <2>1, <2>2 DEF ReleaseRequest, SM!Next, SM!Released, SM!Moves
  <2>3. CASE AbortRequest
    BY <1>2, <1>3, <2>1, <2>3 DEF AbortRequest, Terminal, SM!Next, SM!Aborted, SM!Terminal
  <2>. QED
    BY <1>6, <2>2, <2>3
<1>7. CASE FailStopped
  <2>1. \A d \in DagId : dags'[d].st # "active" /\ (dags'[d].st \in Ended \/ dags'[d] = dags[d])
    BY <1>4, <1>7 DEF FailStopped, FailedRows, Ended, DagRow
  <2>2. SM!RowsEnd
    BY <1>2, <1>3, <2>1, SeenAsRowsEnd DEF OnlyEnds
  <2>3. ActiveDags(Committed'.dags) = {}
    BY <1>3, <2>1 DEF ActiveDags
  <2>. QED
    BY <1>2, <1>3, <1>7, <2>2, <2>3 DEF FailStopped, SM!Next, SM!Failed, SM!Moves
<1>. QED
  BY <1>5, <1>6, <1>7 DEF Operator

-------------------------------------------------------------------------------
(* The steps of an evaluation: only its last one is seen.                     *)

\* What a commit of an evaluation is seen as, but for a new round.
LEMMA SeenAsEvaluated ==
    ASSUME RefinementInv, Evaluating, pc' = "idle", OnlyEnds(dags, dags', {}),
           round' = round, produced' >= produced, produced' \in Nat,
           \/ status' \in {"active", "held", "resubmitting"}
           \/ status' = "queued" /\ ActiveDags(dags') = {} /\ produced' < Target
           \/ status' = "completed" /\ ActiveDags(dags') = {} /\ produced' >= Target
    PROVE  SM!Next
<1>1. /\ Committed'.status = status' /\ Committed'.produced = produced'
      /\ Committed'.round = round' /\ Committed'.dags = dags'
  BY DEF Committed, Evaluating
<1>2. /\ Committed.status = "active" /\ Committed.round = round
      /\ Committed.produced \in Nat /\ Committed.produced <= produced
      /\ OnlyEnds(Committed.dags, dags, {}) /\ produced \in Nat
  BY EvaluationEnds DEF RefinementInv, ManagedIInv, TypeOK, DatabaseOK
<1>3. SM!RowsEnd
  BY <1>1, <1>2, OnlyEndsTransitive, SeenAsRowsEnd
<1>4. Committed'.produced >= Committed.produced
  BY <1>1, <1>2
<1>. QED
  BY <1>1, <1>2, <1>3, <1>4 DEF SM!Next, SM!Evaluated

\* A poll is seen when it ends the evaluation.
LEMMA PollStep ==
    ASSUME RefinementInv, NEW d \in DagId, Poll(d)
    PROVE  [SM!Next]_(SM!public)
<1>1. Evaluating /\ d \in todo /\ dags[d].st = "active" /\ UNCHANGED round
  BY DEF Poll, PollNothing, PollRunning, PollCompleted, PollFailed, Polling, RefinementInv,
     EvaluationAdds, Evaluating, db
<1>2. TypeOK /\ produced \in Nat /\ status \in {"active", "held"} /\ Refusals(d) \subseteq BOOLEAN
  BY <1>1, RefusalsType DEF RefinementInv, ManagedIInv, TypeOK, DatabaseOK, EvaluationInv
<1>3. CASE \E isRefused : NextPoll(d, isRefused)
  <2>1. Evaluating' /\ UNCHANGED snap
    BY <1>3 DEF NextPoll, Evaluating
  <2>2. Committed = snap /\ Committed' = snap'
    BY <1>1, <2>1 DEF Committed
  <2>. QED
    BY <2>1, <2>2, SeenAsNothing
<1>4. CASE PollCompleted(d) /\ \E isRefused : Commit(isRefused)
  <2>1. dags' = RecordPoll(d, "completed")
    BY <1>4 DEF PollCompleted
  <2>2. OnlyEnds(dags, dags', {})
    BY <1>2, <2>1, PollEnds DEF OnlyEnds, Ended
  <2>3. PICK refusal \in Refusals(d) :
           /\ produced' = CountedAtCompletion(d, Credited(d, refusal))
           /\ status' = AfterRound(dags', produced', IF refusal THEN "held" ELSE status)
    BY <1>4 DEF PollCompleted
  <2>4. produced' \in Nat /\ produced' >= produced
    BY <1>2, <2>3, CreditAdds, CreditType
  <2>5. \/ status' \in {"active", "held", "resubmitting"}
        \/ status' = "queued" /\ ActiveDags(dags') = {} /\ produced' < Target
        \/ status' = "completed" /\ ActiveDags(dags') = {} /\ produced' >= Target
    BY <1>2, <2>3, <2>4, ConstantTypes DEF AfterRound
  <2>. QED
    BY <1>1, <1>4, <2>2, <2>4, <2>5, SeenAsEvaluated DEF Commit
<1>5. CASE PollFailed(d)
  <2>. DEFINE st == FinalStatus(dags[d].dir)
  <2>1. st \in {"partial", "failed"} /\ FailureHandling(RecordPoll(d, st), d) /\ pc' = "idle"
    BY <1>5 DEF PollFailed, Commit
  <2>2. RecordPoll(d, st) \in [DagId -> DagRow] /\ OnlyEnds(dags, RecordPoll(d, st), {})
    BY <1>2, <2>1, PollEnds, RecordPollType DEF OnlyEnds, Ended, DagStatus
  <2>3. used + 1 \in DagId => RecordPoll(d, st)[used + 1].st = "absent"
    <3>1. used + 1 \in DagId => dags[used + 1].st = "absent"
      BY DEF RefinementInv, ManagedIInv, ManagedInv, Unused, TypeOK, DatabaseOK
    <3>. QED
      BY <1>1, <1>2, <3>1, PollEnds
  <2>. HIDE DEF st
  <2>4. status' \in {"held", "resubmitting"} /\ OnlyEnds(RecordPoll(d, st), dags', {})
    BY <1>2, <2>1, <2>2, <2>3, FailureHandlingRows
  <2>5. OnlyEnds(dags, dags', {})
    BY <2>2, <2>4, OnlyEndsTransitive
  <2>6. produced' \in Nat /\ produced' >= produced
    BY <1>2, <1>5, CreditAdds DEF PollFailed
  <2>. QED
    BY <1>1, <2>1, <2>4, <2>5, <2>6, SeenAsEvaluated
<1>6. PollFailed(d) \/ (\E isRefused : NextPoll(d, isRefused))
         \/ (PollCompleted(d) /\ \E isRefused : Commit(isRefused))
  BY DEF Poll, PollNothing, PollRunning, PollCompleted
<1>. QED
  BY <1>3, <1>4, <1>5, <1>6

\* The last step of an evaluation commits it.
LEMMA FinishStep ==
    ASSUME RefinementInv, Finish
    PROVE  SM!Next
<1>1. Evaluating /\ pc' = "idle"
  BY DEF Finish, FinishHeld, FinishTarget, FinishPlan, FinishWait, FinishPlanFails, Finishing,
     Commit, Evaluating
<1>2. TypeOK /\ produced \in Nat /\ used \in Nat /\ dags \in [DagId -> DagRow]
  BY DEF RefinementInv, ManagedIInv, TypeOK, DatabaseOK
<1>. USE DEF db
<1>3. CASE FinishHeld \/ FinishWait
  <2>1. OnlyEnds(dags, dags', {}) /\ UNCHANGED <<round, produced>> /\ status' \in {"active", "held"}
    BY <1>3 DEF FinishHeld, FinishWait, OnlyEnds
  <2>. QED
    BY <1>1, <1>2, <2>1, SeenAsEvaluated
<1>4. CASE FinishTarget
  <2>1. \A d \in DagId : dags'[d].st # "active" /\ (dags'[d].st \in Ended \/ dags'[d] = dags[d])
    BY <1>2, <1>4 DEF FinishTarget, Ended, DagRow
  <2>2. OnlyEnds(dags, dags', {}) /\ ActiveDags(dags') = {}
    BY <2>1 DEF OnlyEnds, ActiveDags
  <2>3. status' = "completed" /\ UNCHANGED <<round, produced>> /\ produced' >= Target
    BY <1>4 DEF FinishTarget, TargetReached
  <2>. QED
    BY <1>1, <1>2, <2>2, <2>3, SeenAsEvaluated
<1>5. CASE FinishPlanFails
  <2>1. \A d \in DagId : dags'[d].st = dags[d].st \/ {dags[d].st, dags'[d].st} \subseteq {"absent", "ready"}
    <3>1. used + 1 \in DagId => dags[used + 1].st = "absent"
      BY <1>2 DEF RefinementInv, ManagedIInv, ManagedInv, Unused
    <3>. QED
      BY <1>2, <1>5, <3>1 DEF FinishPlanFails, PlannedRow
  <2>2. OnlyEnds(dags, dags', {}) /\ UNCHANGED <<round, produced>> /\ status' = "active"
    BY <1>5, <2>1 DEF FinishPlanFails, OnlyEnds
  <2>. QED
    BY <1>1, <1>2, <2>2, SeenAsEvaluated
<1>6. CASE FinishPlan
  <2>1. /\ used + 1 \in DagId /\ dags[used + 1].st = "absent" /\ dags'[used + 1].st = "active"
        /\ OnlyEnds(dags, dags', {used + 1})
        /\ round' = round + 1 /\ produced' = produced /\ produced < Target
    <3>1. OnlyEnds(dags, dags, {})
      BY DEF OnlyEnds
    <3>. QED
      BY <1>2, <1>6, <3>1, PlanRoundRows DEF FinishPlan, RefinementInv
  <2>2. /\ Committed.status = "active" /\ Committed.round = round
        /\ Committed.produced \in Nat /\ Committed.produced <= produced
        /\ OnlyEnds(Committed.dags, dags, {})
    BY <1>1, EvaluationEnds
  <2>3. /\ Committed'.status = "active" /\ Committed'.produced = produced
        /\ Committed'.round = round + 1 /\ Committed'.dags = dags'
    BY <1>1, <1>6, <2>1 DEF FinishPlan, Committed, Evaluating
  <2>4. Committed.dags[used + 1].st \in {"absent", "ready"}
    BY <2>1, <2>2 DEF OnlyEnds, Ended
  <2>5. SM!RowStarts
    BY <2>1, <2>2, <2>3, <2>4, OnlyEndsTransitive, SeenAsRowStarts
  <2>. QED
    BY <1>2, <2>1, <2>2, <2>3, <2>5 DEF SM!Next, SM!Evaluated, SM!RoundStarts
<1>. QED
  BY <1>3, <1>4, <1>5, <1>6 DEF Finish
-------------------------------------------------------------------------------
(* Every step is a step of the abstract machine, or none.                     *)

\* Every step of the request is one of the abstract machine, or none.
LEMMA Simulation == RefinementInv /\ [Next]_vars => [SM!Next]_(SM!public)
<1>. SUFFICES ASSUME RefinementInv, [Next]_vars PROVE [SM!Next]_(SM!public)
  OBVIOUS
<1>. DEFINE Handled == \/ HandleSubmitted \/ QueuedToActive \/ QueuedSubmitRescue \/ QueuedPlan
                       \/ QueuedNothingLeft \/ HandleResubmitting \/ StoppingRetriesRemove
                       \/ StoppingDone \/ ActiveHeadFailed \/ StuckFails \/ StuckStopping
<1>1. CASE Handled
  <2>1. ~Evaluating /\ ~Evaluating'
    BY <1>1 DEF HandleSubmitted, QueuedToActive, QueuedSubmitRescue, QueuedPlan, QueuedNothingLeft,
       Queued, HandleResubmitting, StoppingRetriesRemove, StoppingDone, Stopping, ActiveHeadFailed,
       StuckFails, StuckStopping, Idle, Evaluating, evaluation
  <2>. QED
    BY <1>1, <2>1, HandlerStep
<1>2. CASE ActiveBegin
  <2>1. ~Evaluating /\ Evaluating'
    BY <1>2 DEF ActiveBegin, Begin, Idle, Evaluating
  <2>2. Committed' = snap'
    BY <2>1 DEF Committed
  <2>3. snap' = [status |-> status, head |-> head, round |-> round,
                 produced |-> produced, dags |-> dags, used |-> used]
    BY <1>2 DEF ActiveBegin, Begin
  <2>. QED
    BY <2>1, <2>2, <2>3, IdleView, SeenAsNothing
<1>3. CASE \E d \in DagId : Poll(d)
  BY <1>3, PollStep
<1>4. CASE Finish
  BY <1>4, FinishStep
<1>5. CASE Crash
  <2>1. Evaluating /\ ~Evaluating'
    BY <1>5 DEF Crash, Evaluating
  <2>2. Committed = snap
    BY <2>1, EvaluatingView
  <2>3. /\ Committed'.status = status' /\ Committed'.produced = produced'
        /\ Committed'.round = round' /\ Committed'.dags = dags'
    BY <2>1 DEF Committed
  <2>. QED
    BY <1>5, <2>2, <2>3, SeenAsNothing DEF Crash
<1>6. CASE Restart \/ Condor \/ UNCHANGED vars
  <2>1. UNCHANGED <<db, snap>> /\ Evaluating' = Evaluating
    BY <1>6 DEF Restart, Condor, vars, evaluation, Evaluating, WuSucceeds, WuFails, DagmanExits,
       DagmanRemoved, LeavesQueue, DagmanLost, DagmanStep
  <2>2. UNCHANGED Committed
    BY <2>1 DEF Committed, db
  <2>. QED
    BY <2>2, SeenAsNothing
<1>7. CASE Operator
  BY <1>7, OperatorStep
<1>. QED
  BY <1>1, <1>2, <1>3, <1>4, <1>5, <1>6, <1>7 DEF Next, Lifecycle

\* The initial state is one of the abstract machine.
LEMMA RefinementInit == Init => RefinementInv /\ SM!Init
<1>. SUFFICES ASSUME Init PROVE RefinementInv /\ SM!Init
  OBVIOUS
<1>1. ~Evaluating
  BY DEF Init, Evaluating
<1>2. RefinementInv
  BY <1>1, ManagedInit DEF RefinementInv, EvaluationAdds
<1>3. SM!Init
  BY <1>1, IdleView DEF Init, NoDag, SM!Init, ActiveDags, Ended
<1>. QED
  BY <1>2, <1>3

\* What clients see of a request, read between two commits, is a behaviour of
\* the abstract machine, for every number of rows, every size of the rounds and
\* every fault: evaluations are atomic, and those rolled back are not seen.
THEOREM LifecycleRefinesStateMachine == Spec => ImplementsStateMachine
<1>1. Init => RefinementInv /\ SM!Init
  BY RefinementInit
<1>2. RefinementInv /\ [Next]_vars => RefinementInv'
  BY TypeStep, EvaluationStep, ManagedStep, EvaluationAddsStep DEF RefinementInv, ManagedIInv
<1>3. RefinementInv /\ [Next]_vars => [SM!Next]_(SM!public)
  BY Simulation
<1>. QED
  BY <1>1, <1>2, <1>3, PTL DEF Spec, ImplementsStateMachine, SM!Spec

\* What was once read is not taken back: between two commits events_produced
\* never falls and a DAG that has ended stays ended, rollbacks included.
THEOREM NothingTakenBack ==
    Spec => [][/\ Committed'.produced >= Committed.produced
               /\ \A d \in DagId : Committed.dags[d].st \in Ended => Committed'.dags[d].st \in Ended]_vars
<1>1. Init => RefinementInv
  BY RefinementInit
<1>2. RefinementInv /\ [Next]_vars => RefinementInv'
  BY TypeStep, EvaluationStep, ManagedStep, EvaluationAddsStep DEF RefinementInv, ManagedIInv
<1>3. RefinementInv /\ [Next]_vars =>
        [/\ Committed'.produced >= Committed.produced
         /\ \A d \in DagId : Committed.dags[d].st \in Ended => Committed'.dags[d].st \in Ended]_vars
  <2>. SUFFICES ASSUME RefinementInv, [Next]_vars
                PROVE  /\ Committed'.produced >= Committed.produced
                       /\ \A d \in DagId : Committed.dags[d].st \in Ended => Committed'.dags[d].st \in Ended
    OBVIOUS
  <2>1. Committed.produced \in Nat
    BY DEF Committed, RefinementInv, ManagedIInv, TypeOK, DatabaseOK, EvaluationOK, Database
  <2>. DEFINE over == {d \in DagId : Committed.dags[d].st \in Ended}
  <2>2. Committed'.produced >= Committed.produced /\ over \subseteq over'
    <3>1. CASE UNCHANGED SM!public
      BY <2>1, <3>1 DEF SM!public
    <3>2. CASE SM!Next
      BY <2>1, <3>2 DEF SM!Next, SM!Enqueued, SM!Admitted, SM!NothingLeft, SM!Evaluated, SM!StopAsked,
         SM!Stopped, SM!Released, SM!Failed, SM!TimedOut, SM!Aborted, SM!RowsStay, SM!RowsEnd,
         SM!RowStarts, SM!RoundStarts
    <3>. QED
      BY <3>1, <3>2, Simulation
  <2>. QED
    BY <2>2
<1>. QED
  BY <1>1, <1>2, <1>3, PTL DEF Spec

===============================================================================
