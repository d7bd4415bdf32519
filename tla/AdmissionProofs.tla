--------------------------- MODULE AdmissionProofs ----------------------------
(***************************************************************************)
(* Proofs about Admission: its types, that the limit of active DAGs is     *)
(* kept, and that places come back.                                        *)
(***************************************************************************)
EXTENDS Admission, FiniteSetTheorems, TLAPS

Jobs == {"none", "running", "done", "failed", "leaving", "gone"}
Calls == [open : BOOLEAN, status : Status \cup {Same}, reason : {"other", "fail", Same}]
Evals == [req : Requests \cup {None}, status : Status \cup {Same}, row : Row \cup {Same},
          creates : {"nothing", "round", "child"}, counts : BOOLEAN]

-------------------------------------------------------------------------------
(* Types. *)

\* The types hold at first.
LEMMA InitTypes == Init => TypeOK
  BY AdmissionAssumption DEF Init, TypeOK, Unloaded, NoEval, NoCall, Status, Row, None, Same

\* The evaluation that has begun, the cycle, and what may go wrong.
LEMMA EvalTypes ==
    ASSUME NEW r \in Requests, NEW s \in Status \cup {Same}, NEW d \in Row \cup {Same},
           NEW creates \in {"nothing", "round", "child"}, NEW counts \in BOOLEAN,
           Writes(r, s, d, creates, counts)
    PROVE  eval' \in Evals
  BY DEF Writes, Evals

\* An evaluation keeps the types if the variables it chooses have theirs.
LEMMA LoopTypes ==
    ASSUME TypeOK, NEW r \in Requests, NEW s, Evaluates(r, s),
           eval' \in Evals, job' \in [Requests -> Jobs],
           refused' \subseteq Requests, faults' \in 0..MaxFaults
    PROVE  TypeOK'
<1>1. loaded' \in [Requests -> [status : Status, old : BOOLEAN]]
  BY DEF Evaluates, TypeOK, Unloaded, Status
<1>2. todo' \subseteq Requests
  BY DEF Evaluates, TypeOK
<1> QED  BY <1>1, <1>2 DEF Evaluates, TypeOK, Evals, Jobs

\* A fault keeps the types of what it counts and marks.
LEMMA FaultTypes ==
    ASSUME TypeOK, NEW f, NEW S \in SUBSET Requests, Fault(f, S)
    PROVE  refused' \subseteq Requests /\ faults' \in 0..MaxFaults
  BY AdmissionAssumption DEF Fault, TypeOK

\* An evaluation that decides keeps the types.
LEMMA EvaluationTypes ==
    ASSUME TypeOK, NEW r \in Requests, Evaluation(r)
    PROVE  TypeOK'
<1> DEFINE Ok == eval' \in Evals /\ job' \in [Requests -> Jobs]
                 /\ refused' \subseteq Requests /\ faults' \in 0..MaxFaults
<1>0. /\ eval \in Evals /\ job \in [Requests -> Jobs] /\ refused \subseteq Requests
      /\ faults \in 0..MaxFaults /\ row \in [Requests -> Row]
      /\ [job EXCEPT ![r] = "running"] \in [Requests -> Jobs]
      /\ [job EXCEPT ![r] = "leaving"] \in [Requests -> Jobs]
  BY DEF TypeOK, Evals, Jobs
<1>s. /\ {"queued", "active", "completed", "resubmitting", "held", "failed", "paused", Same}
           \subseteq Status \cup {Same}
      /\ {"active", "completed", "failed", "ready", "stopped", Same} \subseteq Row \cup {Same}
  BY DEF Status, Row, Terminal
<1>1. CASE SubmittedQueues(r)
  <2>1. Ok  BY <1>0, <1>s, <1>1, EvalTypes DEF SubmittedQueues, mishaps
  <2> QED   BY <1>1, <2>1, LoopTypes DEF SubmittedQueues
<1>2. CASE QueuedJoins(r)
  <2>1. Ok  BY <1>0, <1>s, <1>2, EvalTypes DEF QueuedJoins, mishaps
  <2> QED   BY <1>2, <2>1, LoopTypes DEF QueuedJoins
<1>3. CASE QueuedSubmits(r)
  <2>1. Ok  BY <1>0, <1>s, <1>3, EvalTypes DEF QueuedSubmits, mishaps
  <2> QED   BY <1>3, <2>1, LoopTypes DEF QueuedSubmits
<1>4. CASE QueuedPlans(r)
  <2>1. Ok  BY <1>0, <1>s, <1>4, EvalTypes DEF QueuedPlans, Plans, mishaps
  <2> QED   BY <1>4, <2>1, LoopTypes DEF QueuedPlans
<1>5. CASE ActiveRoundDone(r)
  <2>1. Ok
    <3>1. CASE Fault("plan", {})
      <4>1. refused' \subseteq Requests /\ faults' \in 0..MaxFaults
        BY <3>1, FaultTypes
      <4> QED  BY <1>0, <1>s, <1>5, <4>1, EvalTypes DEF ActiveRoundDone, Plans, mishaps
    <3>2. CASE ~Fault("plan", {})
      BY <1>0, <1>s, <1>5, <3>2, EvalTypes DEF ActiveRoundDone, Plans, mishaps
    <3> QED  BY <3>1, <3>2
  <2> QED   BY <1>5, <2>1, LoopTypes DEF ActiveRoundDone
<1>6. CASE ActiveFails(r)
  <2>1. Ok  BY <1>0, <1>s, <1>6, EvalTypes DEF ActiveFails, HeldRow, mishaps
  <2> QED   BY <1>6, <2>1, LoopTypes DEF ActiveFails
<1>7. CASE ActivePlans(r)
  <2>1. Ok  BY <1>0, <1>s, <1>7, EvalTypes DEF ActivePlans, Plans, mishaps
  <2> QED   BY <1>7, <2>1, LoopTypes DEF ActivePlans
<1>8. CASE ActiveRefused(r)
  <2>1. refused' \subseteq Requests /\ faults' \in 0..MaxFaults
    BY <1>8, FaultTypes DEF ActiveRefused
  <2>2. Ok  BY <1>0, <1>s, <1>8, <2>1, EvalTypes DEF ActiveRefused
  <2> QED   BY <1>8, <2>2, LoopTypes DEF ActiveRefused
<1>9. CASE StoppingRemoves(r)
  <2>1. Ok  BY <1>0, <1>9 DEF StoppingRemoves, mishaps
  <2> QED   BY <1>9, <2>1, LoopTypes DEF StoppingRemoves
<1>10. CASE StoppingEnds(r)
  <2>1. FailedRow(row[r]) \in Row \cup {Same} /\ StoppedRow(r) \in Row \cup {Same}
    BY <1>0 DEF FailedRow, StoppedRow, Row
  <2>2. Ok  BY <1>0, <1>s, <1>10, <2>1, EvalTypes DEF StoppingEnds, mishaps
  <2> QED   BY <1>10, <2>2, LoopTypes DEF StoppingEnds
<1>11. CASE Resubmits(r)
  <2>1. Ok  BY <1>0, <1>s, <1>11, EvalTypes DEF Resubmits, mishaps
  <2> QED   BY <1>11, <2>1, LoopTypes DEF Resubmits
<1>12. CASE Passes(r)
  BY <1>12 DEF Passes, TypeOK, Unloaded, Status, mishaps
<1> QED
  BY <1>1, <1>2, <1>3, <1>4, <1>5, <1>6, <1>7, <1>8, <1>9, <1>10, <1>11, <1>12 DEF Evaluation

\* So does its commit.
LEMMA CommitTypes ==
    ASSUME TypeOK, Commits
    PROVE  TypeOK'
<1>1. eval.req \in Requests
  BY DEF Commits, TypeOK
<1>2. status' \in [Requests -> Status] /\ row' \in [Requests -> Row] /\ old' \subseteq Requests
  BY <1>1 DEF Commits, TypeOK, Or
<1>3. rounds' \in [Requests -> Nat] /\ chain' \in [Requests -> Nat]
  BY <1>1 DEF Commits, TypeOK
<1>4. reason' \in [Requests -> {"other", "fail"}]
  BY <1>1 DEF Commits, TypeOK
<1>5. call' \in [Requests -> Calls]
  <2>1. [call EXCEPT ![eval.req].reason = Same] \in [Requests -> Calls]
    BY <1>1 DEF TypeOK, Calls
  <2> QED  BY <2>1 DEF Commits, TypeOK, Calls
<1>6. eval' \in Evals
  BY DEF Commits, NoEval, Evals, None
<1>7. imported' \subseteq Requests
  BY DEF Commits, TypeOK
<1> QED
  BY <1>1, <1>2, <1>3, <1>4, <1>5, <1>6, <1>7 DEF Commits, TypeOK, mishaps, Calls, Evals

\* What a cycle loads has its type.
LEMMA LoadTypes ==
    ASSUME TypeOK, NEW S \in SUBSET Requests, Load(S)
    PROVE  todo' \subseteq Requests /\ loaded' \in [Requests -> [status : Status, old : BOOLEAN]]
  BY DEF Load, TypeOK, Unloaded, Status

\* The start of a cycle and an evaluation that raises keep the types.
LEMMA CycleTypes ==
    ASSUME TypeOK, CycleStarts \/ EvaluationRaises
    PROVE  TypeOK'
<1>1. NoEval \in Evals
  BY DEF NoEval, Evals, None
<1>2. CASE CycleStarts
  <2>1. Load(NonTerminal) /\ NonTerminal \in SUBSET Requests
    BY <1>2 DEF CycleStarts, NonTerminal
  <2>2. todo' \subseteq Requests /\ loaded' \in [Requests -> [status : Status, old : BOOLEAN]]
    BY <2>1, LoadTypes
  <2> QED  BY <1>2, <2>2 DEF CycleStarts, TypeOK, mishaps
<1>3. CASE EvaluationRaises
  <2>1. Load(NonTerminal \ failed') /\ NonTerminal \ failed' \in SUBSET Requests
    BY <1>3 DEF EvaluationRaises, RollsBack, NonTerminal
  <2>2. todo' \subseteq Requests /\ loaded' \in [Requests -> [status : Status, old : BOOLEAN]]
    BY <2>1, LoadTypes
  <2>3. refused' \subseteq Requests /\ faults' \in 0..MaxFaults
    BY <1>3, FaultTypes DEF EvaluationRaises
  <2>4. failed' \subseteq Requests
    BY <1>3 DEF EvaluationRaises, RollsBack, TypeOK
  <2> QED  BY <1>1, <1>3, <2>2, <2>3, <2>4 DEF EvaluationRaises, RollsBack, TypeOK, Evals
<1> QED  BY <1>2, <1>3

\* So do the operator, HTCondor and imports.
LEMMA OutsideTypes ==
    ASSUME TypeOK, NEW r \in Requests,
           \/ Imports(r) \/ Ages(r) \/ Condor(r) \/ Answers(r)
           \/ \E op \in Operations : Asks(op, r)
    PROVE  TypeOK'
<1>1. CASE Imports(r)
  <2>1. imported' \subseteq Requests /\ status' \in [Requests -> Status]
    BY <1>1 DEF Imports, TypeOK, Status
  <2>2. row' \in [Requests -> Row] /\ job' \in [Requests -> Jobs]
    BY <1>1 DEF Imports, TypeOK, Row, Jobs
  <2> QED  BY <1>1, <2>1, <2>2 DEF Imports, TypeOK, loop, mishaps, Jobs
<1>2. CASE Ages(r)
  <2>1. refused' \subseteq Requests /\ faults' \in 0..MaxFaults
    BY <1>2, FaultTypes DEF Ages
  <2>2. loaded' \in [Requests -> [status : Status, old : BOOLEAN]]
    BY <1>2 DEF Ages, TypeOK
  <2>3. old' \subseteq Requests
    BY <1>2 DEF Ages, TypeOK
  <2>4. UNCHANGED <<settings, imported, status, row, reason, rounds, chain, job, todo, failed,
                    eval, call, calls>>
    BY <1>2 DEF Ages
  <2> QED  BY <2>1, <2>2, <2>3, <2>4 DEF TypeOK
<1>3. CASE Condor(r)
  BY <1>3 DEF Condor, DagEnds, DagmanLeaves, TypeOK, loop, mishaps
<1>4. CASE Answers(r)
  <2>1. NoCall \in Calls
    BY DEF NoCall, Calls
  <2>2. call' \in [Requests -> Calls]
    BY <1>4, <2>1 DEF Answers, TypeOK, Calls
  <2>3. status' \in [Requests -> Status] /\ old' \subseteq Requests
        /\ reason' \in [Requests -> {"other", "fail"}]
    BY <1>4 DEF Answers, TypeOK, Or
  <2>4. row' \in [Requests -> Row]
    BY <1>4 DEF Answers, TypeOK, FailedRow, Row
  <2> QED  BY <1>4, <2>2, <2>3, <2>4 DEF Answers, TypeOK, loop, mishaps, Calls
<1>5. ASSUME NEW op \in Operations, Asks(op, r) PROVE TypeOK'
  <2>1. Outcome(op, status[r]) \in Status \cup {Same}
    BY DEF Outcome, Status, Terminal
  <2>2. call' \in [Requests -> Calls]
    BY <1>5, <2>1 DEF Asks, TypeOK, Calls
  <2>3. job' \in [Requests -> Jobs]
    <3>1. job \in [Requests -> Jobs] /\ Removes(op, r)
      BY <1>5 DEF Asks, TypeOK, Jobs
    <3>2. \A j \in {"running", "leaving"} : [job EXCEPT ![r] = j] \in [Requests -> Jobs]
      BY <3>1 DEF Jobs
    <3> QED  BY <3>1, <3>2 DEF Removes
  <2>4. calls' \in 0..MaxCalls
    BY <1>5, AdmissionAssumption DEF Asks, TypeOK
  <2>5. UNCHANGED <<settings, imported, status, old, row, reason, rounds, chain, todo,
                    loaded, failed, eval, refused, faults>>
    BY <1>5 DEF Asks, loop, mishaps
  <2> QED  BY <2>2, <2>3, <2>4, <2>5 DEF TypeOK, Calls, Jobs
<1> QED  BY <1>1, <1>2, <1>3, <1>4, <1>5

\* So does every step.
LEMMA NextTypes == TypeOK /\ [Next]_vars => TypeOK'
<1> SUFFICES ASSUME TypeOK, [Next]_vars PROVE TypeOK'
  OBVIOUS
<1>1. CASE UNCHANGED vars
  BY <1>1 DEF vars, loop, mishaps, TypeOK
<1>2. CASE Next
  BY <1>2, EvaluationTypes, CommitTypes, CycleTypes, OutsideTypes DEF Next, Loop
<1> QED  BY <1>1, <1>2

\* The variables of the cycle, the rows and the calls keep their types.
THEOREM TypesKept == Spec => []TypeOK
<1>1. Init => TypeOK
  BY InitTypes
<1>2. TypeOK /\ [Next]_vars => TypeOK'
  BY NextTypes
<1> QED  BY <1>1, <1>2, PTL DEF Spec

-------------------------------------------------------------------------------
(* The inductive invariant. *)

\* In these nothing is evaluated, so the DAG should hold no place.
Ended == {"held", "paused", "completed", "failed"}

\* The rows of an ACTIVE request whose rounds come one by one.
Begun == {"active", "failed"}

\* No evaluation is under way or to come for a request that is over or on hold.
Quiet(r) ==
    status[r] \in Ended =>
        eval.req # r /\ (r \in todo => loaded[r].status \in {"held", "paused"})

\* A request that is not there yet, or was not queued yet, has no DAG.
Fresh(r) ==
    /\ status[r] = "new" => r \notin todo /\ eval.req # r
    /\ status[r] \in {"new", "submitted"} =>
          /\ row[r] # "active" /\ (r \in todo => loaded[r].status = "submitted")
          /\ eval.req = r => eval.row # "active"

\* A call that fails a request at once finds it still on hold.
Asked(r) ==
    call[r].open =>
        /\ call[r].status \in {"aborted", "resubmitting", "queued", "stopping", "failed", Same}
        /\ call[r].status = "failed" => status[r] \in {"held", "paused"}

\* What the row is once the evaluation is committed.
RowToBe == Or(eval.row, row[eval.req])

\* An evaluation that ends a request or puts it on hold gives its place back.
Pending(r) ==
    eval.req = r =>
        /\ r \notin todo
        /\ eval.status \in {"queued", "active", "resubmitting", Same} \cup Ended
        /\ eval.status \in Ended => RowToBe # "active" \/ (eval.status = "held" /\ r \in refused)

Place(r) ==
    row[r] = "active" /\ ~KeepsPlace(r) =>
        status[r] \in {"queued", "active", "stopping", "resubmitting"}

\* With one round at a time, an ACTIVE request has begun its round and no
\* evaluation in ACTIVE plans another.
OneByOne(r) ==
    ~settings.pipelined =>
        /\ status[r] = "active" => row[r] \in Begun
        /\ r \in todo /\ loaded[r].status = "active" => row[r] \in Begun
        /\ eval.req = r => /\ eval.status # Same
                           /\ eval.status = "active" => RowToBe \in Begun

\* The rows that the limit is to bound.
Admissions == ActiveRows \ imported

\* A submission that is not committed yet has a place left for it.
Room ==
    ~settings.pipelined =>
        /\ Cardinality(Admissions) <= settings.limit
        /\ eval.row = "active" => Cardinality(Admissions) < settings.limit

Sound(r) == Quiet(r) /\ Fresh(r) /\ Asked(r) /\ Pending(r) /\ Place(r) /\ OneByOne(r)

IInv == TypeOK /\ Room /\ \A r \in Requests : Sound(r)

-------------------------------------------------------------------------------
(* The invariant is inductive. *)

\* The invariant holds at first.
LEMMA InitInv == Init => IInv
<1> SUFFICES ASSUME Init PROVE IInv
  OBVIOUS
<1>1. TypeOK
  BY InitTypes
<1>2. Admissions = {}
  BY DEF Init, ActiveRows, Admissions
<1>3. settings.limit \in Nat /\ Cardinality({}) = 0
  BY AdmissionAssumption, FS_EmptySet DEF Init
<1>4. Room
  BY <1>2, <1>3 DEF Init, Room, NoEval, Same
<1>5. ASSUME NEW r \in Requests PROVE Sound(r)
  BY <1>5, AdmissionAssumption
     DEF Init, Sound, Quiet, Fresh, Asked, Pending, Place, OneByOne, NoEval, NoCall, Ended, None
<1> QED  BY <1>1, <1>4, <1>5 DEF IInv

\* The evaluation of a request begins.
LEMMA EvaluationBegins ==
    ASSUME IInv, NEW r \in Requests, NEW s, s \notin {"held", "paused"}, Evaluates(r, s),
           eval'.req = r,
           eval'.status \in {"queued", "active", "resubmitting", Same} \cup Ended,
           s = "submitted" => eval'.row # "active",
           eval'.status \in Ended =>
              Or(eval'.row, row[r]) # "active" \/ (eval'.status = "held" /\ r \in refused'),
           ~settings.pipelined =>
              /\ eval'.status # Same
              /\ eval'.status = "active" => Or(eval'.row, row[r]) \in Begun
              /\ eval'.row = "active" => Cardinality(Admissions) < settings.limit,
           refused \subseteq refused'
    PROVE  Room' /\ \A q \in Requests : Sound(q)'
<1>1. /\ r \in todo /\ loaded[r].status = s /\ todo' = todo \ {r}
      /\ UNCHANGED <<settings, imported, status, row, call>>
  BY DEF Evaluates
<1>2. \A q \in todo' : loaded'[q] = loaded[q]
  BY <1>1 DEF Evaluates, IInv, TypeOK
<1>3. Room'
  BY <1>1 DEF IInv, Room, ActiveRows, Admissions
<1>4. ASSUME NEW q \in Requests PROVE Sound(q)'
  <2>1. Sound(q) /\ Sound(r)
    BY DEF IInv
  <2>2. Quiet(q)'
    BY <1>1, <1>2, <2>1 DEF Sound, Quiet
  <2>3. Fresh(q)'
    BY <1>1, <1>2, <2>1 DEF Sound, Fresh
  <2>4. Asked(q)'
    BY <1>1, <2>1 DEF Sound, Asked
  <2>5. Pending(q)'
    BY <1>1 DEF Pending, RowToBe, Or
  <2>6. Place(q)'
    BY <1>1, <2>1 DEF Sound, Place, KeepsPlace
  <2>7. OneByOne(q)'
    BY <1>1, <1>2, <2>1 DEF Sound, OneByOne, RowToBe, Or
  <2> QED  BY <2>2, <2>3, <2>4, <2>5, <2>6, <2>7 DEF Sound
<1> QED  BY <1>3, <1>4

\* A request is passed over.
LEMMA NothingBegins ==
    ASSUME IInv, NEW r \in Requests, todo' = todo \ {r}, eval = NoEval,
           loaded' = [loaded EXCEPT ![r] = Unloaded],
           UNCHANGED <<settings, imported, status, row, call, eval, refused>>
    PROVE  Room' /\ \A q \in Requests : Sound(q)'
<1>1. \A q \in todo' : loaded'[q] = loaded[q]
  BY DEF IInv, TypeOK
<1>2. Room'
  BY DEF IInv, Room, ActiveRows, Admissions
<1>3. ASSUME NEW q \in Requests PROVE Sound(q)'
  <2>1. Sound(q) /\ eval.req # q
    BY AdmissionAssumption DEF IInv, NoEval, None
  <2> QED
    BY <1>1, <2>1 DEF Sound, Quiet, Fresh, Asked, Pending, Place, KeepsPlace, OneByOne
<1> QED  BY <1>2, <1>3

\* What an evaluation decides to write fits what the request is and what the open call may write.
LEMMA EvaluationInv ==
    ASSUME IInv, NEW r \in Requests, Evaluation(r)
    PROVE  Room' /\ \A q \in Requests : Sound(q)'
<1>0. Sound(r)
  BY DEF IInv
<1>a. Admitted(r) => Cardinality(Admissions) < settings.limit
  <2>1. IsFiniteSet(ActiveRows)
    BY AdmissionAssumption, FS_Subset DEF ActiveRows
  <2>2. Cardinality(Admissions) <= Cardinality(ActiveRows) /\ IsFiniteSet(Admissions)
    BY <2>1, FS_Subset DEF Admissions
  <2>3. Cardinality(Admissions) \in Nat /\ Cardinality(ActiveRows) \in Nat
    BY <2>1, <2>2, FS_CardinalityType
  <2>4. settings.limit \in Nat
    BY AdmissionAssumption DEF IInv, TypeOK
  <2> QED  BY <2>2, <2>3, <2>4 DEF Admitted, HasCapacity
<1>1. CASE SubmittedQueues(r)
  <2>1. Evaluates(r, "submitted") /\ refused' = refused
        /\ eval'.req = r /\ eval'.status = "queued" /\ eval'.row = Same
    BY <1>1 DEF SubmittedQueues, Writes, mishaps
  <2> QED  BY <2>1, EvaluationBegins DEF Ended, Same
<1>2. CASE QueuedJoins(r)
  <2>1. Evaluates(r, "queued") /\ refused' = refused /\ row[r] = "active"
        /\ eval'.req = r /\ eval'.status = "active" /\ eval'.row = Same
    BY <1>2 DEF QueuedJoins, Writes, mishaps
  <2> QED  BY <2>1, EvaluationBegins DEF Ended, Begun, Same, Or
<1>3. CASE QueuedSubmits(r)
  <2>1. Evaluates(r, "queued") /\ refused' = refused /\ Admitted(r)
        /\ eval'.req = r /\ eval'.status = "active" /\ eval'.row = "active"
    BY <1>3 DEF QueuedSubmits, Writes, mishaps
  <2> QED  BY <1>a, <2>1, EvaluationBegins DEF Ended, Begun, Same, Or
<1>4. CASE QueuedPlans(r)
  <2>1. Evaluates(r, "queued") /\ refused' = refused /\ Admitted(r) /\ row[r] # "active"
    BY <1>4 DEF QueuedPlans, mishaps
  <2>2. /\ eval'.req = r
        /\ \/ eval'.status = "active" /\ eval'.row = "active"
           \/ eval'.status = "completed" /\ eval'.row = Same
    BY <1>4 DEF QueuedPlans, Plans, Writes
  <2> QED  BY <1>a, <2>1, <2>2, EvaluationBegins DEF Ended, Begun, Same, Or
<1>5. CASE ActiveRoundDone(r)
  <2>1. Evaluates(r, "active") /\ refused' = refused /\ row[r] = "active"
    BY <1>5 DEF ActiveRoundDone, Fault, mishaps
  <2>2. /\ eval'.req = r
        /\ \/ eval'.status \in {"completed", "queued"} /\ eval'.row = "completed"
           \/ settings.pipelined /\ eval'.status = Same
    BY <1>5 DEF ActiveRoundDone, Plans, Writes
  <2> QED  BY <2>1, <2>2, EvaluationBegins DEF Ended, Begun, Same, Or
<1>6. CASE ActiveFails(r)
  <2>1. Evaluates(r, "active") /\ refused' = refused
    BY <1>6 DEF ActiveFails, mishaps
  <2>2. /\ eval'.req = r
        /\ \/ eval'.status = "resubmitting" /\ eval'.row = "ready"
           \/ eval'.status = "held" /\ eval'.row = "failed"
    BY <1>6 DEF ActiveFails, Writes, HeldRow
  <2> QED  BY <2>1, <2>2, EvaluationBegins DEF Ended, Begun, Same, Or
<1>7. CASE ActivePlans(r)
  <2>1. Evaluates(r, "active") /\ refused' = refused
        /\ row[r] \in {"completed", "ready", "stopped"}
    BY <1>7 DEF ActivePlans, mishaps
  <2>2. /\ eval'.req = r
        /\ \/ eval'.status = Same
           \/ eval'.status = "completed" /\ eval'.row = Same
    BY <1>7 DEF ActivePlans, Plans, Writes
  <2>3. settings.pipelined
    BY <1>0, <2>1 DEF Evaluates, Sound, OneByOne, Begun
  <2> QED  BY <2>1, <2>2, <2>3, EvaluationBegins DEF Ended, Same, Or
<1>8. CASE ActiveRefused(r)
  <2>1. Evaluates(r, "active") /\ refused' = refused \cup {r} /\ row[r] = "active"
        /\ eval'.req = r /\ eval'.status = "held" /\ eval'.row = Same
    BY <1>8 DEF ActiveRefused, Fault, Writes
  <2> QED  BY <2>1, EvaluationBegins DEF Ended, Same
<1>9. CASE StoppingRemoves(r)
  BY <1>9, NothingBegins DEF StoppingRemoves, Evaluates, mishaps
<1>10. CASE StoppingEnds(r)
  <2>1. Evaluates(r, "stopping") /\ refused' = refused
    BY <1>10 DEF StoppingEnds, mishaps
  <2>2. /\ eval'.req = r
        /\ \/ eval'.status = "failed" /\ eval'.row = FailedRow(row[r])
           \/ eval'.status = "paused" /\ eval'.row = StoppedRow(r)
    BY <1>10 DEF StoppingEnds, Writes
  <2>3. FailedRow(row[r]) # "active" /\ StoppedRow(r) # "active"
        /\ (StoppedRow(r) = Same => row[r] # "active")
    BY DEF FailedRow, StoppedRow, Same
  <2>4. FailedRow(row[r]) # Same
    BY DEF FailedRow, Same, IInv, TypeOK, Row
  <2> QED  BY <2>1, <2>2, <2>3, <2>4, EvaluationBegins DEF Ended, Same, Or
<1>11. CASE Resubmits(r)
  <2>1. Evaluates(r, "resubmitting") /\ refused' = refused
        /\ eval'.req = r /\ eval'.status = "queued" /\ eval'.row \in {"ready", Same}
    BY <1>11 DEF Resubmits, Writes, mishaps
  <2> QED  BY <2>1, EvaluationBegins DEF Ended, Same
<1>12. CASE Passes(r)
  BY <1>12, NothingBegins DEF Passes, mishaps
<1> QED
  BY <1>1, <1>2, <1>3, <1>4, <1>5, <1>6, <1>7, <1>8, <1>9, <1>10, <1>11, <1>12 DEF Evaluation

\* One more row counts at most; none when no row becomes active and none is admitted.
LEMMA AdmissionsBounded ==
    ASSUME TypeOK, NEW r \in Requests,
           \A q \in Requests \ {r} :
              (row'[q] = row[q] \/ row'[q] # "active") /\ (q \in imported => q \in imported')
    PROVE  /\ Cardinality(Admissions) \in Nat /\ Cardinality(Admissions') \in Nat
           /\ Cardinality(Admissions') <= Cardinality(Admissions) + 1
           /\ (r \in Admissions' => r \in Admissions) =>
                 Cardinality(Admissions') <= Cardinality(Admissions)
<1>1. IsFiniteSet(Admissions)
  BY AdmissionAssumption, FS_Subset DEF ActiveRows, Admissions
<1>2. Admissions' \subseteq Admissions \cup {r}
  BY DEF ActiveRows, Admissions
<1>3. IsFiniteSet(Admissions \cup {r}) /\ Cardinality(Admissions) \in Nat
      /\ Cardinality(Admissions \cup {r}) \in {Cardinality(Admissions), Cardinality(Admissions) + 1}
  BY <1>1, FS_AddElement, FS_CardinalityType
<1>4. IsFiniteSet(Admissions') /\ Cardinality(Admissions') \in Nat
      /\ Cardinality(Admissions') <= Cardinality(Admissions \cup {r})
  BY <1>2, <1>3, FS_Subset, FS_CardinalityType
<1>5. ASSUME r \in Admissions' => r \in Admissions
      PROVE  Cardinality(Admissions') <= Cardinality(Admissions)
  <2>1. Admissions' \subseteq Admissions
    BY <1>2, <1>5
  <2> QED  BY <1>1, <2>1, FS_Subset
<1> QED  BY <1>3, <1>4, <1>5

\* What it writes fits, too, whatever was written meanwhile.
LEMMA CommitInv ==
    ASSUME IInv, Commits
    PROVE  Room' /\ \A q \in Requests : Sound(q)'
<1>0. PICK r \in Requests : r = eval.req
  BY DEF Commits, IInv, TypeOK
<1>1. /\ r = eval.req /\ r # None /\ eval'.req = None
      /\ status' = [status EXCEPT ![r] = Or(eval.status, @)]
      /\ row' = [row EXCEPT ![r] = Or(eval.row, @)]
      /\ imported' = IF eval.row = Same THEN imported ELSE imported \ {r}
      /\ UNCHANGED <<settings, todo, loaded, refused>>
  BY <1>0 DEF Commits, NoEval, mishaps
<1>2. /\ status'[r] = Or(eval.status, status[r]) /\ row'[r] = RowToBe
      /\ \A q \in Requests \ {r} : status'[q] = status[q] /\ row'[q] = row[q]
  BY <1>1 DEF IInv, TypeOK, RowToBe
<1>3. \A q \in Requests : call'[q].open = call[q].open /\ call'[q].status = call[q].status
  BY <1>1 DEF Commits, IInv, TypeOK
<1>4. Sound(r) /\ Room
  BY <1>1 DEF IInv
<1>5. Room'
  <2>1. /\ Cardinality(Admissions) \in Nat /\ Cardinality(Admissions') \in Nat
        /\ Cardinality(Admissions') <= Cardinality(Admissions) + 1
        /\ (r \in Admissions' => r \in Admissions) =>
              Cardinality(Admissions') <= Cardinality(Admissions)
    BY <1>1, <1>2, AdmissionsBounded DEF IInv
  <2>2. settings.limit \in Nat
    BY AdmissionAssumption DEF IInv, TypeOK
  <2>3. r \in Admissions' /\ r \notin Admissions => eval.row = "active"
    BY <1>1, <1>2 DEF RowToBe, Or, Admissions, ActiveRows
  <2>4. ~settings.pipelined => Cardinality(Admissions') <= settings.limit
    BY <1>1, <1>4, <2>1, <2>2, <2>3 DEF Room
  <2>5. eval'.row = Same
    BY DEF Commits, NoEval
  <2> QED  BY <1>1, <2>4, <2>5 DEF Room, Same
<1>6. Sound(r)'
  <2>1. Quiet(r)'
    BY <1>1, <1>2, <1>4 DEF Sound, Quiet, Pending, Or, Same
  <2>2. Fresh(r)'
    BY <1>1, <1>2, <1>4 DEF Sound, Fresh, Pending, Ended, RowToBe, Or, Same
  <2>3. Asked(r)'
    BY <1>1, <1>2, <1>3, <1>4 DEF Sound, Asked, Quiet, Ended
  <2>4. Pending(r)'
    BY <1>1 DEF Pending
  <2>5. Place(r)'
    <3>1. CASE eval.status = Same
      <4>1. status'[r] = status[r] /\ status[r] \notin Ended
        BY <1>1, <1>2, <1>4, <3>1 DEF Sound, Quiet, Or
      <4>3. status[r] \in {"new", "submitted"} => row'[r] # "active"
        BY <1>1, <1>2, <1>4 DEF Sound, Fresh, RowToBe, Or
      <4>2. status[r] \in Status
        BY <1>1 DEF IInv, TypeOK
      <4> QED  BY <1>1, <4>1, <4>2, <4>3 DEF Place, KeepsPlace, Ended, Status, Terminal
    <3>2. CASE eval.status # Same
      BY <1>1, <1>2, <1>4, <3>2 DEF Sound, Pending, Place, KeepsPlace, Ended, Or
    <3> QED  BY <3>1, <3>2
  <2>6. OneByOne(r)'
    BY <1>1, <1>2, <1>4 DEF Sound, Pending, OneByOne, Or
  <2> QED  BY <2>1, <2>2, <2>3, <2>4, <2>5, <2>6 DEF Sound
<1>7. ASSUME NEW q \in Requests \ {r} PROVE Sound(q)'
  <2>1. Sound(q) /\ eval'.req # q
    BY <1>1, AdmissionAssumption DEF IInv
  <2> QED
    BY <1>1, <1>2, <1>3, <2>1
       DEF Sound, Quiet, Fresh, Asked, Pending, Place, KeepsPlace, OneByOne
<1> QED  BY <1>5, <1>6, <1>7

\* The requests are loaded, when no evaluation is under way any more.
LEMMA LoadInv ==
    ASSUME IInv, NEW S \in SUBSET NonTerminal, Load(S), eval' = NoEval,
           refused \subseteq refused', UNCHANGED <<settings, imported, status, row, call>>
    PROVE  Room' /\ \A q \in Requests : Sound(q)'
<1>1. todo' = S /\ \A q \in S : q \in Requests /\ loaded'[q].status = status[q]
  BY DEF Load, NonTerminal
<1>2. Room'
  BY DEF IInv, Room, ActiveRows, Admissions, NoEval, Same
<1>3. ASSUME NEW q \in Requests PROVE Sound(q)'
  <2>1. Sound(q) /\ eval'.req # q
    BY AdmissionAssumption DEF IInv, NoEval
  <2>2. q \in todo' => status[q] \notin {"new", "completed", "failed"}
    BY <1>1 DEF NonTerminal, Terminal
  <2> QED
    BY <1>1, <2>1, <2>2
       DEF Sound, Quiet, Fresh, Asked, Pending, Place, KeepsPlace, OneByOne, Ended
<1> QED  BY <1>2, <1>3

\* A cycle that starts, and an evaluation that raises and is rolled back, change no request.
LEMMA CycleInv ==
    ASSUME IInv, CycleStarts \/ EvaluationRaises
    PROVE  Room' /\ \A q \in Requests : Sound(q)'
<1>1. CASE CycleStarts
  <2>1. Load(NonTerminal) /\ eval' = NoEval /\ refused' = refused
        /\ UNCHANGED <<settings, imported, status, row, call>>
    BY <1>1 DEF CycleStarts, mishaps
  <2> QED  BY <2>1, LoadInv
<1>2. CASE EvaluationRaises
  <2>1. /\ Load(NonTerminal \ failed') /\ eval' = NoEval /\ refused \subseteq refused'
        /\ UNCHANGED <<settings, imported, status, row, call>>
    BY <1>2 DEF EvaluationRaises, RollsBack, Fault
  <2> QED  BY <2>1, LoadInv
<1> QED  BY <1>1, <1>2

\* A call that writes leaves what the evaluation in progress expects.
LEMMA AnswerInv ==
    ASSUME IInv, NEW r \in Requests, Answers(r)
    PROVE  Room' /\ \A q \in Requests : Sound(q)'
<1>1. /\ call[r].open /\ call'[r] = NoCall /\ \A q \in Requests \ {r} : call'[q] = call[q]
      /\ status'[r] = Or(call[r].status, status[r])
      /\ row'[r] = IF call[r].status = "failed" THEN FailedRow(row[r]) ELSE row[r]
      /\ \A q \in Requests \ {r} : status'[q] = status[q] /\ row'[q] = row[q]
  BY DEF Answers, IInv, TypeOK
<1>2. UNCHANGED <<settings, imported, todo, loaded, eval, refused>>
  BY DEF Answers, loop, mishaps
<1>3. Sound(r) /\ Room
  BY DEF IInv
<1>4. /\ FailedRow(row[r]) # "active"
      /\ row[r] \in Begun => FailedRow(row[r]) \in Begun
  BY DEF FailedRow, Begun
<1>5. row'[r] = row[r] \/ row'[r] # "active"
  BY <1>1, <1>4
<1>6. Room'
  <2>1. /\ Cardinality(Admissions) \in Nat /\ Cardinality(Admissions') \in Nat
        /\ (r \in Admissions' => r \in Admissions) =>
              Cardinality(Admissions') <= Cardinality(Admissions)
    BY <1>1, <1>2, AdmissionsBounded DEF IInv
  <2>2. r \in Admissions' => r \in Admissions
    BY <1>2, <1>5 DEF Admissions, ActiveRows
  <2>3. settings.limit \in Nat
    BY AdmissionAssumption DEF IInv, TypeOK
  <2> QED  BY <1>2, <1>3, <2>1, <2>2, <2>3 DEF Room
<1>7. Sound(r)'
  <2>1. Quiet(r)'
    BY <1>1, <1>2, <1>3 DEF Sound, Quiet, Asked, Ended, Or
  <2>2. Fresh(r)'
    BY <1>1, <1>2, <1>3 DEF Sound, Fresh, Asked, Or
  <2>3. Asked(r)'
    BY <1>1 DEF Asked, NoCall
  <2>4. Pending(r)'
    <3>1. eval.req = r => row'[r] = row[r]
      BY <1>1, <1>3 DEF Sound, Asked, Quiet, Ended
    <3> QED  BY <1>2, <1>3, <3>1 DEF Sound, Pending, RowToBe, Or
  <2>5. Place(r)'
    BY <1>1, <1>2, <1>3, <1>4 DEF Sound, Place, KeepsPlace, Asked, Or
  <2>6. OneByOne(r)'
    <3>1. eval.req = r => row'[r] = row[r]
      BY <1>1, <1>3 DEF Sound, Asked, Quiet, Ended
    <3>2. status'[r] = "active" => status[r] = "active"
      BY <1>1, <1>3 DEF Sound, Asked, Or
    <3>3. row[r] \in Begun => row'[r] \in Begun
      BY <1>1, <1>4
    <3> QED  BY <1>2, <1>3, <3>1, <3>2, <3>3 DEF Sound, OneByOne, RowToBe, Or
  <2> QED  BY <2>1, <2>2, <2>3, <2>4, <2>5, <2>6 DEF Sound
<1>8. ASSUME NEW q \in Requests \ {r} PROVE Sound(q)'
  <2>1. Sound(q)
    BY DEF IInv
  <2>2. eval.req = q => row'[eval.req] = row[eval.req]
    BY <1>1
  <2> QED
    BY <1>1, <1>2, <2>1, <2>2
       DEF Sound, Quiet, Fresh, Asked, Pending, Place, KeepsPlace, OneByOne, RowToBe, Or
<1> QED  BY <1>6, <1>7, <1>8

\* An import starts a request that nobody else knows.
LEMMA ImportInv ==
    ASSUME IInv, NEW r \in Requests, Imports(r)
    PROVE  Room' /\ \A q \in Requests : Sound(q)'
<1>1. /\ status[r] = "new" /\ UNCHANGED <<settings, todo, loaded, eval, call, refused>>
      /\ \A q \in Requests \ {r} : status'[q] = status[q] /\ row'[q] = row[q]
  BY DEF Imports, IInv, TypeOK, loop, mishaps
<1>2. \/ status'[r] = "active" /\ row'[r] = "active" /\ imported' = imported \cup {r}
      \/ status'[r] = "submitted" /\ row'[r] = row[r] /\ imported' = imported
  BY DEF Imports, IInv, TypeOK
<1>3. Admissions' = Admissions
  <2>1. row[r] # "active"
    BY <1>1 DEF IInv, Sound, Fresh
  <2> QED  BY <1>1, <1>2, <2>1 DEF Admissions, ActiveRows
<1>4. Room'
  BY <1>1, <1>3 DEF IInv, Room
<1>5. Sound(r)'
  <2>1. Sound(r)
    BY DEF IInv
  <2>2. r \notin todo /\ eval.req # r /\ row[r] # "active"
    BY <1>1, <2>1 DEF Sound, Fresh
  <2>3. call[r].open => call[r].status # "failed"
    BY <1>1, <2>1 DEF Sound, Asked
  <2> QED
    BY <1>1, <1>2, <2>1, <2>2, <2>3
       DEF Sound, Quiet, Fresh, Asked, Pending, Place, OneByOne, Ended, Begun
<1>6. ASSUME NEW q \in Requests \ {r} PROVE Sound(q)'
  <2>1. Sound(q)
    BY DEF IInv
  <2>2. eval.req = q => RowToBe' = RowToBe
    BY <1>1 DEF RowToBe, Or
  <2> QED
    BY <1>1, <2>1, <2>2
       DEF Sound, Quiet, Fresh, Asked, Pending, Place, KeepsPlace, OneByOne
<1> QED  BY <1>4, <1>5, <1>6

\* Calls that ask, DAGs that end and DAGMans that leave keep the invariant.
LEMMA OutsideInv ==
    ASSUME IInv, NEW r \in Requests,
           Ages(r) \/ Condor(r) \/ \E op \in Operations : Asks(op, r)
    PROVE  Room' /\ \A q \in Requests : Sound(q)'
<1>1. /\ UNCHANGED <<settings, imported, status, row, eval, todo>> /\ refused \subseteq refused'
      /\ \A q \in Requests : loaded'[q].status = loaded[q].status
  <2>1. CASE Ages(r)
    <3>1. \A q \in Requests : loaded'[q].status = loaded[q].status
      BY <2>1 DEF Ages, IInv, TypeOK
    <3> QED  BY <2>1, <3>1 DEF Ages, Fault
  <2>2. CASE Condor(r)
    BY <2>2 DEF Condor, DagEnds, DagmanLeaves, loop, mishaps
  <2>3. ASSUME NEW op \in Operations, Asks(op, r)
        PROVE  UNCHANGED <<settings, imported, status, row, eval, todo, loaded, refused>>
    BY <2>3 DEF Asks, loop, mishaps
  <2> QED  BY <2>1, <2>2, <2>3
<1>2. Room'
  BY <1>1 DEF IInv, Room, ActiveRows, Admissions
<1>3. ASSUME NEW q \in Requests PROVE Sound(q)'
  <2>1. Sound(q)
    BY DEF IInv
  <2>2. CASE call' = call
    BY <1>1, <2>1, <2>2
       DEF Sound, Quiet, Fresh, Asked, Pending, Place, KeepsPlace, OneByOne, RowToBe, Or
  <2>3. ASSUME NEW op \in Operations, Asks(op, r) PROVE Sound(q)'
    <3>1. status[r] \in Allowed(op) /\ op \in {"stop", "release", "fail", "abort"}
      BY <2>3, AdmissionAssumption DEF Asks
    <3>2. \/ call'[q] = call[q]
          \/ (q = r /\ call'[q].status = Outcome(op, status[r]))
      BY <2>3 DEF Asks, IInv, TypeOK
    <3>3. /\ Outcome(op, status[r])
                \in {"aborted", "resubmitting", "queued", "stopping", "failed", Same}
          /\ Outcome(op, status[r]) = "failed" => status[r] \in {"held", "paused"}
      BY <3>1 DEF Outcome, Allowed, Same
    <3>4. Asked(q)'
      BY <1>1, <2>1, <3>2, <3>3 DEF Sound, Asked
    <3> QED
      BY <1>1, <2>1, <3>4
         DEF Sound, Quiet, Fresh, Pending, Place, KeepsPlace, OneByOne, RowToBe, Or
  <2>4. Ages(r) \/ Condor(r) => call' = call
    BY DEF Ages, Condor, DagEnds, DagmanLeaves
  <2> QED  BY <2>2, <2>3, <2>4
<1> QED  BY <1>2, <1>3

\* So does every step.
LEMMA NextInv == IInv /\ [Next]_vars => IInv'
<1> SUFFICES ASSUME IInv, [Next]_vars PROVE IInv'
  OBVIOUS
<1>1. TypeOK'
  BY NextTypes DEF IInv
<1>2. CASE UNCHANGED vars
  <2>1. UNCHANGED <<settings, imported, status, row, call, todo, loaded, eval, refused>>
    BY <1>2 DEF vars, loop, mishaps
  <2>2. Room'
    BY <2>1 DEF IInv, Room, ActiveRows, Admissions
  <2>3. ASSUME NEW q \in Requests PROVE Sound(q)'
    BY <2>1 DEF IInv, Sound, Quiet, Fresh, Asked, Pending, Place, KeepsPlace, OneByOne, RowToBe
  <2> QED  BY <1>1, <2>2, <2>3 DEF IInv
<1>3. CASE Next
  <2>1. Room' /\ \A q \in Requests : Sound(q)'
    BY <1>3, EvaluationInv, CommitInv, CycleInv, AnswerInv, ImportInv, OutsideInv DEF Next, Loop
  <2> QED  BY <1>1, <2>1 DEF IInv
<1> QED  BY <1>2, <1>3

\* The invariant holds in every state.
LEMMA Invariant == Spec => []IInv
<1>1. Init => IInv
  BY InitInv
<1>2. IInv /\ [Next]_vars => IInv'
  BY NextInv
<1> QED  BY <1>1, <1>2, PTL DEF Spec

\* With one round at a time there are never more active DAGs than max_active_dags,
\* for any number of requests, calls and faults, those apart that an import submits.
THEOREM LimitKept == Spec => []CapacityKept
<1>1. IInv => CapacityKept
  BY DEF IInv, Room, CapacityKept, Admissions
<1> QED  BY <1>1, Invariant, PTL

\* A place is held only for a request that evaluations look at, that is aborted
\* or that a refusal has put on hold, although they go by a status read earlier.
THEOREM PlacesReturn == Spec => []PlacesComeBack
<1>1. IInv => PlacesComeBack
  BY DEF IInv, Sound, Place, PlacesComeBack
<1> QED  BY <1>1, Invariant, PTL

===============================================================================
