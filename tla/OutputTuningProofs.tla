------------------------- MODULE OutputTuningProofs ---------------------------
(***************************************************************************)
(* Theorems about two parts of the system that share no variables:         *)
(* OutputBlocks, for every set of datasets, work units and sites and any   *)
(* size of the blocks, and AdaptiveTuning, for every workload, any number  *)
(* of rounds and work units, and any values of the settings.               *)
(***************************************************************************)
EXTENDS OutputBlocks, AdaptiveTuning, FiniteSetTheorems, WellFoundedInduction, TLAPS

-------------------------------------------------------------------------------
(* The output blocks. *)

\* A row that is no longer open is closed and has all its work units; an archived
\* row has its tape rule, and no tape rule is there before.
Good(row) ==
    /\ row \in BlockRow
    /\ row.closed <=> row.st # "open"
    /\ row.closed => IsFull(row)
    /\ row.tape => row.closed
    /\ row.st = "archived" => row.tape

-------------------------------------------------------------------------------
(* The first of the work units, and of the blocks.                            *)

\* The least-number principle.
LEMMA Least ==
    ASSUME NEW S \in SUBSET Nat, S # {}
    PROVE  \E x \in S : \A y \in S : x <= y
<1>1. PICK x \in S : \A y \in S : <<y, x>> \notin OpToRel(<, Nat)
  BY NatLessThanWellFounded, WFMin, Zenon
<1>2. \A y \in S : ~(y < x)
  BY <1>1, Zenon DEF OpToRel
<1>. QED
  BY <1>2

\* The first of some pairs exists.
LEMMA FirstPairIsOne ==
    ASSUME NEW pairs \in SUBSET (WorkUnits \X Datasets), pairs # {}
    PROVE  FirstPair(pairs) \in pairs
<1>1. WorkUnits \subseteq Nat /\ Datasets \subseteq Nat
  BY OutputAssumption
<1>. DEFINE Units == {p[1] : p \in pairs}
<1>2. Units \in SUBSET Nat /\ Units # {}
  BY <1>1
<1>3. PICK w \in Units : \A v \in Units : w <= v
  BY <1>2, Least
<1>. DEFINE Blocks == {p[2] : p \in {q \in pairs : q[1] = w}}
<1>4. Blocks \in SUBSET Nat /\ Blocks # {}
  BY <1>1
<1>5. PICK ds \in Blocks : \A e \in Blocks : ds <= e
  BY <1>4, Least
<1>6. <<w, ds>> \in pairs
  <2>1. PICK p \in pairs : p[1] = w /\ p[2] = ds
    OBVIOUS
  <2>. QED
    BY <2>1
<1>7. \A q \in pairs : w < q[1] \/ (w = q[1] /\ ds <= q[2])
  <2>. SUFFICES ASSUME NEW q \in pairs, ~(w < q[1]) PROVE w = q[1] /\ ds <= q[2]
    OBVIOUS
  <2>1. q[1] \in Units /\ w \in Nat /\ q[1] \in Nat
    BY <1>1, <1>2
  <2>2. w = q[1]
    BY <2>1, <1>3
  <2>3. q[2] \in Blocks
    BY <2>2
  <2>. QED
    BY <2>2, <2>3, <1>5
<1>8. \E p \in pairs : \A q \in pairs : p[1] < q[1] \/ (p[1] = q[1] /\ p[2] <= q[2])
  BY <1>6, <1>7
<1>. QED
  BY <1>8, Zenon DEF FirstPair

\* The first of some blocks exists.
LEMMA FirstIsOne ==
    ASSUME NEW S \in SUBSET Datasets, S # {}
    PROVE  First(S) \in S
BY Least, OutputAssumption DEF First

-------------------------------------------------------------------------------
(* Calls on one block keep its row good, whatever their outcome.              *)

\* More work units do not make a block less full.
LEMMA StaysFull ==
    ASSUME NEW row \in BlockRow, NEW w \in WorkUnits
    PROVE  /\ IsFull(row) => IsFull([row EXCEPT !.done = @ \cup {w}])
           /\ [row EXCEPT !.done = @ \cup {w}] \in BlockRow
<1>. DEFINE more == [row EXCEPT !.done = @ \cup {w}]
<1>1. more \in BlockRow /\ more.done = row.done \cup {w}
  BY DEF BlockRow
<1>2. IsFiniteSet(more.done)
  BY <1>1, FS_Subset, OutputAssumption DEF BlockRow
<1>3. Cardinality(row.done) \in Nat /\ Cardinality(more.done) \in Nat
      /\ Cardinality(row.done) <= Cardinality(more.done)
  BY <1>1, <1>2, FS_Subset, FS_CardinalityType
<1>. HIDE DEF more
<1>4. IsFull(row) => IsFull(more)
  BY <1>3, OutputAssumption DEF IsFull
<1>. QED
  BY <1>1, <1>4 DEF more

\* Recording a work unit keeps a row good.
LEMMA RecordedGood ==
    ASSUME NEW row, Good(row), NEW w \in WorkUnits
    PROVE  Good([row EXCEPT !.done = @ \cup {w}])
<1>1. row \in BlockRow
  BY DEF Good
<1>. QED
  BY <1>1, StaysFull DEF Good, BlockRow

\* So does a call for a source rule, whatever its outcome.
LEMMA RuleCallGood ==
    ASSUME NEW row, Good(row), NEW good, Good(good), NEW o \in RuleCall(row, good)
    PROVE  Good(o[1])
<1>1. Good(RecordFailure(row))
  BY DEF RecordFailure, Good, BlockRow, IsFull
<1>2. o = Outcome(good, "ok") \/ o = Outcome(RecordFailure(row), "refused")
  BY DEF RuleCall
<1>. QED
  BY <1>1, <1>2 DEF Outcome

\* So does a call for a tape rule of a full block.
LEMMA TapeRuleGood ==
    ASSUME NEW row, Good(row), row.closed, NEW o \in TapeRule(row)
    PROVE  Good(o[1])
<1>1. Good([row EXCEPT !.tape = TRUE, !.st = "archived", !.err = FALSE])
  BY DEF Good, BlockRow, IsFull
<1>2. CASE mode = "production"
  BY <1>1, <1>2, RuleCallGood DEF TapeRule
<1>3. CASE mode # "production"
  BY <1>3 DEF TapeRule, Outcome
<1>. QED
  BY <1>2, <1>3

\* So does a call for a consolidation rule.
LEMMA ConsolidationRuleGood ==
    ASSUME NEW row, Good(row), NEW o \in ConsolidationRule(row)
    PROVE  Good(o[1])
<1>1. Good([row EXCEPT !.consolidated = TRUE])
  BY DEF Good, BlockRow, IsFull
<1>. QED
  BY <1>1, RuleCallGood DEF ConsolidationRule, Outcome

\* So does completing a block.
LEMMA CompleteBlockGood ==
    ASSUME NEW row, Good(row), IsFull(row), NEW o \in CompleteBlock(row)
    PROVE  Good(o[1])
<1>. DEFINE closed == [row EXCEPT !.closed = TRUE, !.st = "complete"]
<1>1. Good(closed) /\ closed.closed
  BY DEF Good, BlockRow, IsFull
<1>. HIDE DEF closed
<1>2. PICK t \in TapeRule(closed) :
         o \in (IF t[2] = "ok" THEN ConsolidationRule(t[1]) ELSE {t})
  BY DEF CompleteBlock, Then, closed
<1>3. Good(t[1])
  BY <1>1, TapeRuleGood
<1>. QED
  BY <1>2, <1>3, ConsolidationRuleGood

\* So does handling a work unit.
LEMMA HandleWorkUnitGood ==
    ASSUME NEW row, Good(row), NEW w \in WorkUnits, NEW o \in HandleWorkUnit(row, w)
    PROVE  Good(o[1])
<1>. DEFINE recorded == [row EXCEPT !.done = @ \cup {w}]
<1>1. Good(recorded)
  BY RecordedGood
<1>. HIDE DEF recorded
<1>2. CASE o = Outcome(recorded, "raised")
  BY <1>1, <1>2 DEF Outcome
<1>3. CASE o # Outcome(recorded, "raised")
  <2>1. PICK s \in SourceRule(recorded, w) :
           o \in (IF s[2] = "ok"
                  THEN IF IsFull(s[1]) THEN CompleteBlock(s[1]) ELSE {Outcome(s[1], "ok")}
                  ELSE {s})
    BY <1>3 DEF HandleWorkUnit, Then, recorded
  <2>2. Good(s[1])
    <3>1. Good([recorded EXCEPT !.rules = @ \cup {w}])
      BY <1>1 DEF Good, BlockRow, IsFull
    <3>. QED
      BY <1>1, <3>1, RuleCallGood DEF SourceRule, Outcome
  <2>. QED
    BY <2>1, <2>2, CompleteBlockGood DEF Outcome
<1>. QED
  BY <1>2, <1>3

\* A retry makes one of the outcomes or leaves the row alone.
LEMMA RetryIsOne ==
    ASSUME NEW row, NEW outcomes, NEW o \in Retry(row, outcomes)
    PROVE  o[1] = row \/ o \in outcomes
BY DEF Retry, Outcome

\* So does a retried source rule.
LEMMA RetriedRuleGood ==
    ASSUME NEW row, Good(row), NEW o \in RetriedRule(row)
    PROVE  Good(o[1])
<1>1. CASE mode = "production" /\ row.st = "complete"
  <2>1. row.closed
    BY <1>1 DEF Good
  <2>. QED
    BY <1>1, <2>1, TapeRuleGood, RetryIsOne DEF RetriedRule
<1>2. CASE mode = "production" /\ row.st = "open" /\ row.err
  <2>1. Good([row EXCEPT !.err = FALSE])
    BY DEF Good, BlockRow, IsFull
  <2>2. o \in Retry(row, RuleCall(row, [row EXCEPT !.err = FALSE]))
    BY <1>2 DEF RetriedRule
  <2>. QED
    BY <2>1, <2>2, RuleCallGood, RetryIsOne
<1>. QED
  BY <1>1, <1>2 DEF RetriedRule, Outcome

\* So does a retried consolidation rule.
LEMMA RetriedConsolidationGood ==
    ASSUME NEW row, Good(row), NEW o \in RetriedConsolidation(row)
    PROVE  Good(o[1])
<1>. DEFINE good == [row EXCEPT !.consolidated = TRUE, !.err = FALSE]
<1>1. Good(good)
  BY DEF Good, BlockRow, IsFull
<1>. HIDE DEF good
<1>2. CASE o[1] # row
  <2>1. o \in RuleCall(row, good)
    BY <1>2, RetryIsOne DEF RetriedConsolidation, Outcome, good
  <2>. QED
    BY <1>1, <2>1, RuleCallGood
<1>. QED
  BY <1>2

-------------------------------------------------------------------------------
(* The invariant: every row is good, in the database and in what was          *)
(* committed last, which a rollback brings back.                              *)

IInv ==
    /\ TypeOK
    /\ \A ds \in Datasets : Good(block[ds]) /\ Good(committed.block[ds])
    /\ pc = "register" => batch # {}
    /\ pc \in {"replicas", "rules", "consolidate"} => retry # {}

\* The invariant holds at first.
LEMMA InitGood == Init => IInv
<1>. SUFFICES ASSUME Init PROVE IInv
  OBVIOUS
<1>1. Good(NewBlock)
  BY DEF Good, NewBlock, BlockRow
<1>2. TypeOK
  BY DEF Init, TypeOK, Database, RequestState, NewBlock, BlockRow
<1>. QED
  BY <1>1, <1>2 DEF Init, IInv, Database

\* What an evaluation may write of a block.
LEMMA WrittenGood ==
    ASSUME IInv, NEW ds, NEW row, Good(row), block' = [block EXCEPT ![ds] = row]
    PROVE  /\ block' \in [Datasets -> BlockRow]
           /\ \A e \in Datasets : Good(block'[e])
<1>1. row \in BlockRow /\ block \in [Datasets -> BlockRow]
  BY DEF Good, IInv, TypeOK
<1>. QED
  BY <1>1 DEF IInv

\* A commit of good rows.
LEMMA CommitGood ==
    ASSUME IInv, mode' \in Modes, request' \in RequestState, UNCHANGED <<reported, block>>,
           rucio' = rucio, cache' = cache, late' = late, failed' = failed, Commit
    PROVE  IInv'
<1>1. committed' = [request |-> request', reported |-> reported, block |-> block]
  BY DEF Commit, Database
<1>. QED
  BY <1>1 DEF Commit, IInv, TypeOK

\* A poll keeps it.
LEMMA PollGood == IInv /\ Poll => IInv'
<1>. SUFFICES ASSUME IInv, Poll PROVE IInv'
  OBVIOUS
<1>1. PICK S \in (SUBSET (WorkUnits \ reported)) \ {{}} :
         reported' = reported \cup S /\ batch' = S \X Datasets
  BY DEF Poll
<1>2. batch' \subseteq WorkUnits \X Datasets /\ batch' # {}
  <2>1. PICK w \in S : w \in WorkUnits
    BY <1>1
  <2>2. PICK ds : ds \in Datasets
    BY OutputAssumption
  <2>3. <<w, ds>> \in S \X Datasets
    BY <2>1, <2>2
  <2>. QED
    BY <1>1, <2>3
<1>3. reported' \subseteq WorkUnits
  BY <1>1 DEF IInv, TypeOK
<1>4. TypeOK'
  BY <1>2, <1>3 DEF Poll, IInv, TypeOK
<1>. QED
  BY <1>2, <1>4 DEF Poll, IInv, Good, IsFull

\* A registration keeps it.
LEMMA RegisterGood == IInv /\ Register => IInv'
<1>. SUFFICES ASSUME IInv, Register PROVE IInv'
  OBVIOUS
<1>. DEFINE w == FirstPair(batch)[1]
            ds == FirstPair(batch)[2]
<1>1. batch \in SUBSET (WorkUnits \X Datasets) /\ batch # {}
  BY DEF Register, IInv, TypeOK
<1>2. w \in WorkUnits /\ ds \in Datasets
  BY <1>1, FirstPairIsOne
<1>3. SiteOf[w] \in Sites
  BY <1>2, OutputAssumption
<1>4. PICK o \in HandleWorkUnit(block[ds], w) :
         /\ block' = [block EXCEPT ![ds] = o[1]]
         /\ request' = IF o[2] = "refused" THEN "held" ELSE request
         /\ batch' = IF o[2] = "ok" THEN batch \ {<<w, ds>>} ELSE {}
         /\ failed' = (failed \/ o[2] # "ok")
         /\ IF InRucio(w) /\ o[2] # "raised"
            THEN /\ rucio' = rucio \cup {<<ds, w>>}
                 /\ cache' = IF mode = "test" THEN cache \cup {<<ds, SiteOf[w]>>} ELSE cache
            ELSE UNCHANGED <<rucio, cache>>
  BY DEF Register
<1>. HIDE DEF w, ds
<1>5. Good(o[1])
  BY <1>2, <1>4, HandleWorkUnitGood DEF IInv
<1>6. block' \in [Datasets -> BlockRow] /\ \A e \in Datasets : Good(block'[e])
  BY <1>4, <1>5, WrittenGood
<1>7. rucio' \subseteq Datasets \X WorkUnits /\ cache' \subseteq Datasets \X Sites
  BY <1>2, <1>3, <1>4 DEF IInv, TypeOK
<1>8. batch' \subseteq WorkUnits \X Datasets /\ request' \in RequestState /\ failed' \in BOOLEAN
  BY <1>4 DEF IInv, TypeOK, RequestState
<1>9. pc' = IF batch' = {} THEN "polled" ELSE "register"
  BY DEF Register
<1>. QED
  BY <1>6, <1>7, <1>8, <1>9 DEF Register, IInv, TypeOK

\* Retrying the replicas keeps it.
LEMMA RetryReplicasGood == IInv /\ RetryReplicas => IInv'
<1>. SUFFICES ASSUME IInv, RetryReplicas PROVE IInv'
  OBVIOUS
<1>. DEFINE ds == First(retry)
            unknown == {s \in TempSites : /\ mode # "local"
                                          /\ \E w \in block[ds].done : SiteOf[w] = s
                                          /\ mode = "production" \/ <<ds, s>> \notin cache}
<1>1. ds \in Datasets
  BY FirstIsOne DEF RetryReplicas, IInv, TypeOK
<1>2. unknown \subseteq Sites /\ block[ds].done \subseteq WorkUnits
  BY <1>1, OutputAssumption DEF IInv, TypeOK, BlockRow
<1>3. PICK S \in (IF "rucio" \in Faults THEN SUBSET unknown ELSE {unknown}) :
         /\ rucio' = rucio \cup {<<ds, w>> : w \in {v \in block[ds].done : SiteOf[v] \in S}}
         /\ cache' = IF mode = "test" THEN cache \cup ({ds} \X S) ELSE cache
         /\ failed' = (failed \/ S # unknown)
  BY DEF RetryReplicas
<1>. HIDE DEF ds, unknown
<1>4. S \subseteq Sites
  BY <1>2, <1>3
<1>5. rucio' \subseteq Datasets \X WorkUnits
  BY <1>1, <1>2, <1>3 DEF IInv, TypeOK
<1>6. cache' \subseteq Datasets \X Sites /\ failed' \in BOOLEAN
  BY <1>1, <1>3, <1>4 DEF IInv, TypeOK
<1>. QED
  BY <1>5, <1>6 DEF RetryReplicas, database, IInv, TypeOK

\* Retrying the rules keeps it.
LEMMA RetryRulesGood == IInv /\ RetryRules => IInv'
<1>. SUFFICES ASSUME IInv, RetryRules PROVE IInv'
  OBVIOUS
<1>. DEFINE ds == First(retry)
<1>1. retry \subseteq Datasets /\ retry # {} /\ ds \in Datasets
  BY FirstIsOne DEF RetryRules, IInv, TypeOK
<1>2. PICK o \in RetriedRule(block[ds]) :
         /\ block' = [block EXCEPT ![ds] = o[1]]
         /\ request' = IF o[2] = "refused" THEN "held" ELSE request
         /\ failed' = (failed \/ o[2] # "ok")
         /\ IF o[2] = "ok" THEN pc' = "consolidate" /\ retry' = retry
                           ELSE pc' = "finish" /\ retry' = {}
  BY DEF RetryRules, Retried
<1>. HIDE DEF ds
<1>3. Good(o[1])
  BY <1>1, <1>2, RetriedRuleGood DEF IInv
<1>4. block' \in [Datasets -> BlockRow] /\ \A e \in Datasets : Good(block'[e])
  BY <1>2, <1>3, WrittenGood
<1>. QED
  BY <1>1, <1>2, <1>4 DEF RetryRules, IInv, TypeOK, RequestState

\* Retrying the consolidation keeps it.
LEMMA RetryConsolidationGood == IInv /\ RetryConsolidation => IInv'
<1>. SUFFICES ASSUME IInv, RetryConsolidation PROVE IInv'
  OBVIOUS
<1>. DEFINE ds == First(retry)
            rest == retry \ {ds}
            step == IF rest = {} THEN "finish" ELSE "replicas"
<1>1. retry \subseteq Datasets /\ ds \in Datasets /\ rest \subseteq Datasets
  BY FirstIsOne DEF RetryConsolidation, IInv, TypeOK
<1>2. PICK o \in RetriedConsolidation(block[ds]) :
         /\ block' = [block EXCEPT ![ds] = o[1]]
         /\ request' = IF o[2] = "refused" THEN "held" ELSE request
         /\ failed' = (failed \/ o[2] # "ok")
         /\ IF o[2] = "ok" THEN pc' = step /\ retry' = rest
                           ELSE pc' = "finish" /\ retry' = {}
  BY DEF RetryConsolidation, Retried
<1>3. UNCHANGED <<rucio, cache>> \/ Reattached(ds)
  BY DEF RetryConsolidation
<1>4. step \in {"finish", "replicas"} /\ (step = "replicas" => rest # {})
  OBVIOUS
<1>. HIDE DEF ds, rest, step
<1>5. Good(o[1])
  BY <1>1, <1>2, RetriedConsolidationGood DEF IInv
<1>6. block' \in [Datasets -> BlockRow] /\ \A e \in Datasets : Good(block'[e])
  BY <1>2, <1>5, WrittenGood
<1>7. rucio' \subseteq Datasets \X WorkUnits /\ cache' \subseteq Datasets \X Sites
  <2>1. CASE UNCHANGED <<rucio, cache>>
    BY <2>1 DEF IInv, TypeOK
  <2>2. CASE Reattached(ds)
    <3>. DEFINE files == {w \in block[ds].done : HasRSE(w)}
    <3>1. files \subseteq WorkUnits
      BY <1>1 DEF IInv, TypeOK, BlockRow
    <3>2. /\ rucio' = rucio \cup ({ds} \X files)
          /\ cache' = IF mode = "test" THEN cache \cup {<<ds, SiteOf[w]>> : w \in files} ELSE cache
      BY <2>2 DEF Reattached
    <3>. HIDE DEF files
    <3>3. \A w \in files : SiteOf[w] \in Sites
      BY <3>1, OutputAssumption
    <3>. QED
      BY <1>1, <3>1, <3>2, <3>3 DEF IInv, TypeOK
  <2>. QED
    BY <1>3, <2>1, <2>2
<1>8. pc' \in {"finish", "replicas"} /\ (pc' = "replicas" => retry' # {})
      /\ retry' \subseteq Datasets
  BY <1>1, <1>2, <1>4
<1>9. request' \in RequestState /\ failed' \in BOOLEAN
  BY <1>2 DEF IInv, TypeOK, RequestState
<1>. QED
  BY <1>6, <1>7, <1>8, <1>9 DEF RetryConsolidation, IInv, TypeOK

\* Every step keeps it.
LEMMA StepGood == IInv /\ [Next]_vars => IInv'
<1>. SUFFICES ASSUME IInv, [Next]_vars PROVE IInv'
  OBVIOUS
<1>1. CASE Begin
  BY <1>1 DEF Begin, database, IInv, TypeOK
<1>2. CASE EndRound \/ Finish
  <2>1. request' \in RequestState /\ mode' \in Modes
    BY <1>2 DEF EndRound, Finish, IInv, TypeOK, RequestState
  <2>. QED
    BY <1>2, <2>1, CommitGood DEF EndRound, Finish
<1>3. CASE BeginRetries
  BY <1>3, OutputAssumption DEF BeginRetries, database, IInv, TypeOK
<1>4. CASE Rollback
  <2>1. committed.request \in RequestState /\ committed.reported \subseteq WorkUnits
        /\ committed.block \in [Datasets -> BlockRow]
    BY DEF IInv, TypeOK
  <2>2. request' = committed.request /\ reported' = committed.reported
        /\ block' = committed.block
    BY <1>4 DEF Rollback, Restore
  <2>. QED
    BY <1>4, <2>1, <2>2 DEF Rollback, IInv, TypeOK
<1>5. CASE Restart
  BY <1>5 DEF Restart, database, IInv, TypeOK
<1>6. CASE Release
  <2>1. request' \in RequestState
    BY <1>6 DEF Release, RequestState
  <2>2. committed' = [request |-> request', reported |-> reported, block |-> block]
    BY <1>6 DEF Release, Database
  <2>. QED
    BY <1>6, <2>1, <2>2 DEF Release, IInv, TypeOK
<1>7. CASE TimePasses
  BY <1>7 DEF TimePasses, database, IInv, TypeOK
<1>8. CASE UNCHANGED vars
  BY <1>8 DEF vars, database, IInv, TypeOK
<1>. QED
  BY <1>1, <1>2, <1>3, <1>4, <1>5, <1>6, <1>7, <1>8, PollGood, RegisterGood,
     RetryReplicasGood, RetryRulesGood, RetryConsolidationGood DEF Next, Evaluation

-------------------------------------------------------------------------------
(* Theorems.                                                                  *)

\* Types are kept: no sequence of registrations, retries and rollbacks leaves a
\* row, the cache or Rucio's attachments outside of what they can be.
THEOREM BlockTypes == Spec => []TypeOK
<1>1. IInv => TypeOK
  BY DEF IInv
<1>. QED
  BY InitGood, StepGood, <1>1, PTL DEF Spec

\* No block gets its tape rule while it waits for work units, for any number of
\* datasets and work units and any failures of Rucio (_complete_block and
\* process_blocks_for_workflow).
THEOREM TapeWaits == Spec => []TapeWaitsForAll
<1>1. IInv => TapeWaitsForAll
  BY DEF IInv, Good, TapeWaitsForAll
<1>. QED
  BY InitGood, StepGood, <1>1, PTL DEF Spec

\* The retry finds every closed block that misses its tape rule, whatever failed
\* or was rolled back before.
THEOREM MissingFound == Spec => []MissingRulesAreFound
<1>1. IInv => MissingRulesAreFound
  BY DEF IInv, Good, MissingRulesAreFound, TypeOK, BlockRow
<1>. QED
  BY InitGood, StepGood, <1>1, PTL DEF Spec

-------------------------------------------------------------------------------
(* The blocks keep up with the DAGs as long as no Rucio call fails: what a     *)
(* call that returns writes, and what is still to be registered in "batch".    *)

\* A call that returned neither lost nor added work units, nor opened a block.
LEMMA RuleCallOk ==
    ASSUME NEW row, NEW good, NEW o \in RuleCall(row, good), o[2] = "ok" PROVE o[1] = good
BY DEF RuleCall, Outcome

\* Nor does the tape rule.
LEMMA TapeRuleOk ==
    ASSUME NEW row \in BlockRow, NEW o \in TapeRule(row), o[2] = "ok"
    PROVE  o[1] \in BlockRow /\ o[1].done = row.done /\ o[1].closed = row.closed
<1>. DEFINE good == [row EXCEPT !.tape = TRUE, !.st = "archived", !.err = FALSE]
<1>1. good \in BlockRow /\ good.done = row.done /\ good.closed = row.closed
  BY DEF BlockRow
<1>. HIDE DEF good
<1>2. o[1] = good \/ o[1] = row
  BY RuleCallOk DEF TapeRule, Outcome, good
<1>. QED
  BY <1>1, <1>2

\* Nor does the consolidation rule.
LEMMA ConsolidationRuleOk ==
    ASSUME NEW row \in BlockRow, NEW o \in ConsolidationRule(row), o[2] = "ok"
    PROVE  o[1].done = row.done /\ o[1].closed = row.closed
<1>. DEFINE good == [row EXCEPT !.consolidated = TRUE]
<1>1. good.done = row.done /\ good.closed = row.closed
  BY DEF BlockRow
<1>. HIDE DEF good
<1>2. o[1] = good \/ o[1] = row
  BY RuleCallOk DEF ConsolidationRule, Outcome, good
<1>. QED
  BY <1>1, <1>2

\* Completing a block closes it with the work units it has.
LEMMA CompleteBlockOk ==
    ASSUME NEW row \in BlockRow, NEW o \in CompleteBlock(row), o[2] = "ok"
    PROVE  o[1].done = row.done /\ o[1].closed
<1>. DEFINE closed == [row EXCEPT !.closed = TRUE, !.st = "complete"]
<1>1. closed \in BlockRow /\ closed.done = row.done /\ closed.closed
  BY DEF BlockRow
<1>. HIDE DEF closed
<1>2. PICK t \in TapeRule(closed) :
         o \in (IF t[2] = "ok" THEN ConsolidationRule(t[1]) ELSE {t})
  BY DEF CompleteBlock, Then, closed
<1>3. t[2] = "ok"
  BY <1>2
<1>4. t[1] \in BlockRow /\ t[1].done = row.done /\ t[1].closed
  BY <1>1, <1>3, TapeRuleOk
<1>. QED
  BY <1>2, <1>3, <1>4, ConsolidationRuleOk

\* A work unit registered is recorded, and closes the block it fills.
LEMMA HandleWorkUnitOk ==
    ASSUME NEW row \in BlockRow, NEW w \in WorkUnits, NEW o \in HandleWorkUnit(row, w), o[2] = "ok"
    PROVE  o[1].done = row.done \cup {w} /\ (IsFull(o[1]) => o[1].closed)
<1>. DEFINE recorded == [row EXCEPT !.done = @ \cup {w}]
            ruled == [recorded EXCEPT !.rules = @ \cup {w}]
<1>1. recorded \in BlockRow /\ recorded.done = row.done \cup {w}
  BY DEF BlockRow
<1>2. ruled \in BlockRow /\ ruled.done = row.done \cup {w}
  BY <1>1 DEF BlockRow
<1>. HIDE DEF recorded, ruled
<1>3. PICK s \in SourceRule(recorded, w) :
         o \in (IF s[2] = "ok"
                THEN IF IsFull(s[1]) THEN CompleteBlock(s[1]) ELSE {Outcome(s[1], "ok")}
                ELSE {s})
  BY DEF HandleWorkUnit, Then, Outcome, recorded
<1>4. s[2] = "ok"
  BY <1>3
<1>5. s[1] \in BlockRow /\ s[1].done = row.done \cup {w}
  <2>1. s[1] = ruled \/ s[1] = recorded
    BY <1>4, RuleCallOk DEF SourceRule, Outcome, ruled
  <2>. QED
    BY <1>1, <1>2, <2>1
<1>6. CASE IsFull(s[1])
  BY <1>3, <1>4, <1>5, <1>6, CompleteBlockOk
<1>7. CASE ~IsFull(s[1])
  BY <1>3, <1>4, <1>5, <1>7 DEF Outcome
<1>. QED
  BY <1>6, <1>7

\* A retry that returned changed no work units and closed nothing.
LEMMA RetriedRuleOk ==
    ASSUME NEW row \in BlockRow, NEW o \in RetriedRule(row), o[2] = "ok"
    PROVE  o[1].done = row.done /\ o[1].closed = row.closed
<1>. DEFINE good == [row EXCEPT !.err = FALSE]
<1>1. good.done = row.done /\ good.closed = row.closed
  BY DEF BlockRow
<1>. HIDE DEF good
<1>2. o[1] = row \/ o \in TapeRule(row) \/ o \in RuleCall(row, good)
  BY RetryIsOne DEF RetriedRule, Outcome, good
<1>. QED
  BY <1>1, <1>2, TapeRuleOk, RuleCallOk

\* Nor does a retried consolidation.
LEMMA RetriedConsolidationOk ==
    ASSUME NEW row \in BlockRow, NEW o \in RetriedConsolidation(row), o[2] = "ok"
    PROVE  o[1].done = row.done /\ o[1].closed = row.closed
<1>. DEFINE good == [row EXCEPT !.consolidated = TRUE, !.err = FALSE]
<1>1. good.done = row.done /\ good.closed = row.closed
  BY DEF BlockRow
<1>. HIDE DEF good
<1>2. o[1] = row \/ o \in RuleCall(row, good)
  BY RetryIsOne DEF RetriedConsolidation, Outcome, good
<1>. QED
  BY <1>1, <1>2, RuleCallOk

\* Work units with files to be registered in Rucio.
Due == {w \in WorkUnits : InRucio(w)}

\* A row has what is reported, but for what is still to be registered; it is
\* closed when that is enough, and its files are in Rucio.
RowAlike(row, ds, units, left, files, due) ==
    /\ row.done = {w \in units : <<w, ds>> \notin left}
    /\ IsFull(row) => row.closed
    /\ \A w \in row.done \cap due : <<ds, w>> \in files

KeepsUp ==
    /\ pc # "register" => batch = {}
    /\ batch \subseteq reported \X Datasets
    /\ ~failed => \A ds \in Datasets :
          /\ RowAlike(block[ds], ds, reported, batch, rucio, Due)
          /\ RowAlike(committed.block[ds], ds, committed.reported, {}, rucio, Due)

\* More files in Rucio leave the rows alike, and so do calls that keep their
\* work units.
LEMMA StillAlike ==
    ASSUME NEW row, NEW more, NEW ds, NEW units, NEW left, NEW files, NEW others, NEW due,
           RowAlike(row, ds, units, left, files, due), files \subseteq others,
           more.done = row.done, more.closed = row.closed
    PROVE  RowAlike(more, ds, units, left, others, due)
BY DEF RowAlike, IsFull

\* The mode is chosen once, so the same work units are due; a failure is not
\* forgotten, and nothing is taken from Rucio.
LEMMA OnlyMore ==
    ASSUME IInv, [Next]_vars
    PROVE  Due' = Due /\ (~failed' => ~failed) /\ rucio \subseteq rucio'
<1>1. mode' = mode
  BY DEF Next, vars, Begin, Evaluation, Poll, Register, EndRound, BeginRetries, RetryReplicas,
     RetryRules, RetryConsolidation, Finish, Rollback, Restart, Release, TimePasses
<1>2. ~failed' => ~failed
  BY DEF Next, vars, Begin, Evaluation, Poll, Register, EndRound, BeginRetries, RetryReplicas,
     RetryRules, RetryConsolidation, Retried, Finish, Rollback, Restart, Release, TimePasses
<1>3. rucio \subseteq rucio'
  <2>1. CASE Register \/ RetryReplicas \/ RetryConsolidation
    BY <2>1 DEF Register, RetryReplicas, RetryConsolidation, Reattached
  <2>2. CASE ~(Register \/ RetryReplicas \/ RetryConsolidation)
    BY <2>2 DEF Next, vars, Begin, Evaluation, Poll, EndRound, BeginRetries, RetryRules, Finish,
       Rollback, Restart, Release, TimePasses
  <2>. QED
    BY <2>1, <2>2
<1>. QED
  BY <1>1, <1>2, <1>3 DEF Due, InRucio, HasRSE

\* Every step keeps the rows alike what is reported.
LEMMA KeepsUpStep == IInv /\ KeepsUp /\ [Next]_vars => KeepsUp'
<1>. SUFFICES ASSUME IInv, KeepsUp, [Next]_vars PROVE KeepsUp'
  OBVIOUS
<1>0. /\ block \in [Datasets -> BlockRow] /\ batch \subseteq WorkUnits \X Datasets /\ retry \subseteq Datasets
      /\ reported \subseteq WorkUnits
      /\ Due' = Due /\ (~failed' => ~failed) /\ rucio \subseteq rucio'
      /\ \A ds \in Datasets : block[ds] \in BlockRow
  BY OnlyMore DEF IInv, TypeOK
<1>1. pc' # "register" => batch' = {}
  BY DEF KeepsUp, Next, vars, database, Begin, Evaluation, Poll, Register, EndRound, BeginRetries, RetryReplicas,
     RetryRules, RetryConsolidation, Finish, Commit, Rollback, Restart, Release, TimePasses
<1>10. batch' \subseteq reported' \X Datasets
  <2>1. CASE Poll
    BY <2>1 DEF Poll
  <2>2. CASE Register
    <3>1. batch' \subseteq batch /\ UNCHANGED reported
      BY <2>2 DEF Register
    <3>. QED
      BY <3>1 DEF KeepsUp
  <2>3. CASE ~Poll /\ ~Register
    <3>1. batch' = {} \/ UNCHANGED <<batch, reported>>
      BY <2>3 DEF Next, vars, database, Begin, Evaluation, EndRound, BeginRetries, RetryReplicas,
         RetryRules, RetryConsolidation, Finish, Commit, Rollback, Restart, Release, TimePasses
    <3>. QED
      BY <3>1 DEF KeepsUp
  <2>. QED
    BY <2>1, <2>2, <2>3
<1>. SUFFICES ASSUME ~failed', NEW ds \in Datasets
              PROVE  /\ RowAlike(block'[ds], ds, reported', batch', rucio', Due)
                     /\ RowAlike(committed'.block[ds], ds, committed'.reported, {}, rucio', Due)
  BY <1>0, <1>1, <1>10 DEF KeepsUp
<1>2. /\ RowAlike(block[ds], ds, reported, batch, rucio, Due)
      /\ RowAlike(committed.block[ds], ds, committed.reported, {}, rucio, Due)
  BY <1>0 DEF KeepsUp
<1>3. /\ RowAlike(block[ds], ds, reported, batch, rucio', Due)
      /\ RowAlike(committed.block[ds], ds, committed.reported, {}, rucio', Due)
  BY <1>0, <1>2, StillAlike
<1>4. CASE Begin \/ BeginRetries \/ Restart \/ TimePasses \/ RetryReplicas \/ UNCHANGED vars
  <2>1. UNCHANGED <<block, reported, batch, committed>>
    BY <1>4 DEF Begin, BeginRetries, Restart, TimePasses, RetryReplicas, vars, database
  <2>. QED
    BY <1>3, <2>1
<1>5. CASE EndRound \/ Finish \/ Release
  <2>1. UNCHANGED <<block, reported>> /\ batch = {} /\ batch' = {}
        /\ committed'.block = block /\ committed'.reported = reported
    BY <1>5 DEF EndRound, Finish, Release, Commit, Database, KeepsUp
  <2>. QED
    BY <1>3, <2>1
<1>6. CASE Poll
  <2>1. PICK S \in (SUBSET (WorkUnits \ reported)) \ {{}} :
           reported' = reported \cup S /\ batch' = S \X Datasets
    BY <1>6 DEF Poll
  <2>2. UNCHANGED <<block, committed>> /\ batch = {}
    BY <1>6 DEF Poll, KeepsUp
  <2>3. {w \in reported' : <<w, ds>> \notin batch'} = {w \in reported : <<w, ds>> \notin batch}
    BY <2>1, <2>2
  <2>. QED
    BY <1>3, <2>2, <2>3 DEF RowAlike
<1>7. CASE Register
  <2>. DEFINE w == FirstPair(batch)[1]
              b == FirstPair(batch)[2]
  <2>1. batch # {} /\ batch \in SUBSET (WorkUnits \X Datasets)
    BY <1>0, <1>7 DEF Register, IInv
  <2>2. FirstPair(batch) \in batch /\ w \in WorkUnits /\ b \in Datasets /\ FirstPair(batch) = <<w, b>>
    BY <2>1, FirstPairIsOne
  <2>3. PICK o \in HandleWorkUnit(block[b], w) :
           /\ block' = [block EXCEPT ![b] = o[1]]
           /\ batch' = IF o[2] = "ok" THEN batch \ {<<w, b>>} ELSE {}
           /\ failed' = (failed \/ o[2] # "ok")
           /\ IF InRucio(w) /\ o[2] # "raised" THEN rucio' = rucio \cup {<<b, w>>} ELSE TRUE
    BY <1>7 DEF Register
  <2>4. UNCHANGED <<reported, committed>>
    BY <1>7 DEF Register
  <2>5. <<w, b>> \in batch
    BY <2>2
  <2>. HIDE DEF w, b
  <2>6. o[2] = "ok" /\ batch' = batch \ {<<w, b>>} /\ (w \in Due => <<b, w>> \in rucio')
    BY <2>3 DEF Due
  <2>7. o[1].done = block[b].done \cup {w} /\ (IsFull(o[1]) => o[1].closed)
    BY <1>0, <2>2, <2>3, <2>6, HandleWorkUnitOk
  <2>8. CASE ds # b
    <3>1. block'[ds] = block[ds]
      BY <1>0, <2>3, <2>8
    <3>2. {v \in reported : <<v, ds>> \notin batch'} = {v \in reported : <<v, ds>> \notin batch}
      BY <2>6, <2>8
    <3>. QED
      BY <1>3, <2>4, <3>1, <3>2 DEF RowAlike
  <2>9. CASE ds = b
    <3>1. block'[ds] = o[1]
      BY <1>0, <2>3, <2>9
    <3>2. w \in reported
      BY <2>5 DEF KeepsUp
    <3>3. {v \in reported : <<v, ds>> \notin batch'} = {v \in reported : <<v, ds>> \notin batch} \cup {w}
      BY <2>6, <2>9, <3>2
    <3>4. o[1].done = {v \in reported : <<v, ds>> \notin batch'}
      BY <1>3, <2>7, <2>9, <3>3 DEF RowAlike
    <3>5. \A v \in o[1].done \cap Due : <<ds, v>> \in rucio'
      BY <1>3, <2>6, <2>7, <2>9 DEF RowAlike
    <3>. QED
      BY <1>3, <2>4, <2>7, <3>1, <3>4, <3>5 DEF RowAlike
  <2>. QED
    BY <2>8, <2>9
<1>8. CASE RetryRules \/ RetryConsolidation
  <2>. DEFINE b == First(retry)
  <2>1. b \in Datasets
    BY <1>0, <1>8, FirstIsOne DEF RetryRules, RetryConsolidation, IInv
  <2>2. UNCHANGED <<reported, batch, committed>>
    BY <1>8 DEF RetryRules, RetryConsolidation
  <2>3. PICK o \in RetriedRule(block[b]) \cup RetriedConsolidation(block[b]) :
           block' = [block EXCEPT ![b] = o[1]] /\ failed' = (failed \/ o[2] # "ok")
    BY <1>8 DEF RetryRules, RetryConsolidation, Retried
  <2>. HIDE DEF b
  <2>4. o[2] = "ok"
    BY <2>3
  <2>5. o[1].done = block[b].done /\ o[1].closed = block[b].closed
    BY <1>0, <2>1, <2>3, <2>4, RetriedRuleOk, RetriedConsolidationOk
  <2>6. block'[ds].done = block[ds].done /\ block'[ds].closed = block[ds].closed
    BY <1>0, <2>3, <2>5
  <2>7. RowAlike(block'[ds], ds, reported, batch, rucio', Due)
    BY <1>3, <2>6, StillAlike
  <2>. QED
    BY <1>3, <2>2, <2>7
<1>9. CASE Rollback
  <2>1. block' = committed.block /\ reported' = committed.reported /\ batch' = {} /\ UNCHANGED committed
    BY <1>9 DEF Rollback, Restore
  <2>. QED
    BY <1>3, <2>1
<1>. QED
  BY <1>4, <1>5, <1>6, <1>7, <1>8, <1>9 DEF Next, Evaluation

\* As long as no Rucio call fails the blocks keep up with the DAGs: all record
\* what is reported, are closed exactly when full, and have their files in
\* Rucio, rollbacks or not.
THEOREM BlocksFollow == Spec => []BlocksKeepUp
<1>1. Init => KeepsUp
  <2>. SUFFICES ASSUME Init, NEW ds \in Datasets
                PROVE  batch = {} /\ RowAlike(block[ds], ds, reported, batch, rucio, Due)
                       /\ committed.block = block /\ committed.reported = reported
    BY DEF KeepsUp, Init, Database
  <2>1. ~IsFull(NewBlock)
    BY FS_EmptySet, OutputAssumption DEF IsFull, NewBlock
  <2>2. block[ds] = NewBlock /\ NewBlock.done = {}
    BY DEF Init, NewBlock
  <2>. QED
    BY <2>1, <2>2 DEF Init, RowAlike, Database
<1>2. IInv /\ KeepsUp => BlocksKeepUp
  <2>. SUFFICES ASSUME IInv, KeepsUp, pc \in {"idle", "down"}, ~failed, NEW ds \in Datasets
                PROVE  /\ block[ds].done = reported
                       /\ block[ds].closed <=> IsFull(block[ds])
                       /\ \A w \in reported : InRucio(w) => <<ds, w>> \in rucio
    BY DEF BlocksKeepUp, Idle
  <2>1. RowAlike(block[ds], ds, reported, {}, rucio, Due) /\ reported \subseteq WorkUnits
    BY DEF KeepsUp, IInv, TypeOK
  <2>2. block[ds].closed => IsFull(block[ds])
    BY DEF IInv, Good
  <2>. QED
    BY <2>1, <2>2 DEF RowAlike, Due
<1>. QED
  BY InitGood, StepGood, KeepsUpStep, <1>1, <1>2, PTL DEF Spec

-------------------------------------------------------------------------------
(* The adaptive tuning.  First the sums that it is computed with: the          *)
(* induction is over the sets that a fold visits, with the least-number        *)
(* principle for their cardinality.                                            *)

\* The element that a fold takes next.
NextOf(s) == CHOOSE x \in s : TRUE

\* What is left is smaller.
LEMMA NextLeaves ==
    ASSUME NEW D, IsFiniteSet(D), NEW s \in SUBSET D, s # {}
    PROVE  /\ NextOf(s) \in s /\ s \ {NextOf(s)} \in SUBSET D
           /\ Cardinality(s) \in Nat /\ Cardinality(s) > 0
           /\ Cardinality(s \ {NextOf(s)}) = Cardinality(s) - 1
<1>1. NextOf(s) \in s
  BY DEF NextOf
<1>2. IsFiniteSet(s)
  BY FS_Subset
<1>3. Cardinality(s) \in Nat /\ Cardinality(s) # 0
  BY <1>2, FS_CardinalityType, FS_EmptySet
<1>4. Cardinality(s \ {NextOf(s)}) = Cardinality(s) - 1
  BY <1>1, <1>2, FS_RemoveElement
<1>. QED
  BY <1>1, <1>3, <1>4

\* What holds of the empty set, and of a set if of what is left of it, holds of all.
LEMMA SubsetsInduct ==
    ASSUME NEW D, IsFiniteSet(D), NEW Q, {} \in Q,
           \A s \in SUBSET D : s # {} /\ s \ {NextOf(s)} \in Q => s \in Q
    PROVE  D \in Q
<1>. DEFINE Outside(n) == \E s \in SUBSET D : s \notin Q /\ Cardinality(s) = n
            Bad == {n \in Nat : Outside(n)}
<1>1. SUFFICES ASSUME D \notin Q PROVE FALSE
  OBVIOUS
<1>2. Bad # {}
  <2>1. Cardinality(D) \in Nat
    BY FS_CardinalityType
  <2>. QED
    BY <1>1, <2>1
<1>3. PICK n \in Bad : \A m \in Bad : n <= m
  BY <1>2, Least
<1>4. PICK s \in SUBSET D : s \notin Q /\ Cardinality(s) = n
  BY <1>3
<1>5. s # {} /\ s \ {NextOf(s)} \notin Q
  BY <1>4
<1>6. /\ s \ {NextOf(s)} \in SUBSET D /\ Cardinality(s \ {NextOf(s)}) = n - 1 /\ n - 1 \in Nat
  <2>1. /\ s \ {NextOf(s)} \in SUBSET D /\ Cardinality(s) \in Nat /\ Cardinality(s) > 0
        /\ Cardinality(s \ {NextOf(s)}) = Cardinality(s) - 1
    BY <1>5, NextLeaves
  <2>. QED
    BY <1>4, <2>1
<1>7. n - 1 \in Bad
  BY <1>5, <1>6
<1>. QED
  BY <1>3, <1>6, <1>7

\* The equation of the fold that adds up a function.
Folds(f, iter) ==
    iter = [s \in SUBSET DOMAIN f |-> IF s = {} THEN 0 ELSE f[NextOf(s)] + iter[s \ {NextOf(s)}]]

\* The same for the sets that are no larger than n.
Small(D, n) == {s \in SUBSET D : Cardinality(s) <= n}
FoldsSmall(f, n, iter) ==
    iter = [s \in Small(DOMAIN f, n) |-> IF s = {} THEN 0 ELSE f[NextOf(s)] + iter[s \ {NextOf(s)}]]

\* The fold of a function on a finite set exists.
LEMMA FoldExists == ASSUME NEW f, IsFiniteSet(DOMAIN f) PROVE \E iter : Folds(f, iter)
<1>. DEFINE D == DOMAIN f
            Bad == {n \in Nat : ~ \E iter : FoldsSmall(f, n, iter)}
<1>1. \E iter : FoldsSmall(f, 0, iter)
  <2>. DEFINE iter == [s \in Small(D, 0) |-> 0]
  <2>1. \A s \in Small(D, 0) : s = {}
    <3>. SUFFICES ASSUME NEW s \in Small(D, 0), s # {} PROVE FALSE
      OBVIOUS
    <3>1. s \in SUBSET D /\ Cardinality(s) <= 0
      BY DEF Small
    <3>2. Cardinality(s) \in Nat /\ Cardinality(s) > 0
      BY <3>1, NextLeaves
    <3>. QED
      BY <3>1, <3>2
  <2>2. iter = [s \in Small(D, 0) |-> IF s = {} THEN 0 ELSE f[NextOf(s)] + iter[s \ {NextOf(s)}]]
    BY <2>1
  <2>. QED
    BY <2>2 DEF FoldsSmall
<1>2. ASSUME NEW n \in Nat, NEW g, FoldsSmall(f, n, g) PROVE \E iter : FoldsSmall(f, n + 1, iter)
  <2>. DEFINE iter == [s \in Small(D, n + 1) |-> IF s = {} THEN 0 ELSE f[NextOf(s)] + g[s \ {NextOf(s)}]]
  <2>1. \A s \in Small(D, n) : s \in Small(D, n + 1) /\ iter[s] = g[s]
    <3>. SUFFICES ASSUME NEW s \in Small(D, n) PROVE s \in Small(D, n + 1) /\ iter[s] = g[s]
      OBVIOUS
    <3>1. s \in SUBSET D /\ Cardinality(s) <= n /\ Cardinality(s) \in Nat
      BY FS_Subset, FS_CardinalityType DEF Small
    <3>2. s \in Small(D, n + 1)
      BY <3>1 DEF Small
    <3>3. g[s] = IF s = {} THEN 0 ELSE f[NextOf(s)] + g[s \ {NextOf(s)}]
      BY <1>2, Zenon DEF FoldsSmall
    <3>. QED
      BY <3>2, <3>3
  <2>2. \A s \in Small(D, n + 1) : s # {} => s \ {NextOf(s)} \in Small(D, n)
    <3>. SUFFICES ASSUME NEW s \in Small(D, n + 1), s # {} PROVE s \ {NextOf(s)} \in Small(D, n)
      OBVIOUS
    <3>1. s \in SUBSET D /\ Cardinality(s) <= n + 1
      BY DEF Small
    <3>2. /\ s \ {NextOf(s)} \in SUBSET D /\ Cardinality(s) \in Nat
          /\ Cardinality(s \ {NextOf(s)}) = Cardinality(s) - 1
      BY <3>1, NextLeaves
    <3>. QED
      BY <3>1, <3>2 DEF Small
  <2>3. iter = [s \in Small(D, n + 1) |-> IF s = {} THEN 0 ELSE f[NextOf(s)] + iter[s \ {NextOf(s)}]]
    <3>1. ASSUME NEW s \in Small(D, n + 1)
          PROVE  iter[s] = IF s = {} THEN 0 ELSE f[NextOf(s)] + iter[s \ {NextOf(s)}]
      BY <2>1, <2>2
    <3>2. iter = [s \in Small(D, n + 1) |-> iter[s]]
      OBVIOUS
    <3>. HIDE DEF iter
    <3>. QED
      BY <3>1, <3>2, Zenon
  <2>. HIDE DEF iter
  <2>. QED
    BY <2>3 DEF FoldsSmall
<1>3. Bad = {}
  <2>. SUFFICES ASSUME Bad # {} PROVE FALSE
    OBVIOUS
  <2>1. PICK n \in Bad : \A m \in Bad : n <= m
    BY Least
  <2>2. n # 0
    BY <1>1, <2>1
  <2>3. n - 1 \in Nat /\ n - 1 \notin Bad
    BY <2>1, <2>2
  <2>4. PICK g : FoldsSmall(f, n - 1, g)
    BY <2>3
  <2>5. \E iter : FoldsSmall(f, (n - 1) + 1, iter)
    BY <1>2, <2>3, <2>4
  <2>. QED
    BY <2>1, <2>5
<1>4. Cardinality(D) \in Nat /\ Small(D, Cardinality(D)) = SUBSET D
  BY FS_CardinalityType, FS_Subset DEF Small
<1>5. PICK iter : FoldsSmall(f, Cardinality(D), iter)
  BY <1>3, <1>4
<1>. QED
  BY <1>4, <1>5, Zenon DEF FoldsSmall, Folds

\* Sums over the parts of a function's domain.
SumOver(f, s) == (CHOOSE iter : Folds(f, iter))[s]

\* A sum adds the next element to the sum of what is left.
LEMMA SumUnfolds ==
    ASSUME NEW f, IsFiniteSet(DOMAIN f)
    PROVE  /\ SumFunction(f) = SumOver(f, DOMAIN f) /\ SumOver(f, {}) = 0
           /\ \A s \in SUBSET DOMAIN f :
                 s # {} => SumOver(f, s) = f[NextOf(s)] + SumOver(f, s \ {NextOf(s)})
<1>. DEFINE iter == CHOOSE g : Folds(f, g)
<1>1. Folds(f, iter)
  BY FoldExists, Zenon
<1>2. \A s : SumOver(f, s) = iter[s]
  BY DEF SumOver
<1>3. SumFunction(f) = SumOver(f, DOMAIN f)
  BY DEF SumFunction, SumFunctionOnSet, FoldFunctionOnSet, MapThenFoldSet, SumOver, Folds, NextOf
<1>4. \A s \in SUBSET DOMAIN f :
         iter[s] = IF s = {} THEN 0 ELSE f[NextOf(s)] + iter[s \ {NextOf(s)}]
  BY <1>1, Zenon DEF Folds
<1>. HIDE DEF iter
<1>. QED
  BY <1>2, <1>3, <1>4

\* The sum of natural numbers is one.
LEMMA SumType ==
    ASSUME NEW D, IsFiniteSet(D), NEW f \in [D -> Nat] PROVE SumFunction(f) \in Nat
<1>. DEFINE Q == {s \in SUBSET D : SumOver(f, s) \in Nat}
<1>1. DOMAIN f = D
  OBVIOUS
<1>2. {} \in Q
  BY <1>1, SumUnfolds
<1>3. ASSUME NEW s \in SUBSET D, s # {}, s \ {NextOf(s)} \in Q PROVE s \in Q
  <2>1. SumOver(f, s) = f[NextOf(s)] + SumOver(f, s \ {NextOf(s)})
    BY <1>1, <1>3, SumUnfolds
  <2>2. f[NextOf(s)] \in Nat
    BY <1>3, NextLeaves
  <2>. QED
    BY <1>3, <2>1, <2>2
<1>. HIDE DEF Q
<1>4. D \in Q
  BY <1>2, <1>3, SubsetsInduct
<1>. QED
  BY <1>1, <1>4, SumUnfolds DEF Q

\* The sum of larger numbers is no less.
LEMMA SumGrows ==
    ASSUME NEW D, IsFiniteSet(D), NEW f \in [D -> Nat], NEW g \in [D -> Nat],
           \A x \in D : f[x] <= g[x]
    PROVE  SumFunction(f) <= SumFunction(g)
<1>. DEFINE Q == {s \in SUBSET D : /\ SumOver(f, s) \in Nat /\ SumOver(g, s) \in Nat
                                   /\ SumOver(f, s) <= SumOver(g, s)}
<1>1. DOMAIN f = D /\ DOMAIN g = D
  OBVIOUS
<1>2. {} \in Q
  BY <1>1, SumUnfolds
<1>3. ASSUME NEW s \in SUBSET D, s # {}, s \ {NextOf(s)} \in Q PROVE s \in Q
  <2>1. /\ SumOver(f, s) = f[NextOf(s)] + SumOver(f, s \ {NextOf(s)})
        /\ SumOver(g, s) = g[NextOf(s)] + SumOver(g, s \ {NextOf(s)})
    BY <1>1, <1>3, SumUnfolds
  <2>2. f[NextOf(s)] \in Nat /\ g[NextOf(s)] \in Nat /\ f[NextOf(s)] <= g[NextOf(s)]
    BY <1>3, NextLeaves
  <2>. QED
    BY <1>3, <2>1, <2>2
<1>. HIDE DEF Q
<1>4. D \in Q
  BY <1>2, <1>3, SubsetsInduct
<1>. QED
  BY <1>1, <1>4, SumUnfolds DEF Q

\* A common factor can be taken out of a sum.
LEMMA SumTimes ==
    ASSUME NEW D, IsFiniteSet(D), NEW f \in [D -> Nat], NEW c \in Nat
    PROVE  SumFunction([x \in D |-> c * f[x]]) = c * SumFunction(f)
<1>. DEFINE g == [x \in D |-> c * f[x]]
            Q == {s \in SUBSET D : SumOver(f, s) \in Nat /\ SumOver(g, s) = c * SumOver(f, s)}
<1>1. DOMAIN f = D /\ DOMAIN g = D
  OBVIOUS
<1>2. {} \in Q
  BY <1>1, SumUnfolds
<1>3. ASSUME NEW s \in SUBSET D, s # {}, s \ {NextOf(s)} \in Q PROVE s \in Q
  <2>. DEFINE n == f[NextOf(s)]
              rest == SumOver(f, s \ {NextOf(s)})
  <2>1. /\ SumOver(f, s) = n + rest
        /\ SumOver(g, s) = g[NextOf(s)] + SumOver(g, s \ {NextOf(s)})
    BY <1>1, <1>3, SumUnfolds
  <2>2. n \in Nat /\ g[NextOf(s)] = c * n
    BY <1>3, NextLeaves
  <2>3. rest \in Nat /\ SumOver(g, s \ {NextOf(s)}) = c * rest
    BY <1>3
  <2>. HIDE DEF n, rest, g
  <2>4. c * (n + rest) = c * n + c * rest
    BY <2>2, <2>3
  <2>. QED
    BY <2>1, <2>2, <2>3, <2>4
<1>. HIDE DEF Q
<1>4. D \in Q
  BY <1>2, <1>3, SubsetsInduct
<1>. QED
  BY <1>1, <1>4, SumUnfolds DEF Q

\* The sum of as many ones as there are elements.
LEMMA SumOnes ==
    ASSUME NEW D, IsFiniteSet(D) PROVE SumFunction([x \in D |-> 1]) = Cardinality(D)
<1>. DEFINE f == [x \in D |-> 1]
            Q == {s \in SUBSET D : SumOver(f, s) = Cardinality(s)}
<1>1. DOMAIN f = D
  OBVIOUS
<1>2. {} \in Q
  BY <1>1, SumUnfolds, FS_EmptySet
<1>3. ASSUME NEW s \in SUBSET D, s # {}, s \ {NextOf(s)} \in Q PROVE s \in Q
  <2>1. SumOver(f, s) = f[NextOf(s)] + SumOver(f, s \ {NextOf(s)})
    BY <1>1, <1>3, SumUnfolds
  <2>2. /\ f[NextOf(s)] = 1 /\ Cardinality(s) \in Nat
        /\ Cardinality(s \ {NextOf(s)}) = Cardinality(s) - 1
    BY <1>3, NextLeaves
  <2>. QED
    BY <1>3, <2>1, <2>2
<1>. HIDE DEF Q
<1>4. D \in Q
  BY <1>2, <1>3, SubsetsInduct
<1>. QED
  BY <1>1, <1>4, SumUnfolds DEF Q

-------------------------------------------------------------------------------
(* Arithmetic. *)

\* The constants are numbers, most of them positive.
LEMMA TuningNumbers ==
    /\ NumSteps \in Nat /\ NumSteps > 0 /\ Cores \in Nat /\ Cores > 0
    /\ EventsPerJob \in Nat /\ EventsPerJob > 0 /\ JobsPerWU \in Nat /\ JobsPerWU > 0
    /\ MaxJobsPerWU \in Nat /\ MaxJobsPerWU > 0 /\ TargetMerged \in Nat /\ TargetMerged > 0
    /\ MaxPerCore \in Nat /\ MaxPerCore > 0 /\ DefaultPerCore \in Nat /\ DefaultPerCore > 0
    /\ DefaultPerCore <= MaxPerCore /\ SafetyPercent \in Nat /\ StartupOverhead \in Nat
    /\ PilotPercent \in 1..100 /\ FirstRoundWUs \in Nat /\ WUsPerRound \in Nat
    /\ MaxRounds \in Nat /\ MaxUnread \in Nat
BY TuningAssumption DEF TuningConstants

\* A product of natural numbers is one; it is positive if both factors are.
LEMMA Product ==
    ASSUME NEW a \in Nat, NEW b \in Nat
    PROVE  a * b \in Nat /\ (a > 0 /\ b > 0 => a * b > 0) /\ a * b = b * a
OBVIOUS

\* A product grows with its factors.
LEMMA ProductGrows ==
    ASSUME NEW a \in Nat, NEW b \in Nat, NEW c \in Nat, a <= b
    PROVE  a * c <= b * c
<1>1. b - a \in Nat /\ (b - a) * c \in Nat
  BY Product
<1>2. b * c = a * c + (b - a) * c
  OBVIOUS
<1>3. a * c \in Nat /\ b * c \in Nat
  BY Product
<1>. QED
  BY <1>1, <1>2, <1>3

\* Euclidean division.
LEMMA Division ==
    ASSUME NEW a \in Nat, NEW q \in Nat, q > 0
    PROVE  /\ a \div q \in Nat
           /\ (a \div q) * q <= a /\ a < (a \div q) * q + q
OBVIOUS

\* A quotient is positive when the divisor is no larger, and no larger than the
\* dividend.
LEMMA Quotient ==
    ASSUME NEW a \in Nat, NEW q \in Nat, q > 0
    PROVE  a \div q \in Nat /\ a \div q <= a /\ (q <= a => a \div q > 0) /\ (a < q => a \div q = 0)
<1>. DEFINE d == a \div q
<1>1. d \in Nat /\ d * q <= a /\ a < d * q + q
  BY Division
<1>. HIDE DEF d
<1>2. d <= d * q
  BY <1>1
<1>3. q <= a => d > 0
  <2>1. d = 0 => d * q = 0
    OBVIOUS
  <2>. QED
    BY <1>1, <2>1
<1>4. a < q => d = 0
  <2>1. d > 0 => d * q >= q
    BY <1>1
  <2>. QED
    BY <1>1, <2>1
<1>. QED
  BY <1>1, <1>2, <1>3, <1>4 DEF d

\* The smallest of a set of natural numbers, and the largest one if there is a bound.
LEMMA MinIsOne ==
    ASSUME NEW S \in SUBSET Nat, S # {}
    PROVE  Min(S) \in S /\ \A x \in S : Min(S) <= x
<1>1. \E x \in S : \A y \in S : x <= y
  BY Least
<1>2. Min(S) = CHOOSE x \in S : \A y \in S : x <= y
  BY DEF Min
<1>. QED
  BY <1>1, <1>2

\* A set of natural numbers with a bound has a maximum.
LEMMA MaxIsOne ==
    ASSUME NEW bound \in Nat, NEW S \in SUBSET (0..bound), S # {}
    PROVE  Max(S) \in S /\ \A x \in S : x <= Max(S)
<1>. DEFINE Bounds == {b \in Nat : \A x \in S : x <= b}
<1>1. bound \in Bounds /\ Bounds \in SUBSET Nat /\ Bounds # {}
  OBVIOUS
<1>2. PICK b \in Bounds : \A c \in Bounds : b <= c
  BY <1>1, Least
<1>3. b \in S
  <2>. SUFFICES ASSUME b \notin S PROVE FALSE
    OBVIOUS
  <2>1. \A x \in S : x \in Nat /\ x <= b - 1
    BY <1>2
  <2>2. b - 1 \in Bounds
    <3>1. PICK x \in S : TRUE
      OBVIOUS
    <3>2. b \in Nat /\ x \in Nat /\ x <= b - 1
      BY <1>2, <2>1
    <3>. QED
      BY <2>1, <3>2
  <2>. QED
    BY <1>2, <2>2
<1>4. \E x \in S : \A y \in S : x >= y
  BY <1>2, <1>3
<1>5. Max(S) = CHOOSE x \in S : \A y \in S : x >= y
  BY DEF Max
<1>. QED
  BY <1>4, <1>5

\* Finitely many natural numbers have a bound.
LEMMA FinitelyBounded ==
    ASSUME NEW n \in Nat, NEW f \in [1..n -> Nat]
    PROVE  \E bound \in Nat : \A i \in 1..n : f[i] <= bound
<1>. DEFINE Holds(k) == \E bound \in Nat : \A i \in 1..k : f[i] <= bound
            Bad == {k \in 0..n : ~Holds(k)}
<1>1. Holds(0)
  <2>1. 1..0 = {} /\ 0 \in Nat
    OBVIOUS
  <2>. QED
    BY <2>1
<1>2. ASSUME NEW k \in 1..n, Holds(k - 1) PROVE Holds(k)
  <2>1. PICK bound \in Nat : \A i \in 1..(k - 1) : f[i] <= bound
    BY <1>2
  <2>2. k \in 1..n /\ f[k] \in Nat /\ bound + f[k] \in Nat
    OBVIOUS
  <2>3. \A i \in 1..k : f[i] <= bound + f[k]
    <3>. SUFFICES ASSUME NEW i \in 1..k PROVE f[i] <= bound + f[k]
      OBVIOUS
    <3>1. f[i] \in Nat /\ (i = k \/ i \in 1..(k - 1))
      BY <2>2
    <3>. QED
      BY <2>1, <2>2, <3>1
  <2>. QED
    BY <2>2, <2>3
<1>. HIDE DEF Holds
<1>3. Bad = {}
  <2>. SUFFICES ASSUME Bad # {} PROVE FALSE
    OBVIOUS
  <2>1. Bad \in SUBSET Nat
    OBVIOUS
  <2>2. PICK k \in Bad : \A m \in Bad : k <= m
    BY <2>1, Least
  <2>3. k \in 1..n /\ ~Holds(k)
    BY <1>1, <2>2
  <2>4. k - 1 \in 0..n /\ ~(k - 1 \in Bad)
    BY <2>2, <2>3
  <2>5. Holds(k - 1)
    BY <2>4
  <2>. QED
    BY <1>2, <2>3, <2>5
<1>4. Holds(n)
  BY <1>3
<1>. QED
  BY <1>4 DEF Holds

\* Rounding to the nearest multiple: half of the divisor at most is lost.
LEMMA NearestIsNear ==
    ASSUME NEW n \in Nat, NEW d \in Nat, d > 0
    PROVE  /\ Nearest(n, d) \in Nat
           /\ 2 * (Nearest(n, d) * d) <= 2 * n + d /\ 2 * n + d <= 2 * (Nearest(n, d) * d) + 2 * d
<1>. DEFINE a == 2 * n + d
            q == 2 * d
            k == a \div q
<1>1. a \in Nat /\ q \in Nat /\ q > 0
  OBVIOUS
<1>2. k \in Nat /\ k * q <= a /\ a < k * q + q
  <2>. HIDE DEF a, q
  <2>. QED
    BY <1>1, Division
<1>3. Nearest(n, d) = IF a = q * k /\ k % 2 = 1 THEN k - 1 ELSE k
  BY DEF Nearest
<1>. HIDE DEF k
<1>4. k * q = 2 * (k * d) /\ q * k = 2 * (k * d)
  BY <1>2
<1>5. CASE a = q * k /\ k % 2 = 1
  <2>1. k > 0
    BY <1>2, <1>5
  <2>2. k - 1 \in Nat /\ (k - 1) * d = k * d - d /\ k * d \in Nat
    BY <1>2, <2>1, Product
  <2>. QED
    BY <1>3, <1>4, <1>5, <2>2
<1>6. CASE ~(a = q * k /\ k % 2 = 1)
  BY <1>2, <1>3, <1>4, <1>6
<1>. QED
  BY <1>5, <1>6

\* The nearest power of two is one, and no larger than a power of two that the
\* fraction does not exceed.
LEMMA NearestPower ==
    ASSUME NEW a \in Nat, NEW b \in Nat
    PROVE  /\ NearestPowerOf2(a, b) \in PowersOf2
           /\ \A p \in PowersOf2 : a <= p * b => NearestPowerOf2(a, b) <= p
<1>. DEFINE fits == {p \in PowersOf2 : p = 64 \/ a * a <= 2 * p * p * b * b}
<1>1. fits \in SUBSET Nat /\ 64 \in fits
  BY DEF PowersOf2
<1>2. NearestPowerOf2(a, b) = Min(fits)
  BY DEF NearestPowerOf2
<1>3. ASSUME NEW p \in PowersOf2, a <= p * b PROVE p \in fits
  <2>1. p \in Nat
    BY DEF PowersOf2
  <2>. DEFINE m == p * b
  <2>2. m \in Nat /\ a <= m
    BY <1>3, <2>1, Product
  <2>3. 2 * p * p * b * b = 2 * (m * m)
    BY <2>1
  <2>. HIDE DEF m
  <2>4. a * a <= m * a /\ a * m <= m * m /\ a * m = m * a /\ m * m \in Nat /\ a * a \in Nat
    BY <2>2, ProductGrows, Product
  <2>. DEFINE aa == a * a
              mm == m * m
              am == a * m
  <2>5. aa \in Nat /\ mm \in Nat /\ am \in Nat /\ aa <= am /\ am <= mm
    BY <2>2, <2>4, Product
  <2>6. aa <= 2 * mm
    <3>. HIDE DEF aa, mm, am
    <3>. QED
      BY <2>5
  <2>. QED
    BY <2>3, <2>6
<1>. HIDE DEF fits
<1>4. Min(fits) \in fits /\ \A x \in fits : Min(fits) <= x
  BY <1>1, MinIsOne
<1>. QED
  BY <1>2, <1>3, <1>4 DEF fits

\* A quotient is bounded when the dividend is.
LEMMA QuotientBound ==
    ASSUME NEW a \in Nat, NEW q \in Nat, q > 0, NEW b \in Nat, a <= b * q
    PROVE  a \div q <= b
<1>. DEFINE d == a \div q
<1>1. d \in Nat /\ d * q <= a
  BY Division
<1>. HIDE DEF d
<1>2. b + 1 <= d => (b + 1) * q <= d * q
  BY <1>1, ProductGrows
<1>3. (b + 1) * q = b * q + q
  OBVIOUS
<1>4. b * q \in Nat /\ d * q \in Nat
  BY <1>1, Product
<1>5. d <= b
  BY <1>1, <1>2, <1>3, <1>4
<1>. QED
  BY <1>5 DEF d

\* A quotient grows with the dividend.
LEMMA QuotientGrows ==
    ASSUME NEW a \in Nat, NEW b \in Nat, NEW q \in Nat, q > 0, a <= b
    PROVE  a \div q <= b \div q
<1>. DEFINE d == a \div q
            e == b \div q
<1>1. d \in Nat /\ d * q <= a /\ e \in Nat /\ b < e * q + q
  BY Division
<1>. HIDE DEF d, e
<1>2. e + 1 <= d => (e + 1) * q <= d * q
  BY <1>1, ProductGrows
<1>3. (e + 1) * q = e * q + q /\ d * q \in Nat /\ e * q \in Nat
  BY <1>1, Product
<1>4. d <= e
  BY <1>1, <1>2, <1>3
<1>. QED
  BY <1>4 DEF d, e

\* The margin is one on a natural number, and grows with it.
LEMMA MarginType ==
    ASSUME NEW a \in Nat, NEW b \in Nat, a <= b
    PROVE  MarginOn(a) \in Nat /\ MarginOn(b) \in Nat /\ MarginOn(a) <= MarginOn(b)
<1>. DEFINE f == 100 + SafetyPercent
<1>1. f \in Nat
  BY TuningNumbers
<1>. HIDE DEF f
<1>2. a * f \in Nat /\ b * f \in Nat /\ a * f <= b * f
  BY <1>1, Product, ProductGrows
<1>3. (a * f) \div 100 \in Nat /\ (b * f) \div 100 \in Nat /\ (a * f) \div 100 <= (b * f) \div 100
  <2>. DEFINE x == a * f
              y == b * f
  <2>. HIDE DEF x, y
  <2>1. x \in Nat /\ y \in Nat /\ x <= y => x \div 100 \in Nat /\ y \div 100 \in Nat /\ x \div 100 <= y \div 100
    OBVIOUS
  <2>. QED
    BY <1>2, <2>1 DEF x, y
<1>. QED
  BY <1>3 DEF MarginOn, f

\* The steps, the first one among them.
LEMMA StepsFinite ==
    /\ IsFiniteSet(Steps) /\ Cardinality(Steps) = NumSteps
    /\ 1 \in Steps /\ Steps # {} /\ \A s \in Steps : s \in Nat
<1>1. 1 \in Nat /\ NumSteps \in Nat /\ 1 <= NumSteps
  BY TuningNumbers
<1>2. IsFiniteSet(1..NumSteps) /\ Cardinality(1..NumSteps) = NumSteps
  BY <1>1, FS_Interval
<1>. QED
  BY <1>1, <1>2 DEF Steps

\* The powers of two are positive.
LEMMA PowersType == PowersOf2 \in SUBSET Nat /\ (\A p \in PowersOf2 : p > 0) /\ 1 \in PowersOf2
BY DEF PowersOf2

\* The places of a sequence are finitely many.
LEMMA SeqDomain ==
    ASSUME NEW S, NEW q \in Seq(S)
    PROVE  /\ IsFiniteSet(DOMAIN q) /\ Cardinality(DOMAIN q) = Len(q) /\ Len(q) \in Nat
           /\ DOMAIN q = 1..Len(q) /\ \A i \in DOMAIN q : q[i] \in S
           /\ (q # <<>> => Len(q) > 0 /\ Len(q) \in DOMAIN q)
<1>1. Len(q) \in Nat /\ DOMAIN q = 1..Len(q) /\ \A i \in DOMAIN q : q[i] \in S
  OBVIOUS
<1>2. IsFiniteSet(1..Len(q)) /\ Cardinality(1..Len(q)) = Len(q)
  <2>1. 1 \in Int /\ Len(q) \in Int /\ Len(q) - 1 + 1 = Len(q)
    BY <1>1
  <2>. QED
    BY <1>1, <2>1, FS_Interval
<1>3. q # <<>> => Len(q) > 0
  OBVIOUS
<1>. QED
  BY <1>1, <1>2, <1>3

-------------------------------------------------------------------------------
(* Types of what is measured and computed. *)

\* What a state tells of the workload, the request and the settings.
LEMMA Settings ==
    ASSUME TuningTypeOK
    PROVE  /\ \A s \in Steps : /\ workload.busy[s] \in 1..Cores
                               /\ workload.write[s] \in Nat /\ workload.write[s] > 0
           /\ workload.cgroup \in [anon : Nat, tmpfs : Nat, gridpack : Nat, peak : Nat]
           /\ targetWall \in Nat /\ EffectiveMin \in Nat /\ EffectiveMin >= 2
           /\ rounds \in Seq(Round) /\ params \in Seq(Tuning)
<1>1. /\ BusyCores \subseteq 1..Cores /\ Writes \subseteq [Steps -> Nat \ {0}]
      /\ Cgroups \subseteq [anon : Nat, tmpfs : Nat, gridpack : Nat, peak : Nat]
      /\ TargetWalls \subseteq Nat /\ MinRequestCpus \subseteq Nat
  BY TuningAssumption DEF TuningConstants
<1>2. workload \in [busy : [Steps -> BusyCores], write : Writes, cgroup : Cgroups]
  BY DEF TuningTypeOK
<1>3. /\ workload.busy \in [Steps -> BusyCores] /\ workload.write \in Writes
      /\ workload.cgroup \in Cgroups
  BY <1>2
<1>4. ASSUME NEW s \in Steps
      PROVE  workload.busy[s] \in 1..Cores /\ workload.write[s] \in Nat /\ workload.write[s] > 0
  <2>1. workload.write \in [Steps -> Nat \ {0}]
    BY <1>1, <1>3
  <2>2. workload.busy[s] \in BusyCores /\ workload.write[s] \in Nat \ {0}
    BY <1>3, <2>1
  <2>3. workload.busy[s] \in 1..Cores
    BY <1>1, <2>2, Zenon
  <2>4. workload.write[s] \in Nat /\ workload.write[s] > 0
    BY <2>2
  <2>. QED
    BY <2>3, <2>4
<1>5. minRequestCpus \in Nat /\ targetWall \in Nat
  BY <1>1 DEF TuningTypeOK
<1>6. EffectiveMin \in Nat /\ EffectiveMin >= 2
  BY <1>5 DEF EffectiveMin, AtLeast
<1>. QED
  BY <1>1, <1>3, <1>4, <1>5, <1>6 DEF TuningTypeOK

\* A measurement of a work unit of a round is one, and no step has kept more cores
\* busy than the jobs of the round had.
LEMMA MeasuredType ==
    ASSUME TuningTypeOK, NEW r \in Round, NEW memory \in Memories
    PROVE  /\ Measured(r, memory) \in Measurement
           /\ \A s \in Steps : Normalized(Measured(r, memory).eff[s],
                                          Measured(r, memory).threads[s]) <= r.cpus
<1>. DEFINE busy == [s \in Steps |-> AtMost(workload.busy[s], StepThreads(r, s))]
            threads == [s \in Steps |-> StepThreads(r, s)]
            eff == [s \in Steps |-> (Cores * busy[s]) \div StepThreads(r, s)]
            wall == [s \in Steps |-> AtLeast((Work[s] * r.events) \div (100 * busy[s]), 1)]
            write == [s \in Steps |-> workload.write[s] * r.events]
<1>1. /\ r.cpus \in 1..Cores /\ (\A s \in Steps : StepThreads(r, s) = r.cpus)
      /\ r.events \in Nat /\ r.events > 0 /\ Cores \in Nat /\ Cores > 0
      /\ Work \in [Steps -> Nat \ {0}]
  <2>1. Work \in [Steps -> Nat \ {0}] /\ Cores \in Nat /\ Cores > 0
    BY TuningAssumption, TuningNumbers DEF TuningConstants
  <2>2. r.cpus \in 1..Cores /\ r.events \in Nat \ {0}
    BY DEF Round
  <2>. QED
    BY <2>1, <2>2 DEF StepThreads
<1>2. Measured(r, memory) = [threads |-> threads, eff |-> eff, wall |-> wall,
                             memory |-> memory, write |-> write]
  BY Zenon DEF Measured
<1>3. ASSUME NEW s \in Steps
      PROVE  /\ busy[s] \in 1..Cores /\ busy[s] <= r.cpus
             /\ eff[s] \in Nat /\ wall[s] \in Nat \ {0} /\ write[s] \in Nat \ {0}
             /\ threads[s] \in 1..Cores /\ Normalized(eff[s], threads[s]) <= r.cpus
  <2>1. /\ busy[s] \in 1..Cores /\ busy[s] <= r.cpus
        /\ threads[s] = StepThreads(r, s) /\ threads[s] \in 1..Cores
    BY <1>1, Settings DEF AtMost
  <2>. DEFINE b == busy[s]
              t == threads[s]
  <2>. HIDE DEF busy
  <2>2. b \in Nat /\ b > 0 /\ b <= r.cpus /\ t \in Nat /\ t > 0 /\ r.cpus \in Nat
    BY <1>1, <2>1
  <2>3. eff[s] = (Cores * b) \div t /\ Cores * b \in Nat
    BY <1>1, <2>1, <2>2, Product
  <2>4. eff[s] \in Nat /\ eff[s] * t <= Cores * b
    <3>. HIDE DEF eff, b, t
    <3>. QED
      BY <2>2, <2>3, Division
  <2>5. wall[s] \in Nat \ {0}
    <3>1. Work[s] * r.events \in Nat /\ 100 * b \in Nat /\ 100 * b > 0
      BY <1>1, <2>2, Product
    <3>2. (Work[s] * r.events) \div (100 * b) \in Nat
      BY <3>1, Division
    <3>. QED
      BY <3>2 DEF AtLeast
  <2>6. write[s] \in Nat \ {0}
    <3>1. workload.write[s] \in Nat /\ workload.write[s] > 0
      BY Settings
    <3>. QED
      BY <1>1, <3>1, Product
  <2>7. Normalized(eff[s], t) <= r.cpus
    <3>. DEFINE e == eff[s]
    <3>1. e * t \in Nat /\ e * t <= Cores * b /\ Cores * b = b * Cores /\ b * Cores <= r.cpus * Cores
      BY <1>1, <2>2, <2>4, Product, ProductGrows
    <3>2. b * Cores \in Nat /\ r.cpus * Cores \in Nat
      BY <1>1, <2>2, Product
    <3>. HIDE DEF e, b, t
    <3>3. e * t <= r.cpus * Cores
      BY <3>1, <3>2
    <3>4. (e * t) \div Cores <= r.cpus
      BY <1>1, <2>2, <3>1, <3>3, QuotientBound
    <3>. QED
      BY <3>4 DEF Normalized, e
  <2>. QED
    BY <2>1, <2>4, <2>5, <2>6, <2>7
<1>. HIDE DEF busy, threads, eff, wall, write
<1>4. /\ eff \in [Steps -> Nat] /\ wall \in [Steps -> Nat \ {0}]
      /\ write \in [Steps -> Nat \ {0}] /\ threads \in [Steps -> 1..Cores]
  <2>1. /\ eff = [s \in Steps |-> eff[s]] /\ wall = [s \in Steps |-> wall[s]]
        /\ write = [s \in Steps |-> write[s]] /\ threads = [s \in Steps |-> threads[s]]
    BY DEF eff, wall, write, threads
  <2>. QED
    BY <1>3, <2>1
<1>. QED
  BY <1>1, <1>2, <1>3, <1>4 DEF Measurement

\* The fields of a measurement.
LEMMA MeasurementFields ==
    ASSUME NEW m \in Measurement
    PROVE  /\ m.threads \in [Steps -> 1..Cores] /\ m.eff \in [Steps -> Nat]
           /\ m.wall \in [Steps -> Nat] /\ (\A s \in Steps : m.wall[s] >= 1)
           /\ m.write \in [Steps -> Nat] /\ (\A s \in Steps : m.write[s] >= 1)
           /\ m.memory.mean \in Nat /\ m.memory.max \in Nat
           /\ m.memory.mean > 0 /\ m.memory.max > 0
<1>1. Memories \subseteq [mean : Nat \ {0}, max : Nat \ {0}]
  BY TuningAssumption DEF TuningConstants
<1>2. /\ m.threads \in [Steps -> 1..Cores] /\ m.eff \in [Steps -> Nat]
      /\ m.wall \in [Steps -> Nat \ {0}] /\ m.memory \in Memories
      /\ m.write \in [Steps -> Nat \ {0}]
  BY DEF Measurement
<1>3. m.memory \in [mean : Nat \ {0}, max : Nat \ {0}]
  BY <1>1, <1>2
<1>. QED
  BY <1>2, <1>3

\* A sum of positive numbers is at least their number.
LEMMA SumPositive ==
    ASSUME NEW D, IsFiniteSet(D), NEW f \in [D -> Nat], \A x \in D : f[x] >= 1
    PROVE  SumFunction(f) \in Nat /\ SumFunction(f) >= Cardinality(D)
<1>. DEFINE ones == [x \in D |-> 1]
<1>1. ones \in [D -> Nat] /\ \A x \in D : ones[x] <= f[x]
  OBVIOUS
<1>2. SumFunction(ones) = Cardinality(D)
  BY SumOnes
<1>. HIDE DEF ones
<1>. QED
  BY <1>1, <1>2, SumType, SumGrows

\* Normalized efficiencies and their sums are natural numbers.
LEMMA EffSumType ==
    ASSUME NEW wus \in Seq(Measurement), NEW s \in Steps
    PROVE  /\ EffSum(wus, s) \in Nat
           /\ [w \in DOMAIN wus |-> Normalized(wus[w].eff[s], wus[w].threads[s])]
                 \in [DOMAIN wus -> Nat]
<1>. DEFINE f == [w \in DOMAIN wus |-> Normalized(wus[w].eff[s], wus[w].threads[s])]
<1>1. ASSUME NEW w \in DOMAIN wus PROVE Normalized(wus[w].eff[s], wus[w].threads[s]) \in Nat
  <2>1. wus[w] \in Measurement
    OBVIOUS
  <2>2. wus[w].eff[s] \in Nat /\ wus[w].threads[s] \in Nat
    BY <2>1, MeasurementFields
  <2>3. wus[w].eff[s] * wus[w].threads[s] \in Nat
    BY <2>2, Product
  <2>. QED
    BY <2>3, TuningNumbers, Division DEF Normalized
<1>2. f \in [DOMAIN wus -> Nat]
  BY <1>1
<1>3. SumFunction(f) \in Nat
  <2>. HIDE DEF f
  <2>. QED
    BY <1>2, SeqDomain, SumType
<1>. QED
  BY <1>2, <1>3 DEF EffSum

\* What a step keeps busy over all work units is within what each of them allows.
LEMMA EffSumBound ==
    ASSUME NEW wus \in Seq(Measurement), NEW s \in Steps, NEW c \in Nat,
           \A w \in DOMAIN wus : Normalized(wus[w].eff[s], wus[w].threads[s]) <= c
    PROVE  EffSum(wus, s) <= c * Len(wus)
<1>. DEFINE f == [w \in DOMAIN wus |-> Normalized(wus[w].eff[s], wus[w].threads[s])]
            ones == [w \in DOMAIN wus |-> 1]
            g == [w \in DOMAIN wus |-> c * ones[w]]
<1>1. f \in [DOMAIN wus -> Nat]
  BY EffSumType
<1>2. ones \in [DOMAIN wus -> Nat] /\ g \in [DOMAIN wus -> Nat] /\ \A w \in DOMAIN wus : g[w] = c
  OBVIOUS
<1>3. \A w \in DOMAIN wus : f[w] <= g[w]
  BY <1>2
<1>4. IsFiniteSet(DOMAIN wus) /\ Cardinality(DOMAIN wus) = Len(wus)
  BY SeqDomain
<1>5. SumFunction(ones) = Len(wus)
  BY <1>4, SumOnes
<1>. HIDE DEF f, ones
<1>6. SumFunction(g) = c * Len(wus)
  <2>1. SumFunction(g) = c * SumFunction(ones)
    BY <1>2, <1>4, SumTimes
  <2>. QED
    BY <1>5, <2>1
<1>. HIDE DEF g
<1>7. SumFunction(f) <= SumFunction(g)
  BY <1>1, <1>2, <1>3, <1>4, SumGrows
<1>. QED
  BY <1>6, <1>7 DEF EffSum, f

\* Effective cores are a fraction, and within the cores that no measurement exceeds.
LEMMA EffectiveCoresBound ==
    ASSUME NEW wus \in Seq(Measurement), wus # <<>>
    PROVE  /\ EffectiveCores(wus)[1] \in Nat /\ EffectiveCores(wus)[2] \in Nat
           /\ SumFunction(Latest(wus).wall) \in Nat /\ SumFunction(Latest(wus).wall) > 0
           /\ \A c \in Nat :
                (\A w \in DOMAIN wus, s \in Steps :
                    Normalized(wus[w].eff[s], wus[w].threads[s]) <= c)
                => EffectiveCores(wus)[1] <= c * EffectiveCores(wus)[2]
<1>. DEFINE wall == Latest(wus).wall
            sum == SumFunction(wall)
            f == [s \in Steps |-> EffSum(wus, s) * wall[s]]
<1>1. Len(wus) \in Nat /\ Len(wus) > 0 /\ Len(wus) \in DOMAIN wus /\ Latest(wus) \in Measurement
  BY SeqDomain DEF Latest
<1>2. wall \in [Steps -> Nat] /\ \A s \in Steps : wall[s] >= 1
  BY <1>1, MeasurementFields
<1>3. EffectiveCores(wus) = <<SumFunction(f), Len(wus) * sum>>
  BY Zenon DEF EffectiveCores
<1>. HIDE DEF wall
<1>4. sum \in Nat /\ sum > 0
  BY <1>2, StepsFinite, SumPositive, TuningNumbers
<1>5. f \in [Steps -> Nat]
  <2>1. \A s \in Steps : EffSum(wus, s) * wall[s] \in Nat
    BY <1>2, EffSumType, Product
  <2>. QED
    BY <2>1
<1>. HIDE DEF sum
<1>6. SumFunction(f) \in Nat /\ Len(wus) * sum \in Nat
  BY <1>1, <1>4, <1>5, StepsFinite, SumType, Product
<1>7. ASSUME NEW c \in Nat, \A w \in DOMAIN wus, s \in Steps :
                Normalized(wus[w].eff[s], wus[w].threads[s]) <= c
      PROVE  SumFunction(f) <= c * (Len(wus) * sum)
  <2>. DEFINE k == c * Len(wus)
              g == [s \in Steps |-> k * wall[s]]
  <2>1. k \in Nat
    BY <1>1, Product
  <2>2. \A s \in Steps : EffSum(wus, s) \in Nat /\ EffSum(wus, s) <= k
    BY <1>7, EffSumType, EffSumBound
  <2>. HIDE DEF k
  <2>3. SumFunction(g) = k * sum
    BY <1>2, <2>1, StepsFinite, SumTimes DEF sum
  <2>4. g \in [Steps -> Nat] /\ \A s \in Steps : f[s] <= g[s]
    BY <1>2, <2>1, <2>2, Product, ProductGrows
  <2>. HIDE DEF f, g
  <2>5. SumFunction(f) <= k * sum
    BY <1>5, <2>3, <2>4, StepsFinite, SumGrows
  <2>6. k * sum = c * (Len(wus) * sum)
    BY <1>1, <1>4 DEF k
  <2>. QED
    BY <2>5, <2>6
<1>. HIDE DEF f
<1>8. EffectiveCores(wus)[1] = SumFunction(f) /\ EffectiveCores(wus)[2] = Len(wus) * sum
  BY <1>3
<1>. QED
  BY <1>4, <1>6, <1>7, <1>8 DEF sum, wall

\* The cores of a split job are those of the request at most; those that the
\* gridpack needs may be more.
LEMMA SplitCpusType ==
    ASSUME TuningTypeOK, NEW wus \in Seq(Measurement), wus # <<>>
    PROVE  /\ SplitCpus(wus) \in 1..Cores
           /\ TmpfsCpus(SplitCpus(wus)) \in Nat /\ TmpfsCpus(SplitCpus(wus)) > 0
           /\ ~KeptForMemory => TmpfsCpus(SplitCpus(wus)) = SplitCpus(wus)
<1>. DEFINE eff == EffectiveCores(wus)
            n == NearestPowerOf2(eff[1], eff[2])
            c == SplitCpus(wus)
<1>1. n \in Nat /\ n > 0
  BY EffectiveCoresBound, NearestPower, PowersType
<1>2. c = AtMost(AtLeast(n, EffectiveMin), Cores)
  BY DEF SplitCpus
<1>. HIDE DEF n, c
<1>3. c \in 1..Cores /\ EffectiveMin \in Nat /\ Cores \in Nat /\ Cores > 0
  BY <1>1, <1>2, Settings, TuningNumbers DEF AtMost, AtLeast
<1>. DEFINE need == MarginOn(workload.cgroup.anon + workload.cgroup.gridpack)
            enough == {d \in {c * p : p \in PowersOf2} : d < Cores /\ d * MaxPerCore >= need}
<1>4. enough # {} => Min(enough) \in Nat /\ Min(enough) > 0
  <2>1. \A p \in PowersOf2 : c * p \in Nat /\ c * p > 0
    BY <1>3, PowersType, Product
  <2>2. \A d \in enough : d \in Nat /\ d > 0
    BY <2>1
  <2>. HIDE DEF enough
  <2>. QED
    BY <2>2, MinIsOne
<1>5. TmpfsCpus(c) = IF ~KeptForMemory THEN c
                     ELSE IF workload.cgroup.gridpack > 0
                          THEN (IF enough = {} THEN Cores ELSE Min(enough))
                     ELSE AtLeast(c, AtLeast(Cores \div 2, EffectiveMin))
  BY Zenon DEF TmpfsCpus
<1>6. /\ AtLeast(c, AtLeast(Cores \div 2, EffectiveMin)) \in Nat
      /\ AtLeast(c, AtLeast(Cores \div 2, EffectiveMin)) > 0
  BY <1>3 DEF AtLeast
<1>. HIDE DEF enough
<1>7. TmpfsCpus(c) \in Nat /\ TmpfsCpus(c) > 0 /\ (~KeptForMemory => TmpfsCpus(c) = c)
  BY <1>3, <1>4, <1>5, <1>6
<1>. QED
  BY <1>3, <1>7 DEF c

\* The mean of the RSS values is a natural number: some value is divided by.
LEMMA MeanRssType ==
    ASSUME NEW wus \in Seq(Measurement), wus # <<>> PROVE MeanRss(wus) \in Nat
<1>. DEFINE D == DOMAIN wus
            times(w) == IF Len(wus) > 1 /\ w = Len(wus) THEN 2 ELSE 1
            values(memory) == IF memory.mean = memory.max THEN 1 ELSE 2
            sum(memory) == IF values(memory) = 1 THEN memory.max ELSE memory.mean + memory.max
            f == [w \in D |-> times(w) * sum(wus[w].memory)]
            g == [w \in D |-> times(w) * values(wus[w].memory)]
<1>1. ASSUME NEW w \in D PROVE f[w] \in Nat /\ g[w] \in Nat /\ g[w] >= 1
  <2>1. wus[w] \in Measurement
    OBVIOUS
  <2>2. wus[w].memory.mean \in Nat /\ wus[w].memory.max \in Nat
    BY <2>1, MeasurementFields
  <2>3. values(wus[w].memory) \in {1, 2} /\ times(w) \in {1, 2} /\ sum(wus[w].memory) \in Nat
    BY <2>2
  <2>. HIDE DEF values, times, sum
  <2>. QED
    BY <2>3
<1>2. f = [w \in D |-> f[w]] /\ g = [w \in D |-> g[w]]
  OBVIOUS
<1>3. MeanRss(wus) = SumFunction(f) \div SumFunction(g)
  BY Zenon DEF MeanRss
<1>4. IsFiniteSet(D) /\ Cardinality(D) = Len(wus) /\ Len(wus) > 0
  BY SeqDomain
<1>. HIDE DEF f, g, D
<1>5. f \in [D -> Nat] /\ g \in [D -> Nat] /\ \A w \in D : g[w] >= 1
  BY <1>1, <1>2
<1>6. SumFunction(f) \in Nat
  BY <1>4, <1>5, SumType
<1>7. SumFunction(g) \in Nat /\ SumFunction(g) >= Len(wus)
  <2>1. SumFunction(g) \in Nat /\ SumFunction(g) >= Cardinality(D)
    BY <1>4, <1>5, SumPositive
  <2>. QED
    BY <1>4, <2>1
<1>8. Len(wus) \in Nat
  BY SeqDomain
<1>. QED
  BY <1>3, <1>4, <1>6, <1>7, <1>8, Division

\* The memory of a split job is positive.
LEMMA SplitMemoryType ==
    ASSUME TuningTypeOK, NEW wus \in Seq(Measurement), wus # <<>>,
           NEW cpus \in Nat, cpus > 0
    PROVE  SplitMemory(wus, cpus) \in Nat \ {0}
<1>. DEFINE cgroup == workload.cgroup
            rss == MeanRss(wus)
            need == IF splitTmpfs /\ cgroup.peak > 0 /\ cgroup.tmpfs > 0
                        THEN MarginOn(AtLeast(cgroup.tmpfs, cgroup.anon))
                    ELSE IF splitTmpfs /\ cgroup.peak > 0 /\ cgroup.gridpack > 0
                        THEN MarginOn(cgroup.anon + cgroup.gridpack)
                    ELSE IF splitTmpfs /\ cgroup.peak > 0 THEN cpus * MaxPerCore
                    ELSE AtLeast(MarginOn(rss), rss + 1000)
            least == cpus * DefaultPerCore
            most == cpus * MaxPerCore
<1>1. /\ cgroup.anon \in Nat /\ cgroup.tmpfs \in Nat /\ cgroup.gridpack \in Nat
  BY Settings
<1>2. AtLeast(cgroup.tmpfs, cgroup.anon) \in Nat /\ cgroup.anon + cgroup.gridpack \in Nat
      /\ rss \in Nat
  BY <1>1, MeanRssType DEF AtLeast
<1>3. MarginOn(AtLeast(cgroup.tmpfs, cgroup.anon)) \in Nat
      /\ MarginOn(cgroup.anon + cgroup.gridpack) \in Nat /\ MarginOn(rss) \in Nat
  <2>1. \A n \in Nat : MarginOn(n) \in Nat
    <3>1. \A n \in Nat : n <= n
      OBVIOUS
    <3>. QED
      BY <3>1, MarginType
  <2>. QED
    BY <1>2, <2>1
<1>4. least \in Nat /\ most \in Nat /\ least > 0 /\ most > 0
  BY TuningNumbers, Product
<1>5. SplitMemory(wus, cpus) = AtMost(AtLeast(need, least), most)
  BY Zenon DEF SplitMemory
<1>. HIDE DEF cgroup, rss, least
<1>6. need \in Nat
  <2>1. AtLeast(MarginOn(rss), rss + 1000) \in Nat
    BY <1>2, <1>3 DEF AtLeast
  <2>. QED
    BY <1>3, <1>4, <2>1
<1>. HIDE DEF need, most
<1>. QED
  BY <1>4, <1>5, <1>6 DEF AtMost, AtLeast

\* What compute_job_split finds when it raises no exception.
LEMMA JobSplitType ==
    ASSUME TuningTypeOK, NEW wus \in Seq(Measurement), wus # <<>>, ~SplitRaises(wus)
    PROVE  /\ JobSplit(wus).cpus \in 1..Cores /\ JobSplit(wus).multiplier \in Nat \ {0}
           /\ JobSplit(wus).events \in Nat \ {0} /\ JobSplit(wus).memory \in Nat \ {0}
           /\ JobSplit(wus).cpus = TmpfsCpus(SplitCpus(wus))
           /\ JobSplit(wus).multiplier = AtMost(Cores \div JobSplit(wus).cpus, EventsPerJob)
<1>. DEFINE cpus == TmpfsCpus(SplitCpus(wus))
            d == Cores \div cpus
<1>1. cpus \in Nat /\ cpus > 0
  BY SplitCpusType
<1>2. cpus <= Cores
  BY <1>1, TuningNumbers DEF SplitRaises
<1>3. JobSplit(wus) = [cpus |-> cpus, multiplier |-> AtMost(d, EventsPerJob),
                       events |-> AtLeast(EventsPerJob \div d, 1), memory |-> SplitMemory(wus, cpus)]
  BY Zenon DEF JobSplit
<1>4. SplitMemory(wus, cpus) \in Nat \ {0}
  BY <1>1, SplitMemoryType
<1>. HIDE DEF cpus
<1>5. d \in Nat /\ d > 0
  BY <1>1, <1>2, TuningNumbers, Quotient
<1>6. EventsPerJob \div d \in Nat
  BY <1>5, TuningNumbers, Quotient
<1>7. /\ JobSplit(wus).cpus = cpus /\ JobSplit(wus).multiplier = AtMost(d, EventsPerJob)
      /\ JobSplit(wus).events = AtLeast(EventsPerJob \div d, 1)
      /\ JobSplit(wus).memory = SplitMemory(wus, cpus)
  BY <1>3
<1>8. AtMost(d, EventsPerJob) \in Nat \ {0}
  <2>. HIDE DEF d
  <2>. QED
    BY <1>5, TuningNumbers DEF AtMost
<1>9. AtLeast(EventsPerJob \div d, 1) \in Nat \ {0}
  <2>. DEFINE e == EventsPerJob \div d
  <2>. HIDE DEF e
  <2>. QED
    BY <1>6 DEF AtLeast, e
<1>10. cpus \in 1..Cores
  BY <1>1, <1>2, TuningNumbers
<1>11. JobSplit(wus).cpus = TmpfsCpus(SplitCpus(wus)) /\ d = Cores \div JobSplit(wus).cpus
  BY <1>7 DEF cpus
<1>. HIDE DEF d
<1>. QED
  BY <1>4, <1>7, <1>8, <1>9, <1>10, <1>11

\* The events of a tuned job are positive.
LEMMA ThroughputType ==
    ASSUME TuningTypeOK, NEW wus \in Seq(Measurement), wus # <<>>, NEW events \in Nat \ {0}
    PROVE  ThroughputEvents(wus, events) \in Nat \ {0}
<1>. DEFINE wall == SumFunction(Latest(wus).wall)
            ideal == ((targetWall - StartupOverhead) * events) \div wall
            c == Clamp(ideal, events \div 2, 2 * events)
            n == Nearest(c, 100)
<1>1. ThroughputEvents(wus, events) =
        IF targetWall <= StartupOverhead THEN events ELSE AtLeast(100 * n, 100)
  BY Zenon DEF ThroughputEvents
<1>2. CASE targetWall <= StartupOverhead
  BY <1>1, <1>2
<1>3. CASE ~(targetWall <= StartupOverhead)
  <2>1. targetWall - StartupOverhead \in Nat /\ events \in Nat /\ wall \in Nat /\ wall > 0
    BY <1>3, Settings, TuningNumbers, EffectiveCoresBound
  <2>2. (targetWall - StartupOverhead) * events \in Nat
    BY <2>1, Product
  <2>. HIDE DEF wall
  <2>3. ideal \in Nat
    BY <2>1, <2>2, Division
  <2>4. events \div 2 \in Nat /\ 2 * events \in Nat
    OBVIOUS
  <2>. HIDE DEF ideal
  <2>5. c \in Nat
    BY <2>3, <2>4 DEF Clamp, AtMost, AtLeast
  <2>. HIDE DEF c
  <2>6. n \in Nat
    <3>1. 100 \in Nat /\ 100 > 0
      OBVIOUS
    <3>. QED
      BY <2>5, <3>1, NearestIsNear, Zenon
  <2>. HIDE DEF n
  <2>. QED
    BY <1>1, <1>3, <2>6 DEF AtLeast
<1>. QED
  BY <1>2, <1>3

\* At most four instances, and each of them with two of the job's cores or more.
LEMMA InstancesType ==
    ASSUME TuningTypeOK, NEW wus \in Seq(Measurement), wus # <<>>, NEW cpus \in 1..Cores
    PROVE  /\ Instances(wus, cpus) \in 1..4
           /\ PerStepThreads(wus, cpus) \in [Steps -> 1..Cores]
<1>. DEFINE n == NearestPowerOf2(EffSum(wus, 1), Len(wus))
            threads == AtLeast(AtMost(n, Cores), 2)
            q == cpus \div threads
            most == Clamp(q, 1, 4)
            cgroup == workload.cgroup
            tmpfs == IF cgroup.gridpack > 0 THEN cgroup.gridpack ELSE 1500
            each == IF cgroup.tmpfs > 0 THEN AtLeast(MarginOn(cgroup.tmpfs), 500)
                    ELSE MarginOn(MeanRss(wus)) + (IF splitTmpfs THEN tmpfs ELSE 0)
            fits == {p \in 2..most : 3000 + p * each <= MaxPerCore * cpus}
            whole == {p \in fits : cpus % p = 0}
            k == Instances(wus, cpus)
<1>1. k = IF whole # {} THEN Max(whole) ELSE IF fits # {} THEN Max(fits) ELSE 1
  BY Zenon DEF Instances
<1>2. n \in Nat
  <2>1. EffSum(wus, 1) \in Nat /\ Len(wus) \in Nat
    BY StepsFinite, EffSumType, SeqDomain
  <2>. QED
    BY <2>1, NearestPower, PowersType
<1>. HIDE DEF n
<1>3. threads \in Nat /\ threads >= 2
  BY <1>2, TuningNumbers DEF AtMost, AtLeast
<1>. HIDE DEF threads
<1>4. cpus \in Nat /\ cpus > 0 /\ cpus <= Cores /\ Cores \in Nat
  BY TuningNumbers
<1>5. q \in Nat /\ q * threads <= cpus
  BY <1>3, <1>4, Division
<1>6. most \in 1..4 /\ (most <= q \/ most = 1)
  <2>. HIDE DEF q
  <2>. QED
    BY <1>5 DEF Clamp, AtMost, AtLeast
<1>. HIDE DEF most, q
<1>7. fits \in SUBSET (0..4) /\ whole \in SUBSET (0..4) /\ fits \subseteq 2..most /\ whole \subseteq 2..most
  BY <1>6
<1>. HIDE DEF fits, whole
<1>8. (fits # {} => Max(fits) \in 2..most) /\ (whole # {} => Max(whole) \in 2..most)
  BY <1>7, MaxIsOne
<1>9. k = 1 \/ k \in 2..most
  BY <1>1, <1>8
<1>10. k \in 1..4 /\ (k > 1 => k <= q /\ q >= 2)
  BY <1>5, <1>6, <1>9
<1>. HIDE DEF k
<1>11. k > 1 => cpus \div k \in Nat /\ cpus \div k <= cpus
  BY <1>4, <1>10, Quotient
<1>12. k > 1 => Cores >= 2
  <2>. SUFFICES ASSUME k > 1 PROVE Cores >= 2
    OBVIOUS
  <2>1. threads <= q * threads
    BY <1>3, <1>5, <1>10, ProductGrows
  <2>. QED
    BY <1>3, <1>4, <1>5, <2>1
<1>13. k > 1 => AtLeast(cpus \div k, 2) \in 1..Cores
  <2>. DEFINE d == cpus \div k
  <2>1. k > 1 => d \in Nat /\ d <= cpus
    BY <1>11
  <2>. HIDE DEF d
  <2>2. k > 1 => AtLeast(d, 2) \in 1..Cores
    BY <1>4, <1>12, <2>1 DEF AtLeast
  <2>. QED
    BY <2>2 DEF d
<1>14. PerStepThreads(wus, cpus) =
         [s \in Steps |-> IF s = 1 /\ k > 1 THEN AtLeast(cpus \div k, 2) ELSE Cores]
  BY Zenon DEF PerStepThreads, k
<1>15. \A s \in Steps : (IF s = 1 /\ k > 1 THEN AtLeast(cpus \div k, 2) ELSE Cores) \in 1..Cores
  BY <1>13, TuningNumbers
<1>. QED
  BY <1>10, <1>14, <1>15 DEF k

\* The largest of a sequence of numbers, zero among them.
LEMMA MaxWithZero ==
    ASSUME NEW n \in Nat, NEW f \in [1..n -> Nat]
    PROVE  /\ Max({0} \cup {f[k] : k \in 1..n}) \in Nat
           /\ \A i \in 1..n : f[i] <= Max({0} \cup {f[k] : k \in 1..n})
           /\ \A c \in Nat : (\A i \in 1..n : f[i] <= c)
                             => Max({0} \cup {f[k] : k \in 1..n}) <= c
<1>. DEFINE S == {0} \cup {f[k] : k \in 1..n}
<1>1. PICK bound \in Nat : \A i \in 1..n : f[i] <= bound
  BY FinitelyBounded
<1>2. S \in SUBSET (0..bound) /\ S # {}
  BY <1>1
<1>3. (\A i \in 1..n : f[i] \in S) /\ \A x \in S : x = 0 \/ \E i \in 1..n : x = f[i]
  OBVIOUS
<1>. HIDE DEF S
<1>4. Max(S) \in S /\ \A x \in S : x <= Max(S)
  BY <1>2, MaxIsOne
<1>5. Max(S) \in Nat
  <2>1. Max(S) \in 0..bound
    BY <1>2, <1>4
  <2>. HIDE DEF S
  <2>. QED
    BY <2>1
<1>6. \A c \in Nat : (\A i \in 1..n : f[i] <= c) => Max(S) <= c
  BY <1>3, <1>4
<1>. QED
  BY <1>3, <1>4, <1>5, <1>6 DEF S

\* The peak of a round covers every measurement of it, and nothing else.
LEMMA PeakOfType ==
    ASSUME NEW wus \in Seq(Measurement)
    PROVE  /\ PeakOf(wus) \in Nat
           /\ \A w \in DOMAIN wus : wus[w].memory.max <= PeakOf(wus)
           /\ \A c \in Nat : (\A w \in DOMAIN wus : wus[w].memory.max <= c) => PeakOf(wus) <= c
<1>. DEFINE n == Len(wus)
            f == [w \in 1..n |-> wus[w].memory.max]
<1>1. n \in Nat /\ DOMAIN wus = 1..n
  BY SeqDomain
<1>2. \A w \in 1..n : wus[w] \in Measurement
  OBVIOUS
<1>3. f \in [1..n -> Nat]
  BY <1>2, MeasurementFields
<1>4. PeakOf(wus) = Max({0} \cup {f[w] : w \in 1..n})
  BY <1>1 DEF PeakOf
<1>5. \A w \in 1..n : f[w] = wus[w].memory.max
  OBVIOUS
<1>. HIDE DEF f, n
<1>. QED
  BY <1>1, <1>3, <1>4, <1>5, MaxWithZero

\* The fields of a round.
LEMMA RoundFields ==
    ASSUME NEW S \in Seq(Round), NEW i \in DOMAIN S
    PROVE  /\ S[i] \in Round /\ S[i].cpus \in 1..Cores /\ S[i].memory \in Nat \ {0}
           /\ S[i].group \in Nat \ {0}
           /\ S[i].sized \in BOOLEAN /\ S[i].events \in Nat \ {0} /\ S[i].recorded \in Nat \ {0}
           /\ S[i].left \in Nat /\ S[i].wus \in Seq(Measurement) /\ S[i].active \in BOOLEAN
           /\ S[i].tuning \in Seq(Tuning)
<1>1. S[i] \in Round
  BY SeqDomain
<1>. QED
  BY <1>1 DEF Round

\* The peak of some rounds.
Highest(rs) == Max({0} \cup {PeakOf(rs[i].wus) : i \in DOMAIN rs})

\* The peak of rounds covers that of each of them, and nothing else.
LEMMA HistoryType ==
    ASSUME NEW rs \in Seq(Round)
    PROVE  /\ Highest(rs) \in Nat
           /\ \A i \in DOMAIN rs : PeakOf(rs[i].wus) <= Highest(rs)
           /\ \A c \in Nat : (\A i \in DOMAIN rs : PeakOf(rs[i].wus) <= c) => Highest(rs) <= c
<1>. DEFINE n == Len(rs)
            f == [i \in 1..n |-> PeakOf(rs[i].wus)]
<1>1. n \in Nat /\ DOMAIN rs = 1..n
  BY SeqDomain
<1>2. \A i \in 1..n : rs[i].wus \in Seq(Measurement)
  BY <1>1, RoundFields
<1>3. f \in [1..n -> Nat]
  BY <1>2, PeakOfType
<1>4. Highest(rs) = Max({0} \cup {f[i] : i \in 1..n})
  BY <1>1 DEF Highest
<1>5. \A i \in 1..n : f[i] = PeakOf(rs[i].wus)
  OBVIOUS
<1>. HIDE DEF f, n
<1>. QED
  BY <1>1, <1>3, <1>4, <1>5, MaxWithZero

\* The peak of all rounds so far is that of the rounds there are.
LEMMA HistoricalPeakIs == HistoricalPeak = Highest(rounds)
BY DEF HistoricalPeak, Highest

\* The memory of jobs that are not split is positive, and grows with the peak.
LEMMA UnsplitType ==
    ASSUME NEW a \in Nat, NEW b \in Nat, a <= b
    PROVE  UnsplitMemory(a) \in Nat \ {0} /\ UnsplitMemory(a) <= UnsplitMemory(b)
<1>. DEFINE x == MarginOn(a)
            y == MarginOn(b)
            m == MaxPerCore * Cores
<1>1. x \in Nat /\ y \in Nat /\ x <= y
  BY MarginType
<1>2. m \in Nat
  BY TuningNumbers, Product
<1>3. UnsplitMemory(a) = AtLeast(AtMost(x, m), 4000) /\ UnsplitMemory(b) = AtLeast(AtMost(y, m), 4000)
  BY DEF UnsplitMemory
<1>. HIDE DEF x, y, m
<1>. QED
  BY <1>1, <1>2, <1>3 DEF AtLeast, AtMost

\* What the optimization of a round returns: without measurements the defaults,
\* else the split that was found, or the cores of the request.
LEMMA OptimizationType ==
    ASSUME TuningTypeOK, NEW wus \in Seq(Measurement), ~SplitRaises(wus)
    PROVE  /\ Optimization(wus) \in Tuning
           /\ wus # <<>> =>
                LET split == JobSplit(wus)
                    o == Optimization(wus)
                IN  \/ /\ split.multiplier > 1 /\ o.cpus = split.cpus
                       /\ o.multiplier = split.multiplier
                    \/ /\ split.multiplier = 1 /\ o.cpus = Cores /\ o.multiplier = 1
                       /\ o.memory = UnsplitMemory(PeakToCover(wus))
<1>1. CASE wus = <<>>
  <2>1. Optimization(wus) = NoMetrics
    BY <1>1, Zenon DEF Optimization
  <2>2. DefaultPerCore * Cores \in Nat \ {0}
    BY TuningNumbers, Product
  <2>3. NoMetrics \in Tuning /\ NoMetrics.perStep = <<>>
    BY <2>2, TuningNumbers DEF NoMetrics, Tuning
  <2>. QED
    BY <1>1, <2>1, <2>3
<1>2. CASE wus # <<>>
  <2>. DEFINE split == JobSplit(wus)
              isSplit == split.multiplier > 1
              cpus == IF isSplit THEN split.cpus ELSE Cores
              events == IF isSplit THEN split.events ELSE EventsPerJob
              m == IF isSplit THEN split.multiplier ELSE 1
              e == IF targetWall > 0 THEN ThroughputEvents(wus, events) ELSE events
              memory == IF isSplit THEN split.memory ELSE UnsplitMemory(PeakToCover(wus))
  <2>1. Optimization(wus) =
          [cpus |-> cpus, multiplier |-> m, events |-> e, instances |-> Instances(wus, cpus),
           memory |-> memory, perStep |-> PerStepThreads(wus, cpus)]
    BY <1>2, Zenon DEF Optimization
  <2>2. /\ split.cpus \in 1..Cores /\ split.multiplier \in Nat \ {0}
        /\ split.events \in Nat \ {0} /\ split.memory \in Nat \ {0}
    BY <1>2, JobSplitType
  <2>. HIDE DEF split
  <2>3. cpus \in 1..Cores /\ m \in Nat \ {0} /\ events \in Nat \ {0}
    BY <2>2, TuningNumbers
  <2>. HIDE DEF events, cpus
  <2>4. e \in Nat \ {0}
    BY <1>2, <2>3, ThroughputType
  <2>5. UnsplitMemory(PeakToCover(wus)) \in Nat \ {0}
    <3>1. PeakToCover(wus) \in Nat
      BY PeakOfType, HistoryType, HistoricalPeakIs, Settings DEF PeakToCover, AtLeast
    <3>2. \A n \in Nat : n <= n
      OBVIOUS
    <3>. QED
      BY <3>1, <3>2, UnsplitType
  <2>6. memory \in Nat \ {0}
    BY <2>2, <2>5
  <2>7. Instances(wus, cpus) \in 1..4 /\ PerStepThreads(wus, cpus) \in [Steps -> 1..Cores]
    BY <1>2, <2>3, InstancesType
  <2>8. m = IF isSplit THEN split.multiplier ELSE 1
    OBVIOUS
  <2>9. memory = IF isSplit THEN split.memory ELSE UnsplitMemory(PeakToCover(wus))
    OBVIOUS
  <2>. HIDE DEF m, e, memory
  <2>10. Optimization(wus) \in Tuning
    BY <2>1, <2>3, <2>4, <2>6, <2>7 DEF Tuning
  <2>11. /\ Optimization(wus).cpus = cpus /\ Optimization(wus).multiplier = m
         /\ Optimization(wus).memory = memory
    BY <2>1
  <2>12. CASE isSplit
    BY <1>2, <2>8, <2>10, <2>11, <2>12 DEF cpus, split
  <2>13. CASE ~isSplit
    <3>1. split.multiplier = 1
      BY <2>2, <2>13
    <3>. QED
      BY <1>2, <2>8, <2>9, <2>10, <2>11, <2>13, <3>1 DEF cpus, split
  <2>. QED
    BY <2>12, <2>13
<1>. QED
  BY <1>1, <1>2

-------------------------------------------------------------------------------
(* The type invariant. *)

\* The fields of a tuning that a state keeps.
LEMMA ParamsFields ==
    ASSUME TuningTypeOK, params # <<>>
    PROVE  /\ params[1] \in Tuning /\ params[1].cpus \in 1..Cores
           /\ params[1].multiplier \in Nat \ {0} /\ params[1].events \in Nat \ {0}
           /\ params[1].memory \in Nat \ {0}
           /\ params[1].perStep \in {<<>>} \cup [Steps -> 1..Cores]
<1>1. params \in Seq(Tuning)
  BY DEF TuningTypeOK
<1>2. 1 \in DOMAIN params
  BY <1>1, SeqDomain
<1>3. params[1] \in Tuning
  BY <1>1, <1>2, SeqDomain
<1>. QED
  BY <1>3 DEF Tuning

\* The events of the jobs are positive: those of the parameters, and those behind
\* the outputs of a round.
LEMMA EventsType ==
    ASSUME TuningTypeOK
    PROVE  /\ CurrentEvents \in Nat \ {0}
           /\ \A p \in Nat, n \in Nat : AtLeast((n * p) \div 100, 1) \in Nat \ {0}
           /\ \A r \in DOMAIN rounds : EventsBehind(r) \in Nat \ {0}
<1>1. CurrentEvents \in Nat \ {0}
  BY ParamsFields, TuningNumbers DEF CurrentEvents
<1>2. ASSUME NEW n \in Nat, NEW p \in Nat PROVE AtLeast((n * p) \div 100, 1) \in Nat \ {0}
  <2>. DEFINE d == (n * p) \div 100
  <2>1. n * p \in Nat /\ 100 \in Nat /\ 100 > 0
    BY Product
  <2>2. d \in Nat
    BY <2>1, Division, Zenon
  <2>. HIDE DEF d
  <2>3. AtLeast(d, 1) \in Nat \ {0}
    BY <2>2 DEF AtLeast
  <2>. QED
    BY <2>3 DEF d
<1>3. ASSUME NEW r \in DOMAIN rounds PROVE EventsBehind(r) \in Nat \ {0}
  <2>1. rounds[r].recorded \in Nat \ {0}
    BY Settings, RoundFields
  <2>2. AtLeast((CurrentEvents * PilotPercent) \div 100, 1) \in Nat \ {0}
    BY <1>1, <1>2, TuningNumbers
  <2>. QED
    BY <1>1, <2>1, <2>2 DEF EventsBehind
<1>. QED
  BY <1>1, <1>2, <1>3

\* The output of a step over the work units of a round.
Outputs(wus, s) == SumFunction([w \in DOMAIN wus |-> wus[w].write[s]])

\* Every step has some output when there are measurements.
LEMMA OutputsType ==
    ASSUME NEW wus \in Seq(Measurement), wus # <<>>, NEW s \in Steps
    PROVE  Outputs(wus, s) \in Nat \ {0}
<1>. DEFINE f == [w \in DOMAIN wus |-> wus[w].write[s]]
<1>1. \A w \in DOMAIN wus : wus[w] \in Measurement
  OBVIOUS
<1>2. \A w \in DOMAIN wus : wus[w].write[s] \in Nat /\ wus[w].write[s] >= 1
  BY <1>1, MeasurementFields
<1>3. f \in [DOMAIN wus -> Nat] /\ \A w \in DOMAIN wus : f[w] >= 1
  BY <1>2
<1>. HIDE DEF f
<1>4. SumFunction(f) \in Nat /\ SumFunction(f) >= Len(wus) /\ Len(wus) \in Nat /\ Len(wus) > 0
  BY <1>3, SeqDomain, SumPositive
<1>. QED
  BY <1>4 DEF Outputs, f

\* The smallest size that SizedGroup divides by is positive, and one of a step.
LEMMA SmallestSize ==
    ASSUME NEW size, \A s \in Steps : size[s] \in Nat \ {0}, NEW target \in Nat
    PROVE  LET sizes == {size[s] : s \in Steps}
               merged == {n \in sizes : 4 * n < 3 * target}
           IN  Min(IF merged = {} THEN sizes ELSE merged) \in Nat \ {0}
<1>. DEFINE sizes == {size[s] : s \in Steps}
            merged == {n \in sizes : 4 * n < 3 * target}
            S == IF merged = {} THEN sizes ELSE merged
<1>1. sizes # {} /\ sizes \subseteq Nat \ {0}
  BY StepsFinite
<1>2. S \in SUBSET Nat /\ S # {} /\ S \subseteq Nat \ {0}
  <2>. HIDE DEF sizes
  <2>. QED
    BY <1>1
<1>. HIDE DEF S
<1>3. Min(S) \in Nat \ {0}
  BY <1>2, MinIsOne
<1>. QED
  BY <1>3 DEF S

\* A group sized from measured outputs is within the limits.
LEMMA SizedGroupType ==
    ASSUME TuningTypeOK, NEW r \in WithMetrics
    PROVE  SizedGroup(r) \in 1..MaxJobsPerWU
<1>. DEFINE wus == rounds[r].wus
            size == [s \in Steps |-> Outputs(wus, s) * CurrentEvents]
            sizes == {size[s] : s \in Steps}
            target == TargetMerged * (Len(wus) * EventsBehind(r))
            merged == {n \in sizes : 4 * n < 3 * target}
            smallest == Min(IF merged = {} THEN sizes ELSE merged)
<1>1. r \in DOMAIN rounds /\ wus \in Seq(Measurement) /\ wus # <<>>
  BY Settings, RoundFields DEF WithMetrics
<1>2. Len(wus) \in Nat /\ CurrentEvents \in Nat \ {0} /\ EventsBehind(r) \in Nat
  BY <1>1, SeqDomain, EventsType
<1>3. target \in Nat
  BY <1>2, TuningNumbers, Product
<1>4. \A s \in Steps : size[s] \in Nat \ {0}
  BY <1>1, <1>2, OutputsType, Product
<1>5. sizes = {SumFunction([w \in DOMAIN wus |-> wus[w].write[s]]) * CurrentEvents : s \in Steps}
  BY DEF Outputs
<1>6. SizedGroup(r) = WithinJobLimits(Nearest(target, smallest))
  BY <1>5, Zenon DEF SizedGroup
<1>. HIDE DEF target, size
<1>7. smallest \in Nat \ {0}
  BY <1>3, <1>4, SmallestSize, Zenon
<1>. HIDE DEF smallest
<1>8. Nearest(target, smallest) \in Nat
  <2>1. smallest \in Nat /\ smallest > 0
    BY <1>7
  <2>. QED
    BY <1>3, <2>1, NearestIsNear
<1>. QED
  BY <1>6, <1>8, TuningNumbers DEF WithinJobLimits, Clamp, AtMost, AtLeast

\* The rounds with measurements are among finitely many.
LEMMA LatestWithMetrics ==
    ASSUME TuningTypeOK, WithMetrics # {} PROVE Max(WithMetrics) \in WithMetrics
<1>1. WithMetrics \in SUBSET (0..Len(rounds)) /\ Len(rounds) \in Nat
  BY Settings, SeqDomain DEF WithMetrics
<1>. QED
  BY <1>1, MaxIsOne

\* A work unit has some jobs.
LEMMA GroupType == ASSUME TuningTypeOK PROVE Group \in Nat \ {0}
<1>1. params # <<>> => JobsPerWU * params[1].multiplier \in Nat \ {0}
  <2>. SUFFICES ASSUME params # <<>> PROVE JobsPerWU * params[1].multiplier \in Nat \ {0}
    OBVIOUS
  <2>1. params[1].multiplier \in Nat /\ params[1].multiplier > 0
    BY ParamsFields
  <2>. QED
    BY <2>1, TuningNumbers, Product
<1>2. WithMetrics # {} => SizedGroup(Max(WithMetrics)) \in Nat \ {0}
  BY LatestWithMetrics, SizedGroupType, TuningNumbers
<1>. QED
  BY <1>1, <1>2, TuningNumbers DEF Group

\* The resources of the next round.
LEMMA PlannedType ==
    ASSUME TuningTypeOK
    PROVE  /\ Planned \in Round /\ Planned.wus = <<>> /\ Planned.tuning = <<>> /\ Planned.active
           /\ Planned.cpus = IF params = <<>> THEN Cores ELSE params[1].cpus
           /\ Planned.group = Group
           /\ Planned.sized = (WithMetrics # {} /\ (params = <<>> \/ params[1].multiplier = 1))
           /\ Planned.events = AtLeast((EventsPerJob * IF rounds = <<>> THEN PilotPercent ELSE 100)
                                          \div 100, 1)
           /\ Planned.recorded = AtLeast((CurrentEvents * IF rounds = <<>> THEN PilotPercent ELSE 100)
                                            \div 100, 1)
<1>. DEFINE resources == IF params = <<>> THEN Requested
                         ELSE [cpus |-> params[1].cpus, memory |-> params[1].memory]
            pilot == IF rounds = <<>> THEN PilotPercent ELSE 100
            sized == WithMetrics # {} /\ (params = <<>> \/ params[1].multiplier = 1)
            events == AtLeast((EventsPerJob * pilot) \div 100, 1)
            recorded == AtLeast((CurrentEvents * pilot) \div 100, 1)
            left == IF rounds = <<>> THEN FirstRoundWUs ELSE WUsPerRound
<1>1. Planned = [cpus |-> resources.cpus, memory |-> resources.memory,
                 group |-> Group, sized |-> sized, events |-> events,
                 recorded |-> recorded, left |-> left,
                 wus |-> <<>>, active |-> TRUE, tuning |-> <<>>]
  BY Zenon DEF Planned
<1>2. /\ resources.cpus \in 1..Cores /\ resources.memory \in Nat \ {0}
      /\ resources.cpus = IF params = <<>> THEN Cores ELSE params[1].cpus
  <2>1. CASE params = <<>>
    <3>1. DefaultPerCore * Cores \in Nat \ {0} /\ Cores \in 1..Cores
      BY TuningNumbers, Product
    <3>. QED
      BY <2>1, <3>1 DEF Requested
  <2>2. CASE params # <<>>
    BY <2>2, ParamsFields
  <2>. QED
    BY <2>1, <2>2
<1>3. Group \in Nat \ {0}
  BY GroupType
<1>4. events \in Nat \ {0} /\ recorded \in Nat \ {0}
  BY EventsType, TuningNumbers
<1>5. left \in Nat
  BY TuningNumbers
<1>6. <<>> \in Seq(Measurement) /\ <<>> \in Seq(Tuning) /\ TRUE \in BOOLEAN /\ sized \in BOOLEAN
  OBVIOUS
<1>. HIDE DEF resources, sized, events, recorded, left
<1>7. Planned \in Round
  BY <1>1, <1>2, <1>3, <1>4, <1>5, <1>6 DEF Round
<1>8. /\ Planned.wus = <<>> /\ Planned.tuning = <<>> /\ Planned.active /\ Planned.group = Group
      /\ Planned.cpus = resources.cpus /\ Planned.sized = sized
      /\ Planned.events = events /\ Planned.recorded = recorded
  BY <1>1
<1>. QED
  BY <1>2, <1>7, <1>8 DEF sized, events, recorded

\* An element of a sequence is replaced by another of its type.
LEMMA Replaced ==
    ASSUME NEW S, NEW q \in Seq(S), NEW i \in DOMAIN q, NEW v \in S
    PROVE  /\ [q EXCEPT ![i] = v] \in Seq(S) /\ Len([q EXCEPT ![i] = v]) = Len(q)
           /\ DOMAIN [q EXCEPT ![i] = v] = DOMAIN q /\ [q EXCEPT ![i] = v][i] = v
           /\ \A j \in DOMAIN q : j # i => [q EXCEPT ![i] = v][j] = q[j]
OBVIOUS

\* What a planned round leaves alone.
LEMMA PlanEffect ==
    ASSUME TuningTypeOK, PlanRound
    PROVE  /\ rounds' \in Seq(Round) /\ Len(rounds') = Len(rounds) + 1 /\ Len(rounds) < MaxRounds
           /\ DOMAIN rounds' = DOMAIN rounds \cup {Len(rounds) + 1}
           /\ Len(rounds) + 1 \notin DOMAIN rounds
           /\ \A j \in DOMAIN rounds : rounds'[j] = rounds[j]
           /\ rounds'[Len(rounds) + 1] = Planned
           /\ UNCHANGED <<workload, splitTmpfs, targetWall, minRequestCpus, params, unread>>
<1>1. rounds \in Seq(Round) /\ Planned \in Round
  BY Settings, PlannedType
<1>2. /\ rounds' = Append(rounds, Planned) /\ Len(rounds) < MaxRounds
      /\ UNCHANGED <<workload, splitTmpfs, targetWall, minRequestCpus, params, unread>>
  BY DEF PlanRound, config
<1>. HIDE DEF Planned
<1>. QED
  BY <1>1, <1>2

\* A work unit that ends changes its round only, by a measurement at most.
LEMMA WorkUnitEffect ==
    ASSUME TuningTypeOK, NEW i \in DOMAIN rounds, WorkUnitDone(i)
    PROVE  /\ rounds' \in Seq(Round) /\ Len(rounds') = Len(rounds)
           /\ DOMAIN rounds' = DOMAIN rounds
           /\ \A j \in DOMAIN rounds : j # i => rounds'[j] = rounds[j]
           /\ rounds[i].active /\ rounds[i].left > 0
           /\ rounds'[i].cpus = rounds[i].cpus
           /\ rounds'[i].group = rounds[i].group /\ rounds'[i].sized = rounds[i].sized
           /\ rounds'[i].events = rounds[i].events /\ rounds'[i].recorded = rounds[i].recorded
           /\ rounds'[i].active = rounds[i].active /\ rounds'[i].tuning = rounds[i].tuning
           /\ \/ rounds'[i].wus = rounds[i].wus
              \/ \E memory \in Memories :
                    rounds'[i].wus = Append(rounds[i].wus, Measured(rounds[i], memory))
           /\ unread' \in 0..MaxUnread
           /\ UNCHANGED <<workload, splitTmpfs, targetWall, minRequestCpus, params>>
<1>. DEFINE r == rounds[i]
<1>1. /\ rounds \in Seq(Round) /\ r \in Round /\ r.left \in Nat /\ r.wus \in Seq(Measurement)
      /\ unread \in 0..MaxUnread /\ MaxUnread \in Nat
  BY Settings, RoundFields, TuningNumbers DEF TuningTypeOK
<1>2. /\ r.active /\ r.left > 0
      /\ UNCHANGED <<workload, splitTmpfs, targetWall, minRequestCpus, params>>
  BY DEF WorkUnitDone, config
<1>3. \/ /\ \E memory \in Memories :
                rounds' = [rounds EXCEPT ![i].left = @ - 1,
                                         ![i].wus = Append(@, Measured(rounds[i], memory))]
         /\ unread' = unread
      \/ /\ unread < MaxUnread /\ unread' = unread + 1
         /\ rounds' = [rounds EXCEPT ![i].left = @ - 1]
  BY Zenon DEF WorkUnitDone
<1>4. unread' \in 0..MaxUnread
  <2>1. unread' = unread \/ (unread < MaxUnread /\ unread' = unread + 1)
    BY <1>3, Zenon
  <2>. QED
    BY <1>1, <2>1
<1>5. CASE \E memory \in Memories :
                rounds' = [rounds EXCEPT ![i].left = @ - 1,
                                         ![i].wus = Append(@, Measured(rounds[i], memory))]
  <2>1. PICK memory \in Memories :
                rounds' = [rounds EXCEPT ![i].left = @ - 1,
                                         ![i].wus = Append(@, Measured(rounds[i], memory))]
    BY <1>5
  <2>. DEFINE m == Measured(r, memory)
              v == [r EXCEPT !.left = @ - 1, !.wus = Append(@, m)]
  <2>2. m \in Measurement
    BY <1>1, MeasuredType
  <2>. HIDE DEF m
  <2>3. Append(r.wus, m) \in Seq(Measurement) /\ r.left - 1 \in Nat
    BY <1>1, <1>2, <2>2
  <2>4. v \in Round
    BY <1>1, <2>3 DEF Round
  <2>5. rounds' = [rounds EXCEPT ![i] = v]
    BY <1>1, <2>1 DEF m
  <2>6. /\ v.cpus = r.cpus /\ v.group = r.group /\ v.sized = r.sized
        /\ v.events = r.events /\ v.recorded = r.recorded /\ v.active = r.active
        /\ v.tuning = r.tuning /\ v.wus = Append(r.wus, m)
    BY <1>1 DEF Round
  <2>. HIDE DEF v
  <2>7. /\ rounds' \in Seq(Round) /\ Len(rounds') = Len(rounds) /\ DOMAIN rounds' = DOMAIN rounds
        /\ rounds'[i] = v /\ \A j \in DOMAIN rounds : j # i => rounds'[j] = rounds[j]
    BY <1>1, <2>4, <2>5, Replaced
  <2>8. \E memo \in Memories : rounds'[i].wus = Append(r.wus, Measured(r, memo))
    BY <2>6, <2>7 DEF m
  <2>. HIDE DEF r
  <2>9. /\ rounds'[i].cpus = r.cpus /\ rounds'[i].group = r.group
        /\ rounds'[i].sized = r.sized /\ rounds'[i].events = r.events
        /\ rounds'[i].recorded = r.recorded /\ rounds'[i].active = r.active
        /\ rounds'[i].tuning = r.tuning
    BY <2>6, <2>7
  <2>. QED
    BY <1>2, <1>4, <2>7, <2>8, <2>9 DEF r
<1>6. CASE rounds' = [rounds EXCEPT ![i].left = @ - 1]
  <2>. DEFINE v == [r EXCEPT !.left = @ - 1]
  <2>1. r.left - 1 \in Nat
    BY <1>1, <1>2
  <2>2. v \in Round
    BY <1>1, <2>1 DEF Round
  <2>3. rounds' = [rounds EXCEPT ![i] = v]
    BY <1>1, <1>6
  <2>4. /\ v.cpus = r.cpus /\ v.group = r.group /\ v.sized = r.sized
        /\ v.events = r.events /\ v.recorded = r.recorded /\ v.active = r.active
        /\ v.tuning = r.tuning /\ v.wus = r.wus
    BY <1>1 DEF Round
  <2>. HIDE DEF v
  <2>5. /\ rounds' \in Seq(Round) /\ Len(rounds') = Len(rounds) /\ DOMAIN rounds' = DOMAIN rounds
        /\ rounds'[i] = v /\ \A j \in DOMAIN rounds : j # i => rounds'[j] = rounds[j]
    BY <1>1, <2>2, <2>3, Replaced
  <2>. HIDE DEF r
  <2>6. /\ rounds'[i].cpus = r.cpus /\ rounds'[i].group = r.group
        /\ rounds'[i].sized = r.sized /\ rounds'[i].events = r.events
        /\ rounds'[i].recorded = r.recorded /\ rounds'[i].active = r.active
        /\ rounds'[i].tuning = r.tuning /\ rounds'[i].wus = r.wus
    BY <2>4, <2>5
  <2>. QED
    BY <1>2, <1>4, <2>5, <2>6 DEF r
<1>. QED
  BY <1>3, <1>5, <1>6

\* A round that ends stores what was found for it, and nothing if there was an
\* exception.
LEMMA RoundEndsEffect ==
    ASSUME TuningTypeOK, NEW i \in DOMAIN rounds, RoundEnds(i)
    PROVE  /\ rounds' \in Seq(Round) /\ Len(rounds') = Len(rounds)
           /\ DOMAIN rounds' = DOMAIN rounds
           /\ \A j \in DOMAIN rounds : j # i => rounds'[j] = rounds[j]
           /\ rounds[i].active /\ rounds[i].left = 0 /\ ~rounds'[i].active
           /\ rounds'[i].cpus = rounds[i].cpus
           /\ rounds'[i].group = rounds[i].group /\ rounds'[i].sized = rounds[i].sized
           /\ rounds'[i].events = rounds[i].events /\ rounds'[i].recorded = rounds[i].recorded
           /\ rounds'[i].wus = rounds[i].wus
           /\ \/ /\ rounds'[i].tuning = <<>> /\ params' = params
              \/ /\ ~SplitRaises(rounds[i].wus)
                 /\ rounds'[i].tuning = <<Optimization(rounds[i].wus)>>
                 /\ params' = <<Optimization(rounds[i].wus)>>
           /\ params' \in Seq(Tuning) /\ Len(params') <= 1
           /\ UNCHANGED <<workload, splitTmpfs, targetWall, minRequestCpus, unread>>
<1>. DEFINE r == rounds[i]
            o == Optimization(r.wus)
            raises == SplitRaises(r.wus)
            tuning == IF raises THEN <<>> ELSE <<o>>
            v == [r EXCEPT !.active = FALSE, !.tuning = tuning]
<1>1. /\ rounds \in Seq(Round) /\ r \in Round /\ r.wus \in Seq(Measurement)
      /\ params \in Seq(Tuning) /\ Len(params) <= 1
  BY Settings, RoundFields DEF TuningTypeOK
<1>2. /\ r.active /\ r.left = 0
      /\ UNCHANGED <<workload, splitTmpfs, targetWall, minRequestCpus, unread>>
      /\ params' = (IF tuning = <<>> THEN params ELSE tuning)
      /\ rounds' = [rounds EXCEPT ![i].active = FALSE, ![i].tuning = tuning]
  BY Zenon DEF RoundEnds, config
<1>3. ~raises => o \in Tuning
  BY <1>1, OptimizationType
<1>. HIDE DEF o, raises
<1>4. tuning \in Seq(Tuning) /\ Len(tuning) <= 1
  BY <1>3
<1>5. \/ tuning = <<>>
      \/ ~raises /\ tuning = <<o>> /\ tuning # <<>>
  OBVIOUS
<1>. HIDE DEF tuning
<1>6. v \in Round
  BY <1>1, <1>4 DEF Round
<1>7. rounds' = [rounds EXCEPT ![i] = v]
  BY <1>1, <1>2
<1>8. /\ v.cpus = r.cpus /\ v.group = r.group /\ v.sized = r.sized
      /\ v.events = r.events /\ v.recorded = r.recorded /\ v.active = FALSE
      /\ v.tuning = tuning /\ v.wus = r.wus
  BY <1>1 DEF Round
<1>. HIDE DEF v
<1>9. /\ rounds' \in Seq(Round) /\ Len(rounds') = Len(rounds) /\ DOMAIN rounds' = DOMAIN rounds
      /\ rounds'[i] = v /\ \A j \in DOMAIN rounds : j # i => rounds'[j] = rounds[j]
  BY <1>1, <1>6, <1>7, Replaced
<1>10. params' \in Seq(Tuning) /\ Len(params') <= 1
  BY <1>1, <1>2, <1>4
<1>11. \/ /\ rounds'[i].tuning = <<>> /\ params' = params
       \/ ~raises /\ rounds'[i].tuning = <<o>> /\ params' = <<o>>
  BY <1>2, <1>5, <1>8, <1>9
<1>. HIDE DEF r
<1>12. /\ rounds'[i].cpus = r.cpus /\ rounds'[i].group = r.group
       /\ rounds'[i].sized = r.sized /\ rounds'[i].events = r.events
       /\ rounds'[i].recorded = r.recorded /\ ~rounds'[i].active /\ rounds'[i].wus = r.wus
  BY <1>8, <1>9
<1>. QED
  BY <1>2, <1>9, <1>10, <1>11, <1>12 DEF r, o, raises

\* The type invariant is kept by every step.
LEMMA TuningTypeStep == TuningTypeOK /\ [TuningNext]_tuningVars => TuningTypeOK'
<1>. SUFFICES ASSUME TuningTypeOK, [TuningNext]_tuningVars PROVE TuningTypeOK'
  OBVIOUS
<1>1. CASE PlanRound
  <2>1. Len(rounds) \in Nat /\ MaxRounds \in Nat
    BY Settings, SeqDomain, TuningNumbers
  <2>2. Len(rounds') <= MaxRounds
    BY <1>1, <2>1, PlanEffect
  <2>. QED
    BY <1>1, <2>2, PlanEffect DEF TuningTypeOK
<1>2. ASSUME NEW i \in DOMAIN rounds, WorkUnitDone(i) PROVE TuningTypeOK'
  BY <1>2, WorkUnitEffect DEF TuningTypeOK
<1>3. ASSUME NEW i \in DOMAIN rounds, RoundEnds(i) PROVE TuningTypeOK'
  BY <1>3, RoundEndsEffect DEF TuningTypeOK
<1>4. CASE UNCHANGED tuningVars
  BY <1>4 DEF TuningTypeOK, tuningVars, config
<1>. QED
  BY <1>1, <1>2, <1>3, <1>4 DEF TuningNext

\* Whatever is measured, the jobs of every round have cores (the request's at
\* most), memory and events, its work units have jobs, and what is found for the
\* next ones stays within the cores of the request.
THEOREM TuningTypes == TuningSpec => []TuningTypeOK
<1>1. TuningInit => TuningTypeOK
  BY TuningNumbers DEF TuningInit, TuningTypeOK
<1>. QED
  BY <1>1, TuningTypeStep, PTL DEF TuningSpec

-------------------------------------------------------------------------------
(* The memory of the jobs. *)

\* What the measured rounds without a split have asked for is covered by what the
\* historical peak asks for.
PeaksCovered ==
    \A j \in Tuned :
        TuningOf(j).multiplier = 1 => TuningOf(j).memory <= UnsplitMemory(HistoricalPeak)

\* Rounds that keep their measurements, and get more, have no lower peak.
LEMMA HistoryGrows ==
    ASSUME NEW rs \in Seq(Round), NEW more \in Seq(Round),
           \A i \in DOMAIN rs :
              /\ i \in DOMAIN more
              /\ \A w \in DOMAIN rs[i].wus :
                    w \in DOMAIN more[i].wus /\ more[i].wus[w] = rs[i].wus[w]
    PROVE  Highest(rs) \in Nat /\ Highest(more) \in Nat /\ Highest(rs) <= Highest(more)
<1>1. Highest(rs) \in Nat /\ Highest(more) \in Nat
  BY HistoryType
<1>2. ASSUME NEW i \in DOMAIN rs PROVE PeakOf(rs[i].wus) <= Highest(more)
  <2>1. i \in DOMAIN more /\ rs[i].wus \in Seq(Measurement) /\ more[i].wus \in Seq(Measurement)
    BY RoundFields
  <2>2. PeakOf(more[i].wus) \in Nat /\ PeakOf(more[i].wus) <= Highest(more)
    BY <2>1, HistoryType, PeakOfType
  <2>3. ASSUME NEW w \in DOMAIN rs[i].wus PROVE rs[i].wus[w].memory.max <= Highest(more)
    <3>1. w \in DOMAIN more[i].wus /\ more[i].wus[w] = rs[i].wus[w]
      OBVIOUS
    <3>2. more[i].wus[w] \in Measurement
      BY <2>1, <3>1, SeqDomain
    <3>3. rs[i].wus[w].memory.max \in Nat /\ rs[i].wus[w].memory.max <= PeakOf(more[i].wus)
      BY <2>1, <3>1, <3>2, MeasurementFields, PeakOfType
    <3>. QED
      BY <1>1, <2>2, <3>3
  <2>. QED
    BY <1>1, <2>1, <2>3, PeakOfType
<1>. QED
  BY <1>1, <1>2, HistoryType

\* No step takes a measurement away.
LEMMA MeasurementsStay ==
    ASSUME TuningTypeOK, [TuningNext]_tuningVars
    PROVE  /\ rounds' \in Seq(Round)
           /\ \A i \in DOMAIN rounds :
                /\ i \in DOMAIN rounds'
                /\ \A w \in DOMAIN rounds[i].wus :
                      w \in DOMAIN rounds'[i].wus /\ rounds'[i].wus[w] = rounds[i].wus[w]
<1>1. rounds' \in Seq(Round)
  BY TuningTypeStep DEF TuningTypeOK
<1>2. CASE PlanRound
  BY <1>1, <1>2, PlanEffect
<1>3. ASSUME NEW i \in DOMAIN rounds, WorkUnitDone(i)
      PROVE  \A j \in DOMAIN rounds :
                /\ j \in DOMAIN rounds'
                /\ \A w \in DOMAIN rounds[j].wus :
                      w \in DOMAIN rounds'[j].wus /\ rounds'[j].wus[w] = rounds[j].wus[w]
  <2>. DEFINE wus == rounds[i].wus
  <2>1. wus \in Seq(Measurement) /\ \A memory \in Memories : Measured(rounds[i], memory) \in Measurement
    BY Settings, RoundFields, MeasuredType
  <2>2. \/ rounds'[i].wus = wus
        \/ \E m \in Measurement : rounds'[i].wus = Append(wus, m)
    BY <1>3, <2>1, WorkUnitEffect
  <2>3. \A w \in DOMAIN wus : w \in DOMAIN rounds'[i].wus /\ rounds'[i].wus[w] = wus[w]
    <3>. HIDE DEF wus
    <3>. QED
      BY <2>1, <2>2
  <2>. QED
    BY <1>3, <2>3, WorkUnitEffect
<1>4. ASSUME NEW i \in DOMAIN rounds, RoundEnds(i)
      PROVE  \A j \in DOMAIN rounds : j \in DOMAIN rounds' /\ rounds'[j].wus = rounds[j].wus
  BY <1>4, RoundEndsEffect
<1>5. CASE UNCHANGED tuningVars
  <2>1. rounds' = rounds
    BY <1>5 DEF tuningVars
  <2>. QED
    BY <1>1, <2>1
<1>. QED
  BY <1>1, <1>2, <1>3, <1>4, <1>5 DEF TuningNext

\* The memory found for a measured round without a split is that of the historical
\* peak: the measurements of the round are stored when it ends.
LEMMA MemoryFromHistory ==
    ASSUME TuningTypeOK, NEW i \in DOMAIN rounds, ~SplitRaises(rounds[i].wus),
           rounds[i].wus # <<>>, Optimization(rounds[i].wus).multiplier = 1
    PROVE  Optimization(rounds[i].wus).memory = UnsplitMemory(HistoricalPeak)
<1>. DEFINE wus == rounds[i].wus
            o == Optimization(wus)
            split == JobSplit(wus)
<1>1. rounds \in Seq(Round) /\ wus \in Seq(Measurement)
  BY Settings, RoundFields
<1>2. \/ split.multiplier > 1 /\ o.multiplier = split.multiplier
      \/ o.memory = UnsplitMemory(PeakToCover(wus))
  BY <1>1, OptimizationType
<1>3. split.multiplier \in Nat
  BY <1>1, JobSplitType
<1>4. PeakOf(wus) \in Nat /\ Highest(rounds) \in Nat /\ PeakOf(wus) <= Highest(rounds)
  BY <1>1, PeakOfType, HistoryType
<1>5. PeakToCover(wus) = HistoricalPeak
  BY <1>4, HistoricalPeakIs DEF PeakToCover, AtLeast
<1>. HIDE DEF wus, split, o
<1>6. o.multiplier = 1
  BY DEF o, wus
<1>7. o.memory = UnsplitMemory(HistoricalPeak)
  BY <1>2, <1>3, <1>5, <1>6
<1>. QED
  BY <1>7 DEF o, wus

\* The historical peak never goes down, nor what it asks for.
LEMMA PeakRises ==
    ASSUME TuningTypeOK, [TuningNext]_tuningVars
    PROVE  /\ UnsplitMemory(HistoricalPeak) \in Nat /\ UnsplitMemory(HistoricalPeak') \in Nat
           /\ UnsplitMemory(HistoricalPeak) <= UnsplitMemory(HistoricalPeak')
<1>1. rounds \in Seq(Round)
  BY DEF TuningTypeOK
<1>2. Highest(rounds) \in Nat /\ Highest(rounds') \in Nat /\ Highest(rounds) <= Highest(rounds')
  BY <1>1, MeasurementsStay, HistoryGrows
<1>3. HistoricalPeak = Highest(rounds) /\ HistoricalPeak' = Highest(rounds')
  BY HistoricalPeakIs DEF HistoricalPeak, Highest
<1>4. Highest(rounds') <= Highest(rounds')
  BY <1>2
<1>. QED
  BY <1>2, <1>3, <1>4, UnsplitType

\* A running round has not been tuned: what is found when it ends comes from all it
\* will ever have measured.
RunningUntuned == \A i \in DOMAIN rounds : rounds[i].active => rounds[i].tuning = <<>>

\* Running rounds stay without a tuning.
LEMMA RunningUntunedStep ==
    TuningTypeOK /\ RunningUntuned /\ [TuningNext]_tuningVars => RunningUntuned'
<1>. SUFFICES ASSUME TuningTypeOK, RunningUntuned, [TuningNext]_tuningVars
              PROVE  RunningUntuned'
  OBVIOUS
<1>1. CASE PlanRound
  BY <1>1, PlanEffect, PlannedType DEF RunningUntuned
<1>2. ASSUME NEW i \in DOMAIN rounds, WorkUnitDone(i) PROVE RunningUntuned'
  BY <1>2, WorkUnitEffect DEF RunningUntuned
<1>3. ASSUME NEW i \in DOMAIN rounds, RoundEnds(i) PROVE RunningUntuned'
  BY <1>3, RoundEndsEffect DEF RunningUntuned
<1>4. CASE UNCHANGED tuningVars
  BY <1>4 DEF RunningUntuned, tuningVars
<1>. QED
  BY <1>1, <1>2, <1>3, <1>4 DEF TuningNext

\* A measured round keeps its tuning, and that of a new one without a split is from
\* the historical peak.
LEMMA TuningsOfAStep ==
    ASSUME TuningTypeOK, RunningUntuned, [TuningNext]_tuningVars, NEW k \in Tuned'
    PROVE  \/ k \in Tuned /\ TuningOf(k)' = TuningOf(k)
           \/ TuningOf(k)'.multiplier = 1 => TuningOf(k)'.memory = UnsplitMemory(HistoricalPeak)
<1>1. k \in DOMAIN rounds' /\ rounds'[k].tuning # <<>> /\ rounds'[k].wus # <<>>
  BY DEF Tuned
<1>2. ASSUME k \in DOMAIN rounds, rounds'[k].tuning = rounds[k].tuning,
             rounds'[k].wus = rounds[k].wus
      PROVE  k \in Tuned /\ TuningOf(k)' = TuningOf(k)
  BY <1>1, <1>2 DEF Tuned, TuningOf
<1>3. CASE PlanRound
  BY <1>1, <1>2, <1>3, PlanEffect, PlannedType
<1>4. ASSUME NEW i \in DOMAIN rounds, WorkUnitDone(i)
      PROVE  k \in Tuned /\ TuningOf(k)' = TuningOf(k)
  <2>1. k # i
    BY <1>1, <1>4, WorkUnitEffect DEF RunningUntuned
  <2>. QED
    BY <1>1, <1>2, <1>4, <2>1, WorkUnitEffect
<1>5. ASSUME NEW i \in DOMAIN rounds, RoundEnds(i), k # i
      PROVE  k \in Tuned /\ TuningOf(k)' = TuningOf(k)
  BY <1>1, <1>2, <1>5, RoundEndsEffect
<1>6. ASSUME RoundEnds(k), k \in DOMAIN rounds, TuningOf(k)'.multiplier = 1
      PROVE  TuningOf(k)'.memory = UnsplitMemory(HistoricalPeak)
  <2>. DEFINE o == Optimization(rounds[k].wus)
  <2>1. /\ ~SplitRaises(rounds[k].wus) /\ rounds'[k].tuning = <<o>>
        /\ rounds[k].wus # <<>>
    BY <1>1, <1>6, RoundEndsEffect
  <2>2. o.multiplier = 1 => o.memory = UnsplitMemory(HistoricalPeak)
    BY <1>6, <2>1, MemoryFromHistory
  <2>. HIDE DEF o
  <2>3. TuningOf(k)' = o
    BY <2>1 DEF TuningOf
  <2>. QED
    BY <1>6, <2>2, <2>3
<1>7. CASE UNCHANGED tuningVars
  <2>1. rounds' = rounds
    BY <1>7 DEF tuningVars
  <2>. QED
    BY <1>1, <1>2, <2>1
<1>. QED
  BY <1>3, <1>4, <1>5, <1>6, <1>7 DEF TuningNext

\* The memory of a tuned round is a natural number.
LEMMA TunedMemory ==
    ASSUME TuningTypeOK, NEW j \in Tuned PROVE TuningOf(j).memory \in Nat
<1>1. j \in DOMAIN rounds /\ rounds[j].tuning # <<>> /\ rounds \in Seq(Round)
  BY DEF Tuned, TuningTypeOK
<1>2. rounds[j].tuning \in Seq(Tuning)
  BY <1>1, RoundFields
<1>3. rounds[j].tuning[1] \in Tuning
  BY <1>1, <1>2
<1>. QED
  BY <1>3 DEF Tuning, TuningOf

\* The cover of what was asked for is kept by every step.
LEMMA PeaksCoveredStep ==
    ASSUME TuningTypeOK, RunningUntuned, PeaksCovered, [TuningNext]_tuningVars
    PROVE  PeaksCovered'
<1>. SUFFICES ASSUME NEW k \in Tuned', TuningOf(k)'.multiplier = 1
              PROVE  TuningOf(k)'.memory <= UnsplitMemory(HistoricalPeak')
  BY DEF PeaksCovered, UnsplitMemory
<1>1. CASE k \in Tuned /\ TuningOf(k)' = TuningOf(k)
  <2>1. TuningOf(k).memory \in Nat /\ TuningOf(k).memory <= UnsplitMemory(HistoricalPeak)
    BY <1>1, TunedMemory DEF PeaksCovered
  <2>. QED
    BY <1>1, <2>1, PeakRises
<1>2. CASE TuningOf(k)'.memory = UnsplitMemory(HistoricalPeak)
  BY <1>2, PeakRises
<1>. QED
  BY <1>1, <1>2, TuningsOfAStep

\* A round whose metrics could be read and whose jobs are not split asks for no less
\* memory than any such round that ended before it, in whatever order the rounds of
\* the request end, and with any splits, lost metrics and exceptions in between.
THEOREM MemoryKept == TuningSpec => PeaksRemembered
<1>. DEFINE Inv == TuningTypeOK /\ RunningUntuned /\ PeaksCovered
            NoLess == \A i \in Tuned' \ Tuned, j \in Tuned :
                         TuningOf(i)'.multiplier = 1 /\ TuningOf(j).multiplier = 1
                             => TuningOf(i)'.memory >= TuningOf(j).memory
<1>1. TuningInit => RunningUntuned /\ PeaksCovered
  <2>. SUFFICES ASSUME TuningInit PROVE RunningUntuned /\ PeaksCovered
    OBVIOUS
  <2>1. DOMAIN rounds = {}
    BY DEF TuningInit
  <2>. QED
    BY <2>1 DEF RunningUntuned, PeaksCovered, Tuned
<1>2. Inv /\ [TuningNext]_tuningVars => RunningUntuned' /\ PeaksCovered'
  BY RunningUntunedStep, PeaksCoveredStep
<1>3. Inv /\ [TuningNext]_tuningVars => [NoLess]_tuningVars
  <2>. SUFFICES ASSUME Inv, [TuningNext]_tuningVars, NEW i \in Tuned', i \notin Tuned,
                       NEW j \in Tuned, TuningOf(i)'.multiplier = 1, TuningOf(j).multiplier = 1
                PROVE  TuningOf(i)'.memory >= TuningOf(j).memory
    OBVIOUS
  <2>1. TuningOf(i)'.memory = UnsplitMemory(HistoricalPeak)
    BY TuningsOfAStep
  <2>2. TuningOf(j).memory \in Nat /\ TuningOf(j).memory <= UnsplitMemory(HistoricalPeak)
    BY TunedMemory DEF PeaksCovered
  <2>3. UnsplitMemory(HistoricalPeak) \in Nat
    BY PeakRises
  <2>. QED
    BY <2>1, <2>2, <2>3
<1>4. TuningSpec => [][NoLess]_tuningVars
  <2>. HIDE DEF NoLess
  <2>. QED
    BY <1>1, <1>2, <1>3, TuningTypes, PTL DEF TuningSpec
<1>. QED
  BY <1>4 DEF PeaksRemembered

-------------------------------------------------------------------------------
(* The cores of the jobs. *)

\* The cores of a job: all of the request's, or a power of two that leaves room
\* for a second job.
Fitting(cpus) ==
    \/ cpus = Cores
    \/ /\ cpus \in PowersOf2 /\ cpus >= EffectiveMin
       /\ 2 * cpus <= Cores /\ EventsPerJob >= 2

\* No measurement exceeds the cores of its round.
WithinRound(wus, cpus) ==
    \A w \in DOMAIN wus, s \in Steps : Normalized(wus[w].eff[s], wus[w].threads[s]) <= cpus

CoresInv ==
    /\ params # <<>> => Fitting(params[1].cpus)
    /\ \A i \in DOMAIN rounds :
          /\ Fitting(rounds[i].cpus) /\ WithinRound(rounds[i].wus, rounds[i].cpus)
          /\ rounds[i].active => rounds[i].tuning = <<>>
    /\ NeverMoreThanMeasured

\* The least cores of a job leave room for a second one only if they are a power of two.
\* Otherwise a round may run on them, keep all of them busy, and have its jobs rounded up.
FloorsFit == \A m \in MinRequestCpus : 2 * AtLeast(2, m) <= Cores => AtLeast(2, m) \in PowersOf2

\* The cores found from measurements that stay within some cores stay within them.
LEMMA SplitWithin ==
    ASSUME TuningTypeOK, NEW wus \in Seq(Measurement), wus # <<>>,
           NEW c \in PowersOf2, WithinRound(wus, c)
    PROVE  SplitCpus(wus) <= AtLeast(c, EffectiveMin)
<1>. DEFINE eff == EffectiveCores(wus)
            n == NearestPowerOf2(eff[1], eff[2])
<1>1. c \in Nat
  BY PowersType
<1>2. eff[1] \in Nat /\ eff[2] \in Nat /\ eff[1] <= c * eff[2]
  BY <1>1, EffectiveCoresBound DEF WithinRound
<1>. HIDE DEF eff
<1>3. n \in Nat /\ n <= c
  BY <1>2, NearestPower, PowersType
<1>4. SplitCpus(wus) = AtMost(AtLeast(n, EffectiveMin), Cores)
  BY DEF SplitCpus, eff
<1>. HIDE DEF n
<1>5. EffectiveMin \in Nat /\ Cores \in Nat
  BY Settings, TuningNumbers
<1>. QED
  BY <1>1, <1>3, <1>4, <1>5 DEF AtLeast, AtMost

\* A split leaves room for a second job, on cores that fit.
LEMMA SplitFits ==
    ASSUME TuningTypeOK, FloorsFit, ~KeptForMemory, NEW wus \in Seq(Measurement), wus # <<>>,
           ~SplitRaises(wus), JobSplit(wus).multiplier > 1
    PROVE  Fitting(JobSplit(wus).cpus)
<1>. DEFINE eff == EffectiveCores(wus)
            n == NearestPowerOf2(eff[1], eff[2])
            c == JobSplit(wus).cpus
            d == Cores \div c
<1>1. n \in PowersOf2 /\ n \in Nat
  BY EffectiveCoresBound, NearestPower, PowersType
<1>2. c = AtMost(AtLeast(n, EffectiveMin), Cores)
  BY JobSplitType, SplitCpusType DEF SplitCpus
<1>3. c \in 1..Cores /\ AtMost(d, EventsPerJob) > 1
  BY JobSplitType
<1>. HIDE DEF n, c
<1>4. c \in Nat /\ c > 0 /\ Cores \in Nat /\ EffectiveMin \in Nat /\ EventsPerJob \in Nat
  BY <1>3, Settings, TuningNumbers
<1>5. d \in Nat /\ d * c <= Cores
  BY <1>4, Division
<1>. HIDE DEF d
<1>6. d >= 2 /\ EventsPerJob >= 2
  BY <1>3, <1>4, <1>5 DEF AtMost
<1>7. 2 * c <= d * c /\ 2 * c \in Nat /\ d * c \in Nat
  BY <1>4, <1>5, <1>6, ProductGrows, Product
<1>8. 2 * c <= Cores /\ c < Cores
  BY <1>4, <1>5, <1>7
<1>9. c = AtLeast(n, EffectiveMin) /\ c >= EffectiveMin /\ (c = n \/ c = EffectiveMin)
  BY <1>1, <1>2, <1>4, <1>8 DEF AtMost, AtLeast
<1>10. c \in PowersOf2
  <2>1. CASE c = n
    BY <1>1, <2>1
  <2>2. CASE c = EffectiveMin
    <3>1. minRequestCpus \in MinRequestCpus
      BY DEF TuningTypeOK
    <3>2. 2 * AtLeast(2, minRequestCpus) <= Cores => AtLeast(2, minRequestCpus) \in PowersOf2
      BY <3>1 DEF FloorsFit
    <3>. QED
      BY <1>8, <2>2, <3>2 DEF EffectiveMin
  <2>. QED
    BY <1>9, <2>1, <2>2
<1>. QED
  BY <1>6, <1>8, <1>9, <1>10 DEF Fitting, c

\* The jobs of a tuning get no more cores than the measured ones had.
LEMMA TunedWithin ==
    ASSUME TuningTypeOK, FloorsFit, ~KeptForMemory, NEW wus \in Seq(Measurement), wus # <<>>,
           ~SplitRaises(wus), NEW c \in 1..Cores, Fitting(c), WithinRound(wus, c)
    PROVE  /\ Fitting(Optimization(wus).cpus)
           /\ Optimization(wus).cpus <= AtLeast(c, EffectiveMin)
<1>. DEFINE split == JobSplit(wus)
            o == Optimization(wus)
            d == Cores \div split.cpus
<1>1. /\ split.cpus \in 1..Cores /\ split.multiplier \in Nat \ {0}
      /\ split.multiplier = AtMost(d, EventsPerJob) /\ split.cpus = SplitCpus(wus)
  BY JobSplitType, SplitCpusType
<1>2. \/ split.multiplier > 1 /\ o.cpus = split.cpus
      \/ split.multiplier = 1 /\ o.cpus = Cores
  BY OptimizationType
<1>3. split.multiplier > 1 => Fitting(split.cpus)
  BY SplitFits
<1>. HIDE DEF split, o
<1>4. Fitting(o.cpus)
  BY <1>2, <1>3 DEF Fitting
<1>5. c \in Nat /\ Cores \in Nat /\ EffectiveMin \in Nat /\ split.cpus \in Nat /\ split.cpus > 0
      /\ split.cpus <= Cores /\ EventsPerJob \in Nat
  BY <1>1, Settings, TuningNumbers
<1>6. CASE c = Cores
  <2>1. o.cpus <= Cores /\ o.cpus \in Nat
    BY <1>2, <1>5
  <2>. QED
    BY <1>4, <1>5, <1>6, <2>1 DEF AtLeast, o
<1>7. CASE c # Cores
  <2>1. c \in PowersOf2 /\ c >= EffectiveMin /\ 2 * c <= Cores /\ EventsPerJob >= 2
    BY <1>7 DEF Fitting
  <2>2. split.cpus <= c
    BY <1>1, <1>5, <2>1, SplitWithin DEF AtLeast
  <2>3. split.multiplier > 1
    <3>1. d \in Nat /\ Cores < d * split.cpus + split.cpus
      BY <1>5, Division
    <3>2. d >= 2
      <4>. SUFFICES ASSUME d < 2 PROVE FALSE
        BY <3>1
      <4>. HIDE DEF d
      <4>1. d = 0 \/ d = 1
        BY <3>1
      <4>2. d * split.cpus = 0 \/ d * split.cpus = split.cpus
        BY <1>5, <4>1
      <4>. QED
        BY <1>5, <2>1, <2>2, <3>1, <4>2
    <3>. HIDE DEF d
    <3>. QED
      BY <1>1, <1>5, <2>1, <3>1, <3>2 DEF AtMost
  <2>4. o.cpus <= AtLeast(c, EffectiveMin)
    BY <1>2, <1>5, <2>1, <2>2, <2>3 DEF AtLeast
  <2>. QED
    BY <1>4, <2>4 DEF o
<1>. QED
  BY <1>6, <1>7

\* A planned round takes over the cores.
LEMMA CoresPlan ==
    ASSUME TuningTypeOK, ~KeptForMemory, CoresInv, PlanRound PROVE CoresInv'
<1>. DEFINE n == Len(rounds) + 1
<1>1. /\ DOMAIN rounds' = DOMAIN rounds \cup {n} /\ n \notin DOMAIN rounds
      /\ \A j \in DOMAIN rounds : rounds'[j] = rounds[j]
      /\ rounds'[n] = Planned /\ params' = params /\ minRequestCpus' = minRequestCpus
  BY PlanEffect
<1>2. /\ Planned.wus = <<>> /\ Planned.tuning = <<>>
      /\ Planned.cpus = IF params = <<>> THEN Cores ELSE params[1].cpus
  BY PlannedType
<1>3. EffectiveMin' = EffectiveMin
  BY <1>1 DEF EffectiveMin
<1>4. Fitting(Planned.cpus) /\ WithinRound(Planned.wus, Planned.cpus)
  BY <1>2 DEF CoresInv, Fitting, WithinRound
<1>. HIDE DEF n
<1>5. params' # <<>> => Fitting(params'[1].cpus)
  BY <1>1 DEF CoresInv
<1>6. \A i \in DOMAIN rounds' :
         /\ Fitting(rounds'[i].cpus) /\ WithinRound(rounds'[i].wus, rounds'[i].cpus)
         /\ rounds'[i].active => rounds'[i].tuning = <<>>
  BY <1>1, <1>2, <1>4 DEF CoresInv
<1>7. NeverMoreThanMeasured'
  <2>. SUFFICES ASSUME NEW i \in DOMAIN rounds', rounds'[i].tuning # <<>>, rounds'[i].wus # <<>>
                PROVE  rounds'[i].tuning[1].cpus <= AtLeast(rounds'[i].cpus, EffectiveMin)
    BY <1>3 DEF NeverMoreThanMeasured, Tuned, TuningOf
  <2>1. i \in DOMAIN rounds /\ rounds'[i] = rounds[i]
    BY <1>1, <1>2
  <2>. QED
    BY <2>1 DEF CoresInv, NeverMoreThanMeasured, Tuned, TuningOf
<1>. QED
  BY <1>3, <1>5, <1>6, <1>7 DEF CoresInv, Fitting

\* A measurement stays within the cores of its round.
LEMMA CoresMeasured ==
    ASSUME TuningTypeOK, ~KeptForMemory, CoresInv, NEW i \in DOMAIN rounds, WorkUnitDone(i)
    PROVE  CoresInv'
<1>1. /\ DOMAIN rounds' = DOMAIN rounds /\ rounds[i].active
      /\ \A j \in DOMAIN rounds : j # i => rounds'[j] = rounds[j]
      /\ rounds'[i].cpus = rounds[i].cpus /\ rounds'[i].active = rounds[i].active
      /\ rounds'[i].tuning = rounds[i].tuning
      /\ params' = params /\ minRequestCpus' = minRequestCpus
  BY WorkUnitEffect
<1>2. EffectiveMin' = EffectiveMin
  BY <1>1 DEF EffectiveMin
<1>3. rounds[i].tuning = <<>> /\ WithinRound(rounds[i].wus, rounds[i].cpus)
  BY <1>1 DEF CoresInv
<1>4. WithinRound(rounds'[i].wus, rounds[i].cpus)
  <2>1. CASE rounds'[i].wus = rounds[i].wus
    BY <1>3, <2>1
  <2>2. ASSUME NEW memory \in Memories,
               rounds'[i].wus = Append(rounds[i].wus, Measured(rounds[i], memory))
        PROVE  WithinRound(rounds'[i].wus, rounds[i].cpus)
    <3>. DEFINE wus == rounds[i].wus
                m == Measured(rounds[i], memory)
                c == rounds[i].cpus
    <3>1. /\ wus \in Seq(Measurement) /\ m \in Measurement
          /\ \A s \in Steps : Normalized(m.eff[s], m.threads[s]) <= c
      BY Settings, RoundFields, MeasuredType
    <3>2. rounds'[i].wus = Append(wus, m)
      BY <2>2
    <3>. HIDE DEF m, wus, c
    <3>3. ASSUME NEW w \in DOMAIN Append(wus, m), NEW s \in Steps
          PROVE  Normalized(Append(wus, m)[w].eff[s], Append(wus, m)[w].threads[s]) <= c
      <4>1. CASE w \in DOMAIN wus
        <5>1. Append(wus, m)[w] = wus[w]
          BY <3>1, <4>1
        <5>. QED
          BY <1>3, <4>1, <5>1 DEF WithinRound, wus, c
      <4>2. CASE w \notin DOMAIN wus
        <5>1. Append(wus, m)[w] = m
          BY <3>1, <4>2
        <5>. QED
          BY <3>1, <5>1
      <4>. QED
        BY <4>1, <4>2
    <3>. QED
      BY <3>2, <3>3 DEF WithinRound, c
  <2>. QED
    BY <2>1, <2>2, WorkUnitEffect
<1>5. params' # <<>> => Fitting(params'[1].cpus)
  BY <1>1 DEF CoresInv
<1>6. \A j \in DOMAIN rounds' :
         /\ Fitting(rounds'[j].cpus) /\ WithinRound(rounds'[j].wus, rounds'[j].cpus)
         /\ rounds'[j].active => rounds'[j].tuning = <<>>
  <2>. SUFFICES ASSUME NEW j \in DOMAIN rounds'
                PROVE  /\ Fitting(rounds'[j].cpus) /\ WithinRound(rounds'[j].wus, rounds'[j].cpus)
                       /\ rounds'[j].active => rounds'[j].tuning = <<>>
    OBVIOUS
  <2>1. CASE j = i
    BY <1>1, <1>3, <1>4, <2>1 DEF CoresInv
  <2>2. CASE j # i
    BY <1>1, <2>2 DEF CoresInv
  <2>. QED
    BY <2>1, <2>2
<1>7. NeverMoreThanMeasured'
  <2>. SUFFICES ASSUME NEW j \in DOMAIN rounds', rounds'[j].tuning # <<>>, rounds'[j].wus # <<>>
                PROVE  rounds'[j].tuning[1].cpus <= AtLeast(rounds'[j].cpus, EffectiveMin)
    BY <1>2 DEF NeverMoreThanMeasured, Tuned, TuningOf
  <2>1. j \in DOMAIN rounds /\ rounds'[j] = rounds[j]
    BY <1>1, <1>3
  <2>. QED
    BY <2>1 DEF CoresInv, NeverMoreThanMeasured, Tuned, TuningOf
<1>. QED
  BY <1>2, <1>5, <1>6, <1>7 DEF CoresInv, Fitting

\* What a round finds when it ends is within its cores.
LEMMA CoresEnd ==
    ASSUME TuningTypeOK, FloorsFit, ~KeptForMemory, CoresInv, NEW i \in DOMAIN rounds, RoundEnds(i)
    PROVE  CoresInv'
<1>. DEFINE wus == rounds[i].wus
            c == rounds[i].cpus
            o == Optimization(wus)
<1>1. /\ DOMAIN rounds' = DOMAIN rounds /\ ~rounds'[i].active
      /\ \A j \in DOMAIN rounds : j # i => rounds'[j] = rounds[j]
      /\ rounds'[i].cpus = c /\ rounds'[i].wus = wus
      /\ minRequestCpus' = minRequestCpus
  BY RoundEndsEffect
<1>2. EffectiveMin' = EffectiveMin
  BY <1>1 DEF EffectiveMin
<1>3. wus \in Seq(Measurement) /\ c \in 1..Cores /\ Fitting(c) /\ WithinRound(wus, c)
  BY Settings, RoundFields DEF CoresInv
<1>4. ~SplitRaises(wus) => Fitting(o.cpus) /\ (wus # <<>> => o.cpus <= AtLeast(c, EffectiveMin))
  <2>. SUFFICES ASSUME ~SplitRaises(wus)
                PROVE  Fitting(o.cpus) /\ (wus # <<>> => o.cpus <= AtLeast(c, EffectiveMin))
    OBVIOUS
  <2>1. CASE wus # <<>>
    BY <1>3, <2>1, TunedWithin
  <2>2. CASE wus = <<>>
    <3>1. o = NoMetrics
      BY <2>2, Zenon DEF Optimization
    <3>. QED
      BY <2>2, <3>1 DEF NoMetrics, Fitting
  <2>. QED
    BY <2>1, <2>2
<1>5. \/ rounds'[i].tuning = <<>> /\ params' = params
      \/ ~SplitRaises(wus) /\ rounds'[i].tuning = <<o>> /\ params' = <<o>>
  BY RoundEndsEffect
<1>. HIDE DEF o, wus, c
<1>6. params' # <<>> => Fitting(params'[1].cpus)
  BY <1>4, <1>5 DEF CoresInv
<1>7. \A j \in DOMAIN rounds' :
         /\ Fitting(rounds'[j].cpus) /\ WithinRound(rounds'[j].wus, rounds'[j].cpus)
         /\ rounds'[j].active => rounds'[j].tuning = <<>>
  <2>. SUFFICES ASSUME NEW j \in DOMAIN rounds'
                PROVE  /\ Fitting(rounds'[j].cpus) /\ WithinRound(rounds'[j].wus, rounds'[j].cpus)
                       /\ rounds'[j].active => rounds'[j].tuning = <<>>
    OBVIOUS
  <2>1. CASE j = i
    BY <1>1, <1>3, <2>1
  <2>2. CASE j # i
    BY <1>1, <2>2 DEF CoresInv
  <2>. QED
    BY <2>1, <2>2
<1>8. NeverMoreThanMeasured'
  <2>. SUFFICES ASSUME NEW j \in DOMAIN rounds', rounds'[j].tuning # <<>>, rounds'[j].wus # <<>>
                PROVE  rounds'[j].tuning[1].cpus <= AtLeast(rounds'[j].cpus, EffectiveMin)
    BY <1>2 DEF NeverMoreThanMeasured, Tuned, TuningOf
  <2>1. CASE j = i
    BY <1>1, <1>4, <1>5, <2>1
  <2>2. CASE j # i
    <3>1. j \in DOMAIN rounds /\ rounds'[j] = rounds[j]
      BY <1>1, <2>2
    <3>. QED
      BY <3>1 DEF CoresInv, NeverMoreThanMeasured, Tuned, TuningOf
  <2>. QED
    BY <2>1, <2>2
<1>. QED
  BY <1>2, <1>6, <1>7, <1>8 DEF CoresInv, Fitting

\* Neither the request nor its workload ever changes.
LEMMA TmpfsStays ==
    ASSUME TuningTypeOK, [TuningNext]_tuningVars PROVE KeptForMemory' = KeptForMemory
<1>1. workload' = workload /\ splitTmpfs' = splitTmpfs
  BY PlanEffect, WorkUnitEffect, RoundEndsEffect DEF TuningNext, tuningVars, config
<1>. QED
  BY <1>1 DEF KeptForMemory

\* Efficiencies are brought back to the threads of the request, so however few CPUs
\* a round ran with, the jobs that follow from it get no more cores than it had,
\* except for the least that is set.  With split_tmpfs, that holds once the tmpfs of
\* the jobs was measured; before, their cores are kept for memory.
THEOREM CoresAsMeasured ==
    ASSUME FloorsFit PROVE TuningSpec => []NeverMoreThanMeasured
<1>. DEFINE Inv == KeptForMemory \/ CoresInv
<1>1. TuningInit => Inv
  <2>. SUFFICES ASSUME TuningInit PROVE CoresInv
    OBVIOUS
  <2>1. rounds = <<>> /\ params = <<>> /\ DOMAIN rounds = {}
    BY DEF TuningInit
  <2>. QED
    BY <2>1 DEF CoresInv, NeverMoreThanMeasured, Tuned
<1>2. TuningTypeOK /\ Inv /\ [TuningNext]_tuningVars => Inv'
  <2>. SUFFICES ASSUME TuningTypeOK, ~KeptForMemory, CoresInv, [TuningNext]_tuningVars
                PROVE  CoresInv'
    BY TmpfsStays
  <2>1. CASE UNCHANGED tuningVars
    <3>1. rounds' = rounds /\ params' = params /\ minRequestCpus' = minRequestCpus
      BY <2>1 DEF tuningVars, config
    <3>. QED
      BY <3>1 DEF CoresInv, Fitting, EffectiveMin, NeverMoreThanMeasured, Tuned, TuningOf
  <2>. QED
    BY <2>1, CoresPlan, CoresMeasured, CoresEnd DEF TuningNext
<1>3. Inv => NeverMoreThanMeasured
  BY DEF CoresInv, NeverMoreThanMeasured
<1>. HIDE DEF Inv
<1>. QED
  BY <1>1, <1>2, <1>3, TuningTypes, PTL DEF TuningSpec

-------------------------------------------------------------------------------
(* The size of the merged files. *)

\* The events that the jobs of a round really have.
EventsOf(i) == IF i = 1 THEN AtLeast((EventsPerJob * PilotPercent) \div 100, 1) ELSE EventsPerJob

\* Half a job, more or less: the claim for a round.
NearTarget(size, group) ==
    LET merged == {s \in Steps : 4 * size[s] < 3 * TargetMerged}
        job == Min({size[s] : s \in IF merged = {} THEN Steps ELSE merged})
    IN  \/ group \in {1, MaxJobsPerWU}
        \/ 2 * (group * job - TargetMerged) <= job /\ 2 * (TargetMerged - group * job) <= job

\* The size of the jobs of a round of a workload.
JobSize(work, r) == [s \in Steps |-> work.write[s] * r.events]

\* MergedNearTarget, for the rounds of a workload.
AllNear(work, rs) ==
    (\A j \in DOMAIN rs : rs[j].recorded = rs[j].events) =>
        \A i \in DOMAIN rs : rs[i].sized => NearTarget(JobSize(work, rs[i]), rs[i].group)

\* Jobs have the events of the request, the pilot's its part; their output is
\* proportional.
SizesInv ==
    /\ \A i \in DOMAIN rounds :
          /\ rounds[i].events = EventsOf(i)
          /\ \A w \in DOMAIN rounds[i].wus, s \in Steps :
                rounds[i].wus[w].write[s] = workload.write[s] * rounds[i].events
    /\ AllNear(workload, rounds)

\* A factor goes through the minimum.
LEMMA MinTimes ==
    ASSUME NEW S \in SUBSET Nat, S # {}, NEW k \in Nat, k > 0
    PROVE  Min({k * x : x \in S}) = k * Min(S)
<1>. DEFINE T == {k * x : x \in S}
<1>1. Min(S) \in S /\ Min(S) \in Nat /\ \A x \in S : Min(S) <= x
  BY MinIsOne
<1>2. \A x \in S : k * x \in Nat /\ k * Min(S) \in Nat /\ k * Min(S) <= k * x
  <2>. SUFFICES ASSUME NEW x \in S
                PROVE  k * x \in Nat /\ k * Min(S) \in Nat /\ k * Min(S) <= k * x
    OBVIOUS
  <2>. DEFINE m == Min(S)
  <2>1. m \in Nat /\ x \in Nat /\ m <= x
    BY <1>1
  <2>. HIDE DEF m
  <2>2. m * k <= x * k /\ m * k = k * m /\ x * k = k * x /\ k * x \in Nat /\ k * m \in Nat
    BY <2>1, ProductGrows, Product
  <2>. QED
    BY <2>2 DEF m
<1>3. T \in SUBSET Nat /\ k * Min(S) \in T
  BY <1>1, <1>2
<1>4. Min(T) \in T /\ \A y \in T : Min(T) <= y
  <2>. HIDE DEF T
  <2>. QED
    BY <1>3, MinIsOne
<1>5. \A y \in T : k * Min(S) <= y
  BY <1>2
<1>. HIDE DEF T
<1>6. Min(T) \in Nat /\ k * Min(S) \in Nat /\ Min(T) <= k * Min(S) /\ k * Min(S) <= Min(T)
  BY <1>1, <1>2, <1>3, <1>4, <1>5
<1>. QED
  BY <1>6 DEF T

\* What is divided by a common factor is near all the same.
LEMMA NearWithout ==
    ASSUME NEW k \in Nat, k > 0, NEW job \in Nat, job > 0, NEW target \in Nat
    PROVE  LET g == Nearest(k * target, k * job)
           IN  /\ g \in Nat
               /\ 2 * (g * job - target) <= job /\ 2 * (target - g * job) <= job
<1>. DEFINE n == k * target
            d == k * job
            g == Nearest(n, d)
<1>1. n \in Nat /\ d \in Nat /\ d > 0
  BY Product
<1>2. g \in Nat /\ 2 * (g * d) <= 2 * n + d /\ 2 * n + d <= 2 * (g * d) + 2 * d
  <2>. HIDE DEF n, d
  <2>. QED
    BY <1>1, NearestIsNear
<1>. HIDE DEF g
<1>3. g * d = k * (g * job)
  BY <1>2
<1>. DEFINE x == g * job
            a == 2 * x
            b == 2 * target + job
            c == 2 * x + 2 * job
<1>4. x \in Nat
  BY <1>2, Product
<1>. HIDE DEF x
<1>5. k * a = 2 * (k * x) /\ k * b = 2 * n + d /\ k * c = 2 * (k * x) + 2 * d
  BY <1>4
<1>6. g * d = k * x
  BY <1>3 DEF x
<1>7. k * a <= k * b /\ k * b <= k * c
  BY <1>2, <1>5, <1>6
<1>8. a \in Nat /\ b \in Nat /\ c \in Nat
  BY <1>4
<1>9. a <= b /\ b <= c
  <2>. HIDE DEF a, b, c, n, d
  <2>1. b + 1 <= a => (b + 1) * k <= a * k
    BY <1>8, ProductGrows
  <2>2. c + 1 <= b => (c + 1) * k <= b * k
    BY <1>8, ProductGrows
  <2>3. /\ (b + 1) * k = k * b + k /\ a * k = k * a
        /\ (c + 1) * k = k * c + k /\ b * k = k * b
    BY <1>8
  <2>4. k * a \in Nat /\ k * b \in Nat /\ k * c \in Nat
    BY <1>8, Product
  <2>. QED
    BY <1>7, <1>8, <2>1, <2>2, <2>3, <2>4
<1>10. 2 * (x - target) <= job /\ 2 * (target - x) <= job
  BY <1>4, <1>9
<1>. QED
  BY <1>2, <1>10 DEF g, x

\* The same jobs are the smallest when all sizes have a common factor.
LEMMA SmallestJob ==
    ASSUME NEW size, \A s \in Steps : size[s] \in Nat \ {0}, NEW k \in Nat, k > 0
    PROVE  LET sizes == {k * size[s] : s \in Steps}
               merged == {n \in sizes : 4 * n < 3 * (k * TargetMerged)}
               small == {s \in Steps : 4 * size[s] < 3 * TargetMerged}
               job == Min({size[s] : s \in IF small = {} THEN Steps ELSE small})
           IN  /\ job \in Nat \ {0}
               /\ Min(IF merged = {} THEN sizes ELSE merged) = k * job
<1>. DEFINE sizes == {k * size[s] : s \in Steps}
            merged == {n \in sizes : 4 * n < 3 * (k * TargetMerged)}
            small == {s \in Steps : 4 * size[s] < 3 * TargetMerged}
            taken == IF small = {} THEN Steps ELSE small
            S == {size[s] : s \in taken}
            job == Min(S)
<1>1. \A s \in Steps : 4 * (k * size[s]) < 3 * (k * TargetMerged) <=> 4 * size[s] < 3 * TargetMerged
  <2>. SUFFICES ASSUME NEW s \in Steps
                PROVE  4 * (k * size[s]) < 3 * (k * TargetMerged) <=> 4 * size[s] < 3 * TargetMerged
    OBVIOUS
  <2>. DEFINE a == 4 * size[s]
              b == 3 * TargetMerged
  <2>1. a \in Nat /\ b \in Nat /\ size[s] \in Nat /\ TargetMerged \in Nat
    BY TuningNumbers
  <2>2. 4 * (k * size[s]) = k * a /\ 3 * (k * TargetMerged) = k * b
    BY <2>1
  <2>. HIDE DEF a, b
  <2>3. a + 1 <= b => (a + 1) * k <= b * k
    BY <2>1, ProductGrows
  <2>4. b <= a => b * k <= a * k
    BY <2>1, ProductGrows
  <2>5. (a + 1) * k = k * a + k /\ b * k = k * b /\ a * k = k * a
    BY <2>1
  <2>6. k * a \in Nat /\ k * b \in Nat
    BY <2>1, Product
  <2>7. k * a < k * b <=> a < b
    BY <2>1, <2>3, <2>4, <2>5, <2>6
  <2>. QED
    BY <2>2, <2>7 DEF a, b
<1>2. merged = {k * size[s] : s \in small}
  BY <1>1
<1>3. (IF merged = {} THEN sizes ELSE merged) = {k * size[s] : s \in taken}
  <2>1. merged = {} <=> small = {}
    BY <1>2
  <2>. HIDE DEF merged, small
  <2>. QED
    BY <1>2, <2>1
<1>4. {k * size[s] : s \in taken} = {k * x : x \in S}
  OBVIOUS
<1>5. taken \subseteq Steps /\ taken # {}
  BY StepsFinite
<1>6. S \in SUBSET Nat /\ S # {} /\ S \subseteq Nat \ {0}
  <2>. HIDE DEF taken
  <2>. QED
    BY <1>5
<1>. HIDE DEF S, merged, sizes
<1>7. job \in Nat \ {0} /\ Min({k * x : x \in S}) = k * job
  BY <1>6, MinIsOne, MinTimes
<1>8. Min(IF merged = {} THEN sizes ELSE merged) = k * job
  BY <1>3, <1>4, <1>7, Zenon
<1>. QED
  BY <1>7, <1>8 DEF S, merged, sizes

\* The group that SizedGroup finds for jobs of the size that it scales to.
LEMMA SizedNear ==
    ASSUME TuningTypeOK, SizesInv, NEW r \in WithMetrics,
           CurrentEvents = EventsPerJob, rounds[r].recorded = rounds[r].events
    PROVE  NearTarget([s \in Steps |-> workload.write[s] * EventsPerJob], SizedGroup(r))
<1>. DEFINE wus == rounds[r].wus
            b == rounds[r].events
            L == Len(wus)
            k == L * b
            size == [s \in Steps |-> workload.write[s] * EventsPerJob]
            sizes == {k * size[s] : s \in Steps}
            merged == {n \in sizes : 4 * n < 3 * (k * TargetMerged)}
            small == {s \in Steps : 4 * size[s] < 3 * TargetMerged}
            job == Min({size[s] : s \in IF small = {} THEN Steps ELSE small})
            g == Nearest(k * TargetMerged, k * job)
<1>1. /\ r \in DOMAIN rounds /\ wus \in Seq(Measurement) /\ wus # <<>>
      /\ b \in Nat /\ b > 0 /\ b = EventsOf(r)
      /\ \A w \in DOMAIN wus, s \in Steps : wus[w].write[s] = workload.write[s] * b
  <2>1. r \in DOMAIN rounds /\ wus # <<>>
    BY DEF WithMetrics
  <2>2. wus \in Seq(Measurement) /\ b \in Nat \ {0}
    BY <2>1, Settings, RoundFields
  <2>. QED
    BY <2>1, <2>2 DEF SizesInv
<1>2. L \in Nat /\ L > 0 /\ IsFiniteSet(DOMAIN wus) /\ Cardinality(DOMAIN wus) = L
  BY <1>1, SeqDomain
<1>3. k \in Nat /\ k > 0
  BY <1>1, <1>2, Product
<1>4. EventsBehind(r) = b
  BY <1>1 DEF EventsBehind, EventsOf
<1>5. ASSUME NEW s \in Steps
      PROVE  /\ size[s] \in Nat \ {0}
             /\ SumFunction([w \in DOMAIN wus |-> wus[w].write[s]]) * CurrentEvents = k * size[s]
  <2>. DEFINE p == workload.write[s]
              ones == [w \in DOMAIN wus |-> 1]
              c == p * b
  <2>1. p \in Nat /\ p > 0 /\ EventsPerJob \in Nat /\ EventsPerJob > 0
    BY Settings, TuningNumbers
  <2>2. c \in Nat
    BY <1>1, <2>1, Product
  <2>3. [w \in DOMAIN wus |-> wus[w].write[s]] = [w \in DOMAIN wus |-> c * ones[w]]
    BY <1>1, <2>2
  <2>4. ones \in [DOMAIN wus -> Nat] /\ SumFunction(ones) = L
    BY <1>2, SumOnes
  <2>. HIDE DEF ones, c, L, wus
  <2>5. SumFunction([w \in DOMAIN wus |-> wus[w].write[s]]) = c * L
    <3>1. SumFunction([w \in DOMAIN wus |-> c * ones[w]]) = c * SumFunction(ones)
      BY <1>2, <2>2, <2>4, SumTimes
    <3>. QED
      BY <2>3, <2>4, <3>1
  <2>6. size[s] = p * EventsPerJob
    OBVIOUS
  <2>7. size[s] \in Nat \ {0}
    BY <2>1, <2>6, Product
  <2>. HIDE DEF p, b, size
  <2>8. (c * L) * EventsPerJob = (L * b) * (p * EventsPerJob)
    BY <1>1, <1>2, <2>1 DEF c
  <2>. QED
    BY <2>5, <2>6, <2>7, <2>8
<1>6. {SumFunction([w \in DOMAIN wus |-> wus[w].write[s]]) * CurrentEvents : s \in Steps} = sizes
  <2>. HIDE DEF k, size, wus
  <2>. QED
    BY <1>5
<1>7. TargetMerged * (L * EventsBehind(r)) = k * TargetMerged
  BY <1>1, <1>2, <1>4, TuningNumbers
<1>8. SizedGroup(r) = WithinJobLimits(Nearest(k * TargetMerged,
                                              Min(IF merged = {} THEN sizes ELSE merged)))
  <2>1. SizedGroup(r) =
          LET ss == {SumFunction([w \in DOMAIN wus |-> wus[w].write[s]]) * CurrentEvents : s \in Steps}
              t == TargetMerged * (L * EventsBehind(r))
              m == {n \in ss : 4 * n < 3 * t}
          IN  WithinJobLimits(Nearest(t, Min(IF m = {} THEN ss ELSE m)))
    BY Zenon DEF SizedGroup
  <2>. HIDE DEF k, sizes
  <2>. QED
    BY <1>6, <1>7, <2>1
<1>9. job \in Nat \ {0} /\ Min(IF merged = {} THEN sizes ELSE merged) = k * job
  <2>1. \A s \in Steps : size[s] \in Nat \ {0}
    BY <1>5
  <2>. HIDE DEF k, size
  <2>. QED
    BY <1>3, <2>1, SmallestJob
<1>10. SizedGroup(r) = WithinJobLimits(g)
  <2>. HIDE DEF k, job, sizes, merged
  <2>. QED
    BY <1>8, <1>9
<1>. HIDE DEF k, job
<1>11. /\ g \in Nat
       /\ 2 * (g * job - TargetMerged) <= job /\ 2 * (TargetMerged - g * job) <= job
  <2>1. job \in Nat /\ job > 0 /\ TargetMerged \in Nat
    BY <1>9, TuningNumbers
  <2>. QED
    BY <1>3, <2>1, NearWithout
<1>. HIDE DEF g
<1>12. SizedGroup(r) \in {1, MaxJobsPerWU} \/ SizedGroup(r) = g
  BY <1>10, <1>11, TuningNumbers DEF WithinJobLimits, Clamp, AtMost, AtLeast
<1>13. \/ SizedGroup(r) \in {1, MaxJobsPerWU}
       \/ /\ 2 * (SizedGroup(r) * job - TargetMerged) <= job
          /\ 2 * (TargetMerged - SizedGroup(r) * job) <= job
  BY <1>11, <1>12
<1>. QED
  BY <1>13, Zenon DEF NearTarget, job

\* The property in the terms of the lemmas.
LEMMA MergedIs == AllNear(workload, rounds) => MergedNearTarget
<1>. SUFFICES ASSUME AllNear(workload, rounds),
                     \A j \in DOMAIN rounds : rounds[j].recorded = rounds[j].events,
                     NEW i \in DOMAIN rounds, rounds[i].sized
              PROVE  LET size(s) == workload.write[s] * rounds[i].events
                         merged == {s \in Steps : 4 * size(s) < 3 * TargetMerged}
                         job == Min({size(s) : s \in IF merged = {} THEN Steps ELSE merged})
                     IN  \/ rounds[i].group \in {1, MaxJobsPerWU}
                         \/ /\ 2 * (rounds[i].group * job - TargetMerged) <= job
                            /\ 2 * (TargetMerged - rounds[i].group * job) <= job
  BY Zenon DEF MergedNearTarget
<1>. DEFINE size(s) == workload.write[s] * rounds[i].events
            f == JobSize(workload, rounds[i])
            merged == {s \in Steps : 4 * size(s) < 3 * TargetMerged}
            taken == IF merged = {} THEN Steps ELSE merged
<1>1. \A s \in Steps : f[s] = size(s)
  BY DEF JobSize
<1>2. {s \in Steps : 4 * f[s] < 3 * TargetMerged} = merged
  BY <1>1
<1>3. taken \subseteq Steps
  OBVIOUS
<1>4. NearTarget(f, rounds[i].group)
  BY DEF AllNear
<1>. HIDE DEF f, size
<1>5. {f[s] : s \in taken} = {size(s) : s \in taken}
  <2>. HIDE DEF taken
  <2>. QED
    BY <1>1, <1>3
<1>6. NearTarget(f, rounds[i].group) <=>
          \/ rounds[i].group \in {1, MaxJobsPerWU}
          \/ /\ 2 * (rounds[i].group * Min({f[s] : s \in taken}) - TargetMerged) <= Min({f[s] : s \in taken})
             /\ 2 * (TargetMerged - rounds[i].group * Min({f[s] : s \in taken})) <= Min({f[s] : s \in taken})
  BY <1>2, Zenon DEF NearTarget
<1>. QED
  BY <1>4, <1>5, <1>6, Zenon DEF size

\* A new round has jobs near the target, if the events that are recorded are right.
LEMMA PlannedNear ==
    ASSUME TuningTypeOK, SizesInv,
           \A j \in DOMAIN rounds : rounds[j].recorded = rounds[j].events,
           Planned.recorded = Planned.events, Planned.sized
    PROVE  NearTarget(JobSize(workload, Planned), Planned.group)
<1>1. WithMetrics # {} /\ (params = <<>> \/ params[1].multiplier = 1)
  BY PlannedType
<1>2. rounds # <<>>
  <2>1. rounds = <<>> => DOMAIN rounds = {}
    OBVIOUS
  <2>. QED
    BY <1>1, <2>1 DEF WithMetrics
<1>3. Group = SizedGroup(Max(WithMetrics))
  BY <1>1, <1>2 DEF Group
<1>4. ASSUME NEW n \in Nat \ {0} PROVE AtLeast((n * 100) \div 100, 1) = n
  BY DEF AtLeast
<1>5. Planned.events = EventsPerJob /\ Planned.recorded = CurrentEvents
  <2>1. EventsPerJob \in Nat \ {0} /\ CurrentEvents \in Nat \ {0}
    BY EventsType, TuningNumbers
  <2>2. /\ Planned.events = AtLeast((EventsPerJob * 100) \div 100, 1)
        /\ Planned.recorded = AtLeast((CurrentEvents * 100) \div 100, 1)
    BY <1>2, PlannedType
  <2>. QED
    BY <1>4, <2>1, <2>2
<1>6. Max(WithMetrics) \in WithMetrics
  BY <1>1, LatestWithMetrics
<1>7. rounds[Max(WithMetrics)].recorded = rounds[Max(WithMetrics)].events
  BY <1>6 DEF WithMetrics
<1>8. NearTarget([s \in Steps |-> workload.write[s] * EventsPerJob], SizedGroup(Max(WithMetrics)))
  BY <1>5, <1>6, <1>7, SizedNear
<1>. QED
  BY <1>3, <1>5, <1>8, PlannedType DEF JobSize

\* The invariant is kept when the rounds that there were keep their events and
\* groups, and so do their measurements.
LEMMA SizesKept ==
    ASSUME TuningTypeOK, SizesInv, DOMAIN rounds' = DOMAIN rounds, workload' = workload,
           \A i \in DOMAIN rounds :
              /\ rounds'[i].events = rounds[i].events /\ rounds'[i].recorded = rounds[i].recorded
              /\ rounds'[i].group = rounds[i].group /\ rounds'[i].sized = rounds[i].sized,
           \A i \in DOMAIN rounds : \A w \in DOMAIN rounds'[i].wus, s \in Steps :
              rounds'[i].wus[w].write[s] = workload.write[s] * rounds[i].events
    PROVE  SizesInv'
<1>1. ASSUME NEW i \in DOMAIN rounds PROVE rounds'[i].events = EventsOf(i)
  BY DEF SizesInv
<1>2. AllNear(workload', rounds')
  <2>. SUFFICES ASSUME \A j \in DOMAIN rounds : rounds'[j].recorded = rounds'[j].events,
                       NEW i \in DOMAIN rounds, rounds'[i].sized
                PROVE  NearTarget(JobSize(workload', rounds'[i]), rounds'[i].group)
    BY DEF AllNear
  <2>1. NearTarget(JobSize(workload, rounds[i]), rounds[i].group)
    BY DEF SizesInv, AllNear
  <2>2. JobSize(workload', rounds'[i]) = JobSize(workload, rounds[i])
    BY DEF JobSize
  <2>. QED
    BY <2>1, <2>2
<1>. QED
  BY <1>1, <1>2 DEF SizesInv, EventsOf

\* A planned round has the events of its place, and a group near the target.
LEMMA SizesPlan == ASSUME TuningTypeOK, SizesInv, PlanRound PROVE SizesInv'
<1>. DEFINE n == Len(rounds) + 1
<1>1. /\ DOMAIN rounds' = DOMAIN rounds \cup {n} /\ n \notin DOMAIN rounds
      /\ \A j \in DOMAIN rounds : rounds'[j] = rounds[j]
      /\ rounds'[n] = Planned /\ workload' = workload
  BY PlanEffect
<1>2. Planned.wus = <<>> /\ DOMAIN Planned.wus = {}
  BY PlannedType
<1>3. Planned.events = EventsOf(n)
  <2>1. Len(rounds) \in Nat /\ (rounds = <<>> <=> Len(rounds) = 0)
    BY Settings
  <2>2. EventsPerJob \in Nat /\ EventsPerJob > 0
    BY TuningNumbers
  <2>3. AtLeast((EventsPerJob * 100) \div 100, 1) = EventsPerJob
    BY <2>2 DEF AtLeast
  <2>4. CASE rounds = <<>>
    <3>1. n = 1
      BY <2>1, <2>4
    <3>. QED
      BY <2>4, <3>1, PlannedType DEF EventsOf
  <2>5. CASE rounds # <<>>
    <3>1. n # 1
      BY <2>1, <2>5
    <3>. QED
      BY <2>3, <2>5, <3>1, PlannedType DEF EventsOf
  <2>. QED
    BY <2>4, <2>5
<1>. HIDE DEF n
<1>4. AllNear(workload', rounds')
  <2>. SUFFICES ASSUME \A j \in DOMAIN rounds' : rounds'[j].recorded = rounds'[j].events,
                       NEW i \in DOMAIN rounds', rounds'[i].sized
                PROVE  NearTarget(JobSize(workload', rounds'[i]), rounds'[i].group)
    BY DEF AllNear
  <2>1. \A j \in DOMAIN rounds : rounds[j].recorded = rounds[j].events
    BY <1>1
  <2>2. CASE i = n
    <3>1. Planned.recorded = Planned.events /\ Planned.sized
      BY <1>1, <2>2
    <3>2. NearTarget(JobSize(workload, Planned), Planned.group)
      BY <2>1, <3>1, PlannedNear
    <3>. QED
      BY <1>1, <2>2, <3>2
  <2>3. CASE i \in DOMAIN rounds
    <3>1. NearTarget(JobSize(workload, rounds[i]), rounds[i].group)
      BY <1>1, <2>1, <2>3 DEF SizesInv, AllNear
    <3>. QED
      BY <1>1, <2>3, <3>1
  <2>. QED
    BY <1>1, <2>2, <2>3
<1>5. ASSUME NEW i \in DOMAIN rounds'
      PROVE  /\ rounds'[i].events = EventsOf(i)
             /\ \A w \in DOMAIN rounds'[i].wus, s \in Steps :
                   rounds'[i].wus[w].write[s] = workload'.write[s] * rounds'[i].events
  <2>1. CASE i = n
    BY <1>1, <1>2, <1>3, <2>1
  <2>2. CASE i \in DOMAIN rounds
    BY <1>1, <2>2 DEF SizesInv
  <2>. QED
    BY <1>1, <2>1, <2>2
<1>. QED
  BY <1>4, <1>5 DEF SizesInv, EventsOf

\* What a work unit writes is in proportion to its events.
LEMMA SizesMeasured ==
    ASSUME TuningTypeOK, SizesInv, NEW i \in DOMAIN rounds, WorkUnitDone(i) PROVE SizesInv'
<1>1. /\ DOMAIN rounds' = DOMAIN rounds /\ workload' = workload
      /\ \A j \in DOMAIN rounds : j # i => rounds'[j] = rounds[j]
      /\ rounds'[i].events = rounds[i].events /\ rounds'[i].recorded = rounds[i].recorded
      /\ rounds'[i].group = rounds[i].group /\ rounds'[i].sized = rounds[i].sized
  BY WorkUnitEffect
<1>2. \A w \in DOMAIN rounds'[i].wus, s \in Steps :
          rounds'[i].wus[w].write[s] = workload.write[s] * rounds[i].events
  <2>1. CASE rounds'[i].wus = rounds[i].wus
    BY <2>1 DEF SizesInv
  <2>2. ASSUME NEW memory \in Memories,
               rounds'[i].wus = Append(rounds[i].wus, Measured(rounds[i], memory))
        PROVE  \A w \in DOMAIN rounds'[i].wus, s \in Steps :
                  rounds'[i].wus[w].write[s] = workload.write[s] * rounds[i].events
    <3>. DEFINE wus == rounds[i].wus
                m == Measured(rounds[i], memory)
                write(s) == workload.write[s] * rounds[i].events
    <3>1. \A s \in Steps : m.write[s] = write(s)
      BY DEF Measured
    <3>2. wus \in Seq(Measurement) /\ m \in Measurement
      BY Settings, RoundFields, MeasuredType
    <3>3. \A w \in DOMAIN wus, s \in Steps : wus[w].write[s] = write(s)
      BY DEF SizesInv
    <3>4. rounds'[i].wus = Append(wus, m)
      BY <2>2
    <3>. HIDE DEF m, wus, write
    <3>5. ASSUME NEW w \in DOMAIN Append(wus, m), NEW s \in Steps
          PROVE  Append(wus, m)[w].write[s] = write(s)
      <4>1. CASE w \in DOMAIN wus
        <5>1. Append(wus, m)[w] = wus[w]
          BY <3>2, <4>1
        <5>. QED
          BY <3>3, <4>1, <5>1
      <4>2. CASE w \notin DOMAIN wus
        <5>1. Append(wus, m)[w] = m
          BY <3>2, <4>2
        <5>. QED
          BY <3>1, <5>1
      <4>. QED
        BY <4>1, <4>2
    <3>. QED
      BY <3>4, <3>5 DEF write
  <2>. QED
    BY <2>1, <2>2, WorkUnitEffect
<1>3. ASSUME NEW j \in DOMAIN rounds
      PROVE  \A w \in DOMAIN rounds'[j].wus, s \in Steps :
                rounds'[j].wus[w].write[s] = workload.write[s] * rounds[j].events
  <2>1. CASE j = i
    BY <1>2, <2>1
  <2>2. CASE j # i
    BY <1>1, <2>2 DEF SizesInv
  <2>. QED
    BY <2>1, <2>2
<1>4. \A j \in DOMAIN rounds :
         /\ rounds'[j].events = rounds[j].events /\ rounds'[j].recorded = rounds[j].recorded
         /\ rounds'[j].group = rounds[j].group /\ rounds'[j].sized = rounds[j].sized
  BY <1>1
<1>. QED
  BY <1>1, <1>3, <1>4, SizesKept

\* The end of a round leaves events, groups and measurements.
LEMMA SizesEnd ==
    ASSUME TuningTypeOK, SizesInv, NEW i \in DOMAIN rounds, RoundEnds(i) PROVE SizesInv'
<1>1. /\ DOMAIN rounds' = DOMAIN rounds /\ workload' = workload
      /\ \A j \in DOMAIN rounds : j # i => rounds'[j] = rounds[j]
      /\ rounds'[i].events = rounds[i].events /\ rounds'[i].recorded = rounds[i].recorded
      /\ rounds'[i].group = rounds[i].group /\ rounds'[i].sized = rounds[i].sized
      /\ rounds'[i].wus = rounds[i].wus
  BY RoundEndsEffect
<1>2. \A j \in DOMAIN rounds :
         /\ rounds'[j].events = rounds[j].events /\ rounds'[j].recorded = rounds[j].recorded
         /\ rounds'[j].group = rounds[j].group /\ rounds'[j].sized = rounds[j].sized
         /\ rounds'[j].wus = rounds[j].wus
  BY <1>1
<1>3. ASSUME NEW j \in DOMAIN rounds, NEW w \in DOMAIN rounds'[j].wus, NEW s \in Steps
      PROVE  rounds'[j].wus[w].write[s] = workload.write[s] * rounds[j].events
  BY <1>2 DEF SizesInv
<1>. QED
  BY <1>1, <1>2, <1>3, SizesKept

\* As long as the recorded events of the jobs are those that they have, a round
\* sized from the outputs of a smaller one, still running or not, merges to the
\* target size, give or take half a job.
THEOREM SizedToTarget == TuningSpec => []MergedNearTarget
<1>1. TuningInit => SizesInv
  <2>. SUFFICES ASSUME TuningInit PROVE SizesInv
    OBVIOUS
  <2>1. rounds = <<>> /\ DOMAIN rounds = {}
    BY DEF TuningInit
  <2>. QED
    BY <2>1 DEF SizesInv, AllNear
<1>2. TuningTypeOK /\ SizesInv /\ [TuningNext]_tuningVars => SizesInv'
  <2>. SUFFICES ASSUME TuningTypeOK, SizesInv, [TuningNext]_tuningVars PROVE SizesInv'
    OBVIOUS
  <2>1. CASE UNCHANGED tuningVars
    <3>1. rounds' = rounds /\ workload' = workload
      BY <2>1 DEF tuningVars, config
    <3>. QED
      BY <3>1 DEF SizesInv, EventsOf
  <2>. QED
    BY <2>1, SizesPlan, SizesMeasured, SizesEnd DEF TuningNext
<1>3. SizesInv => MergedNearTarget
  BY MergedIs DEF SizesInv
<1>. QED
  BY <1>1, <1>2, <1>3, TuningTypes, PTL DEF TuningSpec

===============================================================================
