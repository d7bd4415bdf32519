----------------------------- MODULE OutputBlocks -----------------------------
(***************************************************************************)
(* The processing blocks of one workflow (core/output_manager.py), one for *)
(* each output dataset, as the evaluations of an ACTIVE request drive      *)
(* them: each work unit a poll reports is registered in each block, then   *)
(* failed Rucio calls are retried, all in one database transaction.        *)
(*                                                                         *)
(* A call of the output manager is one step.  Its result is a set of       *)
(* outcomes <<row, verdict>>: the block's row afterwards, and whether the  *)
(* call returned, raised RucioRegistrationError ("refused") or another     *)
(* exception ("raised").                                                   *)
(*                                                                         *)
(* DBS is the mock adapter the lifecycle manager installs; it never fails. *)
(* Every work unit has a merged file for every dataset.  The query for the *)
(* blocks has no ORDER BY; here they come in the order of their index.     *)
(***************************************************************************)
EXTENDS Naturals, FiniteSets

CONSTANTS
    Datasets,      \* output datasets, numbered in the order of the blocks
    WorkUnits,     \* bound: work units of all rounds, numbered
    TotalUnits,    \* total_work_units of the blocks: the size of round 0
    TargetUnits,   \* work units that reach the workflow's target
    Modes,         \* values of stageout_mode
    Sites,         \* where work units run, "local" among them
    SiteOf,        \* the site of each work unit
    TempSites,     \* sites with a _Temp RSE in Rucio
    Consolidation, \* consolidation_rse is configured
    Faults         \* "rucio": a Rucio call may fail; "crash": rollbacks

ASSUME OutputAssumption ==
    /\ Datasets \subseteq Nat /\ Datasets # {} /\ WorkUnits \subseteq Nat
    /\ IsFiniteSet(Datasets) /\ IsFiniteSet(WorkUnits)
    /\ TotalUnits \in Nat \ {0} /\ TargetUnits \in Nat \ {0}
    /\ Modes \subseteq {"local", "test", "production"}
    /\ SiteOf \in [WorkUnits -> Sites]
    /\ TempSites \subseteq Sites \ {"local"}
    /\ Consolidation \in BOOLEAN
    /\ Faults \subseteq {"rucio", "crash"}

\* done: completed_work_units, of which output_files has the files; rules:
\* source_rule_ids; err: rucio_last_error is set; tried: last_rucio_attempt is.
BlockRow == [st : {"open", "complete", "archived"}, closed : BOOLEAN,
             done : SUBSET WorkUnits, rules : SUBSET WorkUnits, tape : BOOLEAN,
             consolidated : BOOLEAN, err : BOOLEAN, tried : BOOLEAN]

NewBlock == [st |-> "open", closed |-> FALSE, done |-> {}, rules |-> {}, tape |-> FALSE,
             consolidated |-> FALSE, err |-> FALSE, tried |-> FALSE]

VARIABLES
    mode,          \* stageout_mode
    request,       \* the request's status, as far as it matters here
    reported,      \* work units in dags.completed_work_units
    block,         \* the processing_blocks rows
    rucio,         \* files attached in Rucio: <<dataset, work unit>>
    cache,         \* _rucio_registered_cache: <<dataset, site>>
    pc, batch, retry, \* the evaluation in progress
    committed,     \* the database as committed last
    late,          \* RUCIO_MAX_RETRY_DURATION has passed since the blocks were made
    failed         \* history: some Rucio call failed

database == <<request, reported, block>>
vars == <<mode, database, rucio, cache, pc, batch, retry, committed, late, failed>>

RequestState == {"active", "held", "completed"}

TypeOK ==
    /\ mode \in Modes
    /\ request \in RequestState
    /\ reported \subseteq WorkUnits
    /\ block \in [Datasets -> BlockRow]
    /\ rucio \subseteq Datasets \X WorkUnits
    /\ cache \subseteq Datasets \X Sites
    /\ pc \in {"idle", "down", "polled", "register", "replicas", "rules", "consolidate", "finish"}
    /\ batch \subseteq WorkUnits \X Datasets
    /\ retry \subseteq Datasets
    /\ committed \in [request : RequestState, reported : SUBSET WorkUnits,
                 block : [Datasets -> BlockRow]]
    /\ late \in BOOLEAN /\ failed \in BOOLEAN

Database == [request |-> request, reported |-> reported, block |-> block]

Init ==
    /\ mode \in Modes
    /\ request = "active" /\ reported = {}
    /\ block = [ds \in Datasets |-> NewBlock]
    /\ rucio = {} /\ cache = {}
    /\ pc = "idle" /\ batch = {} /\ retry = {} /\ committed = Database
    /\ late = FALSE /\ failed = FALSE

-------------------------------------------------------------------------------
(* Calls on one block. *)

Outcome(row, verdict) == <<row, verdict>>

\* Goes on with the rows of the calls that returned.
Then(outcomes, Rest(_)) ==
    UNION {IF o[2] = "ok" THEN Rest(o[1]) ELSE {o} : o \in outcomes}

RecordFailure(row) == [row EXCEPT !.err = TRUE, !.tried = TRUE]

\* A Rucio rule call that gives the row "good", or is refused and recorded.
RuleCall(row, good) ==
    {Outcome(good, "ok")} \cup
    (IF "rucio" \in Faults THEN {Outcome(RecordFailure(row), "refused")} ELSE {})

\* _register_files_in_rucio does something: there is an RSE for the site.
HasRSE(w) ==
    \/ mode = "test" /\ SiteOf[w] \in TempSites
    \/ mode = "production"

\* Files that are to be registered in Rucio when their work unit completes.
InRucio(w) == HasRSE(w) /\ SiteOf[w] # "local"

TapeRule(row) ==
    IF mode = "production"
    THEN RuleCall(row, [row EXCEPT !.tape = TRUE, !.st = "archived", !.err = FALSE])
    ELSE {Outcome(row, "ok")}

\* Nothing of the block is in Rucio in test mode: no rule to make.
ConsolidationSkipped(row) == mode = "test" /\ \A w \in row.done : ~InRucio(w)

ConsolidationRule(row) ==
    IF Consolidation /\ ~ConsolidationSkipped(row)
    THEN RuleCall(row, [row EXCEPT !.consolidated = TRUE])
    ELSE {Outcome(row, "ok")}

\* mutant: the block is marked complete once the tape rule exists.
CompleteAfterTape(row) ==
    Then(TapeRule([row EXCEPT !.closed = TRUE]),
         LAMBDA r : ConsolidationRule([r EXCEPT !.st = IF @ = "open" THEN "complete" ELSE @]))

\* _complete_block: close in DBS, tape rule, consolidation rule.
CompleteBlock(row) ==
    Then(TapeRule([row EXCEPT !.closed = TRUE, !.st = "complete"]), ConsolidationRule)

IsFull(row) == Cardinality(row.done) >= TotalUnits

SourceRule(row, w) ==
    IF mode = "production"
    THEN RuleCall(row, [row EXCEPT !.rules = @ \cup {w}])
    ELSE {Outcome(row, "ok")}

\* handle_work_unit_completion: the row is updated first; a registration that
\* fails leaves it at that.
HandleWorkUnit(row, w) ==
    LET recorded == [row EXCEPT !.done = @ \cup {w}]
    IN  Then(SourceRule(recorded, w),
             LAMBDA r : IF IsFull(r) THEN CompleteBlock(r) ELSE {Outcome(r, "ok")})
        \cup (IF InRucio(w) /\ "rucio" \in Faults THEN {Outcome(recorded, "raised")} ELSE {})

\* mutant: only what was never tried is tried.
RetryOnce(row, outcomes) == IF row.tried THEN {Outcome(row, "ok")} ELSE outcomes

\* _should_retry: at once before the first failure, after three days never
\* again, in between when the backoff has passed.
Retry(row, outcomes) ==
    (IF row.tried THEN {Outcome(row, "ok")} ELSE {})
    \cup (IF row.tried /\ late THEN {} ELSE outcomes)

\* mutant: the retry takes a block with an error for one to archive.
RetriedRuleByError(row) ==
    IF mode # "production" THEN {Outcome(row, "ok")}
    ELSE IF row.st = "complete" \/ row.err THEN Retry(row, TapeRule(row))
    ELSE {Outcome(row, "ok")}

\* process_blocks_for_workflow: the tape rule of a complete block, or the
\* source rule whose failure an open block remembers.
RetriedRule(row) ==
    IF mode # "production" THEN {Outcome(row, "ok")}
    ELSE IF row.st = "complete" THEN Retry(row, TapeRule(row))
    ELSE IF row.st = "open" /\ row.err
    THEN Retry(row, RuleCall(row, [row EXCEPT !.err = FALSE]))
    ELSE {Outcome(row, "ok")}

\* _retry_consolidation registers every file again before it asks for the rule.
RetriedConsolidation(row) ==
    IF ~Consolidation \/ row.st = "open" \/ row.consolidated \/ ConsolidationSkipped(row)
    THEN {Outcome(row, "ok")}
    ELSE Retry(row,
             RuleCall(row, [row EXCEPT !.consolidated = TRUE, !.err = FALSE])
             \cup (IF "rucio" \in Faults /\ \E w \in row.done : HasRSE(w)
                   THEN {Outcome(row, "raised")} ELSE {}))

-------------------------------------------------------------------------------
(* The evaluation. *)

TargetReached == Cardinality(reported) >= TargetUnits

\* An evaluation ends: what the session wrote is the committed database.
Commit ==
    /\ pc' = "idle" /\ batch' = {} /\ retry' = {}
    /\ committed' = Database'

Begin ==
    /\ pc = "idle" /\ request = "active"
    /\ pc' = "polled"
    /\ UNCHANGED <<mode, database, rucio, cache, batch, retry, committed, late, failed>>

\* A poll reports new work units; the dags row has them from here on.
Poll ==
    /\ pc = "polled"
    /\ \E S \in (SUBSET (WorkUnits \ reported)) \ {{}} :
          /\ reported' = reported \cup S
          /\ batch' = S \X Datasets
    /\ pc' = "register"
    /\ UNCHANGED <<mode, request, block, rucio, cache, retry, committed, late, failed>>

\* The order of the loops: work units, and the blocks for each.
FirstPair(pairs) ==
    CHOOSE p \in pairs : \A q \in pairs : p[1] < q[1] \/ (p[1] = q[1] /\ p[2] <= q[2])

\* _process_completed_wus: any exception ends the loops, a refusal holds.
Register ==
    /\ pc = "register"
    /\ LET w == FirstPair(batch)[1]
           ds == FirstPair(batch)[2]
       IN  \E o \in HandleWorkUnit(block[ds], w) :
              /\ block' = [block EXCEPT ![ds] = o[1]]
              /\ request' = IF o[2] = "refused" THEN "held" ELSE request
              /\ batch' = IF o[2] = "ok" THEN batch \ {<<w, ds>>} ELSE {}
              /\ failed' = (failed \/ o[2] # "ok")
              /\ IF InRucio(w) /\ o[2] # "raised"
                 THEN /\ rucio' = rucio \cup {<<ds, w>>}
                      /\ cache' = IF mode = "test" THEN cache \cup {<<ds, SiteOf[w]>>} ELSE cache
                 ELSE UNCHANGED <<rucio, cache>>
    /\ pc' = IF batch' = {} THEN "polled" ELSE "register"
    /\ UNCHANGED <<mode, reported, retry, committed, late>>

\* The end of a round moves the request before the retries are reached.
EndRound ==
    /\ pc = "polled"
    /\ request' \in {"active"} \cup (IF TargetReached THEN {"completed"} ELSE {})
    /\ UNCHANGED <<mode, reported, block, rucio, cache, late, failed>>
    /\ Commit

BeginRetries ==
    /\ pc = "polled"
    /\ retry' = Datasets /\ pc' = "replicas"
    /\ UNCHANGED <<mode, database, rucio, cache, batch, committed, late, failed>>

First(S) == CHOOSE x \in S : \A y \in S : x <= y

\* Replicas of files at sites the cache does not know; a failure is logged.
\* In production the cache is asked for an RSE name it never contains.
RetryReplicas ==
    /\ pc = "replicas"
    /\ LET ds == First(retry)
           unknown == {s \in TempSites : /\ mode # "local" /\ \E w \in block[ds].done : SiteOf[w] = s
                                         /\ mode = "production" \/ <<ds, s>> \notin cache}
       IN  \E S \in (IF "rucio" \in Faults THEN SUBSET unknown ELSE {unknown}) :
              /\ rucio' = rucio \cup {<<ds, w>> : w \in {v \in block[ds].done : SiteOf[v] \in S}}
              /\ cache' = IF mode = "test" THEN cache \cup ({ds} \X S) ELSE cache
              /\ failed' = (failed \/ S # unknown)
    /\ pc' = "rules"
    /\ UNCHANGED <<mode, database, batch, retry, committed, late>>

\* Every file of the block is registered again, local ones too.
Reattached(ds) ==
    LET files == {w \in block[ds].done : HasRSE(w)}
    IN  /\ rucio' = rucio \cup ({ds} \X files)
        /\ cache' = IF mode = "test" THEN cache \cup {<<ds, SiteOf[w]>> : w \in files} ELSE cache

\* One retried call: if it returns the evaluation goes on with "step", a
\* refusal holds the request, and any exception ends the retries.
Retried(ds, outcomes, step, rest) ==
    \E o \in outcomes :
        /\ block' = [block EXCEPT ![ds] = o[1]]
        /\ request' = IF o[2] = "refused" THEN "held" ELSE request
        /\ failed' = (failed \/ o[2] # "ok")
        /\ IF o[2] = "ok" THEN pc' = step /\ retry' = rest
                         ELSE pc' = "finish" /\ retry' = {}

RetryRules ==
    /\ pc = "rules"
    /\ LET ds == First(retry)
       IN  Retried(ds, RetriedRule(block[ds]), "consolidate", retry)
    /\ UNCHANGED <<mode, reported, rucio, cache, batch, committed, late>>

RetryConsolidation ==
    /\ pc = "consolidate"
    /\ LET ds == First(retry)
           rest == retry \ {ds}
       IN  /\ Retried(ds, RetriedConsolidation(block[ds]),
                      IF rest = {} THEN "finish" ELSE "replicas", rest)
           /\ IF block'[ds] = block[ds] THEN UNCHANGED <<rucio, cache>> ELSE Reattached(ds)
    /\ UNCHANGED <<mode, reported, batch, committed, late>>

\* Nothing asks whether the blocks are archived.
Finish ==
    /\ pc = "finish"
    /\ request' \in {request} \cup (IF request = "active" /\ TargetReached THEN {"completed"} ELSE {})
    /\ UNCHANGED <<mode, reported, block, rucio, cache, late, failed>>
    /\ Commit

\* mutant: the rows of the blocks survive the rollback.
RestoreRequestOnly == request' = committed.request /\ reported' = committed.reported /\ UNCHANGED block

Restore == request' = committed.request /\ reported' = committed.reported /\ block' = committed.block

\* An exception rolls the transaction back; a crash loses the cache too.
Rollback ==
    /\ "crash" \in Faults
    /\ pc \notin {"idle", "down"}
    /\ Restore
    /\ pc' = "down" /\ batch' = {} /\ retry' = {}
    /\ cache' \in {cache, {}}
    /\ UNCHANGED <<mode, rucio, committed, late, failed>>

\* The loop goes on with another evaluation.
Restart ==
    /\ pc = "down"
    /\ pc' = "idle"
    /\ UNCHANGED <<mode, database, rucio, cache, batch, retry, committed, late, failed>>

\* The operator releases a held request: it is queued, and runs again or
\* turns out to have nothing left to do.
Release ==
    /\ pc = "idle" /\ request = "held"
    /\ request' \in {"active"} \cup (IF TargetReached THEN {"completed"} ELSE {})
    /\ UNCHANGED <<mode, reported, block, rucio, cache, pc, batch, retry, late, failed>>
    /\ committed' = Database'

TimePasses ==
    /\ pc = "idle" /\ ~late
    /\ late' = TRUE
    /\ UNCHANGED <<mode, database, rucio, cache, pc, batch, retry, committed, failed>>

Evaluation == Poll \/ Register \/ EndRound \/ BeginRetries \/ RetryReplicas
              \/ RetryRules \/ RetryConsolidation \/ Finish

Next == Begin \/ Evaluation \/ Rollback \/ Restart \/ Release \/ TimePasses

Spec == Init /\ [][Next]_vars

\* The retried call made its rule.
RuleMade == pc' = "consolidate" /\ block' # block

(* The lifecycle loop evaluates an active request again and again, Rucio      *)
(* accepts a rule that is asked for again and again, and rollbacks are        *)
(* finitely many.  Nothing is assumed of the operator, nor that polls report. *)
Fairness ==
    /\ WF_vars(Begin) /\ WF_vars(Evaluation) /\ WF_vars(Restart)
    /\ SF_vars(BeginRetries)
    /\ SF_vars(RetryRules /\ RuleMade)
    /\ <>[][~Rollback]_vars

LiveSpec == Spec /\ Fairness

-------------------------------------------------------------------------------
(* Properties. *)

Idle == pc \in {"idle", "down"}

\* As long as no Rucio call fails, every committed evaluation leaves all the
\* blocks of a workflow alike, rollbacks or not: each has recorded the work
\* units the DAGs report, its files are attached in Rucio, and it is closed
\* exactly when the planned number of work units is there.
BlocksKeepUp ==
    Idle /\ ~failed =>
        \A ds \in Datasets :
            /\ block[ds].done = reported
            /\ block[ds].closed <=> IsFull(block[ds])
            /\ \A w \in reported : InRucio(w) => <<ds, w>> \in rucio

\* A tape rule is made for no block that still waits for work units.
TapeWaitsForAll == \A ds \in Datasets : block[ds].tape => IsFull(block[ds])

\* A closed block whose tape rule or consolidation rule is missing is in the
\* status in which process_blocks_for_workflow looks for it.
MissingRulesAreFound ==
    \A ds \in Datasets :
        block[ds].closed =>
            /\ mode = "production" /\ ~block[ds].tape => block[ds].st = "complete"
            /\ block[ds].st # "open"

\* The tape rule of a closed block is asked for until it exists, unless the
\* request is held or completed meanwhile or three days have passed.
TapeRuleFollows ==
    \A ds \in Datasets :
        block[ds].closed /\ ~block[ds].tape /\ mode = "production"
            ~> block[ds].tape \/ late \/ request # "active"

-------------------------------------------------------------------------------
(* What a log message says and the code does not do (see the README). *)

\* "Output registration failed - will retry next cycle" (lifecycle_manager.py:995):
\* whatever failed, every dataset gets every work unit the DAGs reported while
\* the request stays active.
EveryDatasetRecorded ==
    \A ds \in Datasets, w \in WorkUnits :
        w \in reported ~> w \in block[ds].done \/ request # "active"

===============================================================================
