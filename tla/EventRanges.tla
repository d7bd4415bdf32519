----------------------------- MODULE EventRanges ------------------------------
(***************************************************************************)
(* What the rounds of one workflow work on: the events a GEN workflow      *)
(* generates or the input files of a file based one, as plan_production_dag *)
(* (core/dag_planner.py) hands them out round by round.                    *)
(*                                                                         *)
(* An item is an event number or the position of a file in the dataset.  A *)
(* job is the set of its items; a round is a sequence of jobs, cut into    *)
(* work units.  Fractions are percentages.                                 *)
(***************************************************************************)
EXTENDS Naturals, FiniteSets, Sequences, Functions

CONSTANTS
    Kinds,           \* "gen", "files" (FileBased), "events" (EventBased on files)
    Adaptives,       \* values of the request's adaptive flag
    Limits,          \* values of max_concurrent_rounds
    Throwaways,      \* values of pilot_throwaway
    RequestNumEvents, EventsPerJob,
    PilotPercent, TestPercent, FilterPercent,
    TunedEvents,     \* tuned_events_per_job an optimization may come to
    Multipliers,     \* job_multiplier an optimization may come to
    FirstRoundWUs, WUsPerRound, JobsPerWU, MaxWUsPerRound,
    NumFiles, EventsPerFile, Sites,
    PlannerFilesPerJob,  \* files per job the planner counts with,
    SplitterFilesPerJob, \* and the splitter: the defaults are 1 and 5
    MaxDags,         \* bound: rounds
    MaxFaults        \* bound: planning failures and unreadable metrics

ASSUME RangesAssumption ==
    /\ Kinds \subseteq {"gen", "files", "events"} /\ Adaptives \subseteq BOOLEAN
    /\ Limits \subseteq Nat \ {0} /\ Throwaways \subseteq BOOLEAN
    /\ {PilotPercent, TestPercent} \subseteq 0..100 /\ FilterPercent \in 1..100
    /\ TunedEvents \subseteq Nat \ {0} /\ Multipliers \subseteq Nat \ {0}
    /\ {RequestNumEvents, EventsPerJob, FirstRoundWUs, WUsPerRound, JobsPerWU,
        MaxWUsPerRound, NumFiles, EventsPerFile, PlannerFilesPerJob,
        SplitterFilesPerJob} \subseteq Nat \ {0}
    /\ MaxDags \in Nat /\ MaxFaults \in Nat

VARIABLES
    kind, adaptive, limit, throwaway, \* the workflow's configuration
    site,          \* where each input file is
    status,        \* of the request, as far as it matters here
    round,         \* workflow.current_round: the number of the next round
    offset,        \* next_first_event or file_offset, as the last item handed out
    produced,      \* events_produced
    tuned,         \* step_metrics["adaptive_params"] of the latest optimization
    dags,          \* the rows of the rounds, in the order of planning
    orphans,       \* jobs of DAGMans whose planning was rolled back
    faults

config == <<kind, adaptive, limit, throwaway, site>>
vars == <<config, status, round, offset, produced, tuned, dags, orphans, faults>>

IsGen == kind = "gen"

\* perJob: events of a job as planned; reserved: effective_events_per_job.
DagRow == [round : Nat, jobs : Seq(SUBSET Nat), group : Nat \ {0}, perJob : Nat, reserved : Nat,
           done : SUBSET Nat, active : BOOLEAN]

NoTuning == [events |-> 0, multiplier |-> 1]

Init ==
    /\ kind \in Kinds /\ adaptive \in Adaptives
    /\ limit \in Limits /\ throwaway \in Throwaways
    /\ site \in [1..NumFiles -> Sites]
    /\ \A f \in 1..NumFiles : IsGen \/ f = 1 => site[f] = CHOOSE s \in Sites : TRUE
    /\ status = "queued"
    /\ round = 0 /\ offset = 0 /\ produced = 0
    /\ tuned = NoTuning
    /\ dags = <<>> /\ orphans = <<>> /\ faults = 0

-------------------------------------------------------------------------------
(* The planner. *)

Ceil(n, d) == (n + d - 1) \div d
AtMost(n, bound) == IF bound < n THEN bound ELSE n
AtLeast(n, bound) == IF n < bound THEN bound ELSE n

\* _effective_fraction: pilot and test fraction in round 0, then the test
\* fraction alone; a fraction outside of (0, 1) counts as 1.
EffectivePercent(r) ==
    LET candidates == {p \in {TestPercent} \cup (IF r = 0 THEN {PilotPercent} ELSE {}) :
                          0 < p /\ p < 100}
    IN  IF candidates = {} THEN 100 ELSE CHOOSE p \in candidates : \A q \in candidates : p <= q

Scaled(n, percent) ==
    IF 0 < percent /\ percent < 100 THEN AtLeast((n * percent) \div 100, 1) ELSE n

TargetEvents == Scaled(RequestNumEvents, TestPercent)

\* The first round is as large as the others when there is no pilot; a request
\* that is not adaptive plans everything in round 0.
MaxJobs(r) ==
    IF r = 0 /\ ~adaptive THEN NumFiles * EventsPerFile + RequestNumEvents * 100
    ELSE JobsPerWU * (IF r = 0 /\ PilotPercent # 0 THEN FirstRoundWUs ELSE WUsPerRound)

\* _plan_gen_nodes: as many jobs as the missing output needs, on the event
\* numbers that follow the reserved ones.
GenJobs ==
    LET perJob == Scaled(EventsPerJob, EffectivePercent(round))
        events == ((TargetEvents - produced) * 100) \div FilterPercent
        jobs == IF produced >= TargetEvents THEN 0 ELSE AtMost(Ceil(events, perJob), MaxJobs(round))
    IN  [i \in 1..jobs |-> (offset + (i - 1) * perJob + 1) .. (offset + i * perJob)]

\* The files of f's site up to f; the first of them.
Siblings(first, f) == {g \in first..f : site[g] = site[f]}
Eldest(first, f) == CHOOSE g \in Siblings(first, f) : \A h \in Siblings(first, f) : g <= h

\* The files a batch begins with.
Openers(first, last) ==
    {f \in first..last : (Cardinality(Siblings(first, f)) - 1) % SplitterFilesPerJob = 0}

\* FileBasedSplitter: a site's files together, sites as they come up first.
\* A file is in the last batch begun before it.
SplitByFiles(first, last) ==
    LET begun(f) == {g \in Openers(first, last) :
                        \/ Eldest(first, g) < Eldest(first, f)
                        \/ Eldest(first, g) = Eldest(first, f) /\ g <= f}
    IN  [i \in 1..Cardinality(Openers(first, last)) |->
            {f \in first..last : Cardinality(begun(f)) = i}]

\* EventBasedSplitter: the files a run of events_per_job events touches.
SplitByEvents(first, last) ==
    LET file(event) == first + (event - 1) \div EventsPerFile
        events == (last - first + 1) * EventsPerFile
    IN  [i \in 1..Ceil(events, EventsPerJob) |->
            {file(e) : e \in ((i - 1) * EventsPerJob + 1) .. AtMost(i * EventsPerJob, events)}]

\* _plan_file_based_nodes: the files after file_offset, as many as the jobs of
\* the round are thought to take.
FileJobs ==
    LET last == AtMost(offset + MaxJobs(round) * PlannerFilesPerJob, NumFiles)
    IN  IF offset >= NumFiles THEN <<>>
        ELSE IF kind = "files" THEN SplitByFiles(offset + 1, last)
        ELSE SplitByEvents(offset + 1, last)

Jobs == IF IsGen THEN GenJobs ELSE FileJobs

\* _compute_jobs_per_wu_from_write_mb is a free choice here; the multiplier of
\* a job split has precedence.
GroupSizes ==
    IF round > 0 /\ tuned.multiplier > 1 THEN {JobsPerWU * tuned.multiplier}
    ELSE IF round > 0 THEN {1, JobsPerWU}
    ELSE {JobsPerWU}

\* The work units beyond the limit are dropped.
Kept(jobs, group) == SubSeq(jobs, 1, AtMost(Len(jobs), MaxWUsPerRound * group))

\* splitting_params carries the tuned value when the row is written, not yet
\* when the jobs are planned; the change does not outlive the call.
ReservedPerJob ==
    Scaled(IF round > 0 /\ tuned.events > 0 THEN tuned.events ELSE EventsPerJob,
           EffectivePercent(round))

\* mutant: the range is reserved for the jobs of one work unit only.
AdvancedByGroup(jobs) ==
    IF IsGen THEN offset + AtMost(Len(jobs), JobsPerWU) * ReservedPerJob
    ELSE offset + AtMost(Len(jobs), JobsPerWU) * PlannerFilesPerJob

\* The range is reserved at planning time (DD-21).
Advanced(jobs) ==
    IF throwaway /\ round = 0 THEN offset
    ELSE IF IsGen THEN offset + Len(jobs) * ReservedPerJob
    ELSE offset + Len(jobs) * PlannerFilesPerJob

PlannedRow(jobs, group) ==
    [round |-> round, jobs |-> jobs, group |-> group,
     perJob |-> Scaled(EventsPerJob, EffectivePercent(round)), reserved |-> ReservedPerJob,
     done |-> {}, active |-> TRUE]

WorkUnits(dag) == 1..Ceil(Len(dag.jobs), dag.group)

TypeOK ==
    /\ kind \in Kinds /\ adaptive \in Adaptives
    /\ limit \in Limits /\ throwaway \in Throwaways
    /\ site \in [1..NumFiles -> Sites]
    /\ status \in {"queued", "active", "completed"}
    /\ {round, offset, produced, faults} \subseteq Nat
    /\ tuned \in [events : TunedEvents \cup {0}, multiplier : Multipliers \cup {1}]
    /\ dags \in Seq(DagRow) /\ orphans \in Seq(Seq(SUBSET Nat))
    /\ \A i \in DOMAIN dags : dags[i].done \subseteq WorkUnits(dags[i])
    /\ Len(dags) <= MaxDags /\ faults <= MaxFaults

\* A planned and submitted round, committed.
PlanRound ==
    /\ Len(dags) < MaxDags /\ Jobs # <<>>
    /\ \E group \in GroupSizes :
          LET jobs == Kept(Jobs, group)
          IN  /\ dags' = Append(dags, PlannedRow(jobs, group))
              /\ offset' = Advanced(jobs)
    /\ round' = round + 1
    /\ status' = "active"
    /\ UNCHANGED <<config, produced, tuned, orphans, faults>>

\* An exception or a crash after submit_dag: the transaction is rolled back or
\* the exception is swallowed before the offset is written.  The DAGMan runs.
PlanOrphaned ==
    /\ faults < MaxFaults /\ Jobs # <<>>
    /\ \E group \in GroupSizes : orphans' = Append(orphans, Kept(Jobs, group))
    /\ faults' = faults + 1
    /\ UNCHANGED <<config, status, round, offset, produced, tuned, dags>>

-------------------------------------------------------------------------------
(* The lifecycle manager. *)

ActiveDags == {i \in DOMAIN dags : dags[i].active}

\* mutant: what was planned counts, not what was produced.
TargetPlanned == IsGen /\ offset >= TargetEvents

\* files_processed is never updated.
TargetReached == IsGen /\ produced >= TargetEvents

\* _maybe_advance_round: enough work units of the latest round are done.
MayAdvance ==
    /\ Cardinality(ActiveDags) < limit
    /\ \A i \in ActiveDags :
          (\A j \in ActiveDags : j <= i)
              => 2 * Cardinality(dags[i].done) >= Cardinality(WorkUnits(dags[i]))

MayPlan ==
    \/ status = "queued" /\ ActiveDags = {}
    \/ status = "active" /\ ~TargetReached /\ MayAdvance

Plan == MayPlan /\ (PlanRound \/ PlanOrphaned)

\* Nothing is left to plan.  In ACTIVE the answer is not looked at, and a
\* request that is not adaptive gets an exception in round 0 instead.
NothingLeft ==
    /\ status = "queued" /\ ActiveDags = {} /\ Jobs = <<>>
    /\ adaptive \/ round > 0
    /\ status' = "completed"
    /\ UNCHANGED <<config, round, offset, produced, tuned, dags, orphans, faults>>

Discarded(i) == throwaway /\ dags[i].round = 0

\* The jobs of a work unit.
JobsOf(dag, w) == ((w - 1) * dag.group + 1) .. AtMost(w * dag.group, Len(dag.jobs))

Items(dag, w) == UNION {dag.jobs[j] : j \in JobsOf(dag, w)}

\* Events of a work unit that pass the filter.
Output(dag, w) == (Cardinality(Items(dag, w)) * FilterPercent) \div 100

\* A poll finds a work unit done; unreadable metrics count as no events.
WorkUnitDone(i) ==
    /\ \E w \in WorkUnits(dags[i]) \ dags[i].done, readable \in BOOLEAN :
          /\ dags' = [dags EXCEPT ![i].done = @ \cup {w}]
          /\ produced' = IF IsGen /\ readable /\ ~Discarded(i)
                         THEN produced + Output(dags[i], w) ELSE produced
          /\ readable \/ faults < MaxFaults
          /\ faults' = IF readable THEN faults ELSE faults + 1
    /\ UNCHANGED <<config, status, round, offset, tuned, orphans>>

\* What work units have produced, event by event.
OutputOf(dag, wus) == UNION {{w} \X (1..Output(dag, w)) : w \in wus}

\* mutant: the events on disk are added whatever was counted.
CountedTwice(i) == produced + Cardinality(OutputOf(dags[i], WorkUnits(dags[i])))

\* complete_round counts from disk what the polls did not, if nothing was.
CountedAtEnd(i) ==
    IF IsGen /\ produced = 0 /\ ~Discarded(i)
    THEN Cardinality(OutputOf(dags[i], WorkUnits(dags[i]))) ELSE produced

\* mutant: the request stays ACTIVE whatever max_concurrent_rounds is.
AlwaysPipelined(i, events) ==
    IF ActiveDags = {i} /\ IsGen /\ events >= TargetEvents THEN "completed" ELSE status

\* The request's status when a round has ended: with one round at a time the
\* next one is planned from QUEUED.
AfterRound(i, events) ==
    IF ActiveDags # {i} THEN status
    ELSE IF IsGen /\ events >= TargetEvents THEN "completed"
    ELSE IF limit <= 1 THEN "queued" ELSE status

\* The DAG of a round ends: complete_round, then the next status.
RoundEnds(i) ==
    /\ dags[i].active /\ dags[i].done = WorkUnits(dags[i])
    /\ dags' = [dags EXCEPT ![i].active = FALSE]
    /\ produced' = CountedAtEnd(i)
    /\ tuned' \in [events : (IF IsGen THEN TunedEvents ELSE {}) \cup {0},
                   multiplier : Multipliers \cup {1}]
    /\ status' = AfterRound(i, produced')
    /\ UNCHANGED <<config, round, offset, orphans, faults>>

\* With the target reached the other rounds are removed.
TargetMet ==
    /\ status = "active" /\ TargetReached
    /\ status' = "completed"
    /\ dags' = [i \in DOMAIN dags |-> [dags[i] EXCEPT !.active = FALSE]]
    /\ UNCHANGED <<config, round, offset, produced, tuned, orphans, faults>>

Dag(i) == status = "active" /\ dags[i].active /\ (WorkUnitDone(i) \/ RoundEnds(i))

Next == Plan \/ NothingLeft \/ TargetMet \/ (\E i \in DOMAIN dags : Dag(i))

Spec == Init /\ [][Next]_vars

(* The loop evaluates the request again and again, a plan that fails now and  *)
(* then succeeds in the end, and the work units of a DAG end.                 *)
Fairness == WF_vars(Next) /\ SF_vars(MayPlan /\ PlanRound)
            /\ \A i \in 1..MaxDags : WF_vars(i \in DOMAIN dags /\ Dag(i))

LiveSpec == Spec /\ Fairness

-------------------------------------------------------------------------------
(* Properties. *)

Covered(dag) == UNION Range(dag.jobs)

\* Rounds whose output counts.
Counting == {i \in DOMAIN dags : ~Discarded(i)}

\* The optimization chose no fewer events per job than the jobs have.
NeverShrunk == \A i \in DOMAIN dags : dags[i].reserved >= dags[i].perJob

\* The round took consecutive files, and as many as the planner counts for its
\* jobs, or fewer at the end of the dataset.
FullBatch(dag) ==
    LET files == Covered(dag)
        size == Cardinality(files)
        counted == Len(dag.jobs) * PlannerFilesPerJob
    IN  /\ \A f, g \in files : f..g \subseteq files
        /\ size = counted \/ (NumFiles \in files /\ size < counted)

FullBatches == \A i \in DOMAIN dags : FullBatch(dags[i])

\* No two committed rounds work on the same item as long as the optimization
\* does not shrink the jobs and the batches of files are full: whatever was
\* rolled back, failed or planned while other rounds ran.
RoundsDisjoint ==
    (IF IsGen THEN NeverShrunk ELSE FullBatches) =>
        \A i, j \in Counting : i # j => Covered(dags[i]) \cap Covered(dags[j]) = {}

\* A work unit's events are counted once, by a poll or when its round ends,
\* and those of a discarded pilot never.
CountedOnce ==
    produced <= Cardinality(UNION {{i} \X OutputOf(dags[i], dags[i].done) : i \in Counting})

\* A completed request is done: a GEN workflow has its events, a file based one
\* has finished work units for all files, if its batches were full.
CompletedMeansDone ==
    status = "completed" =>
        IF IsGen THEN produced >= TargetEvents
        ELSE FullBatches =>
             \A f \in 1..NumFiles :
                \E i \in DOMAIN dags : \E w \in dags[i].done : f \in Items(dags[i], w)

\* Every request completes, a file based one if its rounds come one by one.
RequestCompletes == IsGen \/ limit = 1 => <>(status = "completed")

-------------------------------------------------------------------------------
(* What a comment says and the code does not do: without its premise          *)
(* RoundsDisjoint does not hold.                                              *)

\* "Seed offset: next_first_event ensures no two jobs ever share the same event
\* range (even across failed/retried rounds)" (dag_planner.py:958).
EventsNeverShared ==
    \A i, j \in Counting : i # j => Covered(dags[i]) \cap Covered(dags[j]) = {}

===============================================================================
