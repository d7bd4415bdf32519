---------------------------- MODULE AdaptiveTuning ----------------------------
(***************************************************************************)
(* The feedback from the measurements of one round of a workflow to the    *)
(* resources of the next ones: core/adaptive.py, called by complete_round, *)
(* and the planner's use of what it returns.                               *)
(*                                                                         *)
(* A workload is what the program cannot see: how many cores each step can *)
(* keep busy and what it writes.  Efficiencies are integers in parts of    *)
(* Cores; sizes, times and memory are integers in units of the constants.  *)
(* The definitions that every specification has are prefixed, so that a    *)
(* module can extend this one and another.                                 *)
(* The parameters that no caller passes (a probe's memory, overcommit) and *)
(* test_fraction are left out.                                             *)
(***************************************************************************)
EXTENDS Integers, Sequences, FiniteSets, FiniteSetsExt

CONSTANTS
    NumSteps,
    Cores,                 \* multicore of the request
    BusyCores,             \* cores a step may keep busy
    Work,                  \* CPU time of a step for 100 events
    Memories,              \* [mean, max] of the peak RSS of a work unit's steps
    Writes,                \* output of the steps for an event
    Cgroups,               \* [anon, tmpfs, gridpack, peak] measured by the monitor
    Tmpfs,                 \* values of split_tmpfs
    EventsPerJob, PilotPercent, JobsPerWU, MaxJobsPerWU,
    TargetMerged, TargetWalls, StartupOverhead,
    DefaultPerCore, MaxPerCore, SafetyPercent,
    MinRequestCpus,        \* values of the setting min_request_cpus
    FirstRoundWUs, WUsPerRound, Limit,
    MaxRounds, MaxUnread   \* bounds: rounds, work units without metrics

Steps == 1..NumSteps

TuningConstants ==
    /\ {NumSteps, Cores, EventsPerJob, JobsPerWU, MaxJobsPerWU, TargetMerged,
        MaxPerCore, FirstRoundWUs, WUsPerRound, Limit} \subseteq Nat \ {0}
    /\ BusyCores \subseteq 1..Cores
    /\ DefaultPerCore \in 1..MaxPerCore /\ PilotPercent \in 1..100
    /\ Work \in [Steps -> Nat \ {0}] /\ Writes \subseteq [Steps -> Nat \ {0}]
    /\ Memories \subseteq [mean : Nat \ {0}, max : Nat \ {0}] /\ SafetyPercent \in Nat
    /\ \A memory \in Memories : memory.mean <= memory.max
    /\ Cgroups \subseteq [anon : Nat, tmpfs : Nat, gridpack : Nat, peak : Nat]
    /\ Tmpfs \subseteq BOOLEAN /\ TargetWalls \subseteq Nat
    /\ {StartupOverhead, MaxRounds, MaxUnread} \cup MinRequestCpus \subseteq Nat

ASSUME TuningAssumption == TuningConstants

VARIABLES
    workload,   \* [busy, write, cgroup]: the same for the whole workflow
    splitTmpfs, targetWall,   \* of the request
    minRequestCpus,           \* of the settings
    rounds,     \* the rounds in the order of planning: DAG row and step_metrics["rounds"]
    params,     \* step_metrics["adaptive_params"]: at most one tuning
    unread      \* work units whose metrics were lost

config == <<workload, splitTmpfs, targetWall, minRequestCpus>>
tuningVars == <<config, rounds, params, unread>>

AtMost(n, bound) == IF bound < n THEN bound ELSE n
AtLeast(n, bound) == IF n < bound THEN bound ELSE n
Clamp(n, low, high) == AtLeast(AtMost(n, high), low)

\* Python's round: half of the divisor goes to the even neighbour.
Nearest(n, d) ==
    LET up == (2 * n + d) \div (2 * d)
    IN  IF 2 * n + d = 2 * d * up /\ up % 2 = 1 THEN up - 1 ELSE up

Latest(wus) == wus[Len(wus)]
MarginOn(mb) == (mb * (100 + SafetyPercent)) \div 100

\* What a work unit measured of its steps (the same memory for all of them).
Measurement ==
    [threads : [Steps -> 1..Cores], eff : [Steps -> Nat], wall : [Steps -> Nat \ {0}],
     memory : Memories, write : [Steps -> Nat \ {0}]]

\* perStep[s]: threads found for step s, for the steps that were measured.  They
\* and the instances are stored, but only the merge job gets the manifest they
\* are written to, and it takes neither from there.
Tuning ==
    [cpus : 1..Cores, multiplier : Nat \ {0}, events : Nat \ {0}, instances : 1..4,
     memory : Nat \ {0}, perStep : {<<>>} \cup [Steps -> 1..Cores]]

\* left: work units that have not ended; recorded: effective_events_per_job;
\* sized: the size of its work units comes from measured outputs; tuning: what
\* was found when it ended.
Round ==
    [cpus : 1..Cores, memory : Nat \ {0}, group : Nat \ {0}, sized : BOOLEAN,
     events : Nat \ {0}, recorded : Nat \ {0}, left : Nat,
     wus : Seq(Measurement), active : BOOLEAN, tuning : Seq(Tuning)]

TuningTypeOK ==
    /\ workload \in [busy : [Steps -> BusyCores], write : Writes, cgroup : Cgroups]
    /\ splitTmpfs \in Tmpfs /\ targetWall \in TargetWalls /\ minRequestCpus \in MinRequestCpus
    /\ rounds \in Seq(Round) /\ Len(rounds) <= MaxRounds /\ unread \in 0..MaxUnread
    /\ params \in Seq(Tuning) /\ Len(params) <= 1

TuningInit ==
    /\ workload \in [busy : [Steps -> BusyCores], write : Writes, cgroup : Cgroups]
    /\ splitTmpfs \in Tmpfs /\ targetWall \in TargetWalls /\ minRequestCpus \in MinRequestCpus
    /\ rounds = <<>> /\ params = <<>> /\ unread = 0

-------------------------------------------------------------------------------
(* What a work unit measures. *)

\* A processing job unpacks the manifest of the sandbox, where --ncpus gives every
\* step the CPUs of the job as its threads.
StepThreads(r, s) == r.cpus

\* A step cannot use more than its threads, and takes some time.  A work unit
\* whose metrics were lost is one without measurements.
Measured(r, memory) ==
    LET busy == [s \in Steps |-> AtMost(workload.busy[s], StepThreads(r, s))]
    IN  [threads |-> [s \in Steps |-> StepThreads(r, s)],
         eff |-> [s \in Steps |-> (Cores * busy[s]) \div StepThreads(r, s)],
         wall |-> [s \in Steps |-> AtLeast((Work[s] * r.events) \div (100 * busy[s]), 1)],
         memory |-> memory,
         write |-> [s \in Steps |-> workload.write[s] * r.events]]

-------------------------------------------------------------------------------
(* compute_round_optimization and its parts; wus are the measurements of the  *)
(* work units of the round that has ended, in the order of completion.        *)

PowersOf2 == {1, 2, 4, 8, 16, 32, 64}

\* The power of two nearest to a / b, with the geometric mean as midpoint.
NearestPowerOf2(a, b) == Min({p \in PowersOf2 : p = 64 \/ a * a <= 2 * p * p * b * b})

\* mutant: the efficiency is taken as if the request's threads had been used.
Unnormalized(eff, threads) == eff

\* merge_round_metrics: efficiencies are in parts of the request's threads.
Normalized(eff, threads) == (eff * threads) \div Cores

\* Sum over the work units of a step's normalized efficiency; the mean is this
\* divided by Len(wus), and effective cores are the mean of parts of Cores.
EffSum(wus, s) ==
    SumFunction([w \in DOMAIN wus |-> Normalized(wus[w].eff[s], wus[w].threads[s])])

\* Efficiency weighted by wall time (of the latest work unit), as a fraction of
\* effective cores: <<numerator, denominator>>.
EffectiveCores(wus) ==
    LET wall == Latest(wus).wall
    IN  <<SumFunction([s \in Steps |-> EffSum(wus, s) * wall[s]]),
          Len(wus) * SumFunction(wall)>>

\* The mean of the RSS values of a step: a mean and a maximum for each work unit,
\* one value if they are equal; the latest work unit counts twice.
MeanRss(wus) ==
    LET times(w) == IF Len(wus) > 1 /\ w = Len(wus) THEN 2 ELSE 1
        values(memory) == IF memory.mean = memory.max THEN 1 ELSE 2
        sum(memory) == IF values(memory) = 1 THEN memory.max ELSE memory.mean + memory.max
    IN  SumFunction([w \in DOMAIN wus |-> times(w) * sum(wus[w].memory)])
            \div SumFunction([w \in DOMAIN wus |-> times(w) * values(wus[w].memory)])

PeakOf(wus) == Max({0} \cup {wus[w].memory.max : w \in DOMAIN wus})

\* The peak of all rounds so far: work units are stored as they end.
HistoricalPeak == Max({0} \cup {PeakOf(rounds[i].wus) : i \in DOMAIN rounds})

\* mutant: only the round that has ended counts.
RoundPeak(wus) == PeakOf(wus)

PeakToCover(wus) == AtLeast(PeakOf(wus), HistoricalPeak)

EffectiveMin == AtLeast(2, minRequestCpus)

\* The cores of a job after a split, before memory is looked at.
SplitCpus(wus) ==
    LET eff == EffectiveCores(wus)
    IN  AtMost(AtLeast(NearestPowerOf2(eff[1], eff[2]), EffectiveMin), Cores)

\* With the gridpack in tmpfs and no measurement of that tmpfs, the cores of a job
\* follow from memory as well.
KeptForMemory == splitTmpfs /\ workload.cgroup.tmpfs = 0

\* Such a job keeps the cores its memory needs, or at least half of the request's
\* and the minimum, which is not compared with the request's cores here.
TmpfsCpus(cpus) ==
    LET need == MarginOn(workload.cgroup.anon + workload.cgroup.gridpack)
        enough == {c \in {cpus * p : p \in PowersOf2} : c < Cores /\ c * MaxPerCore >= need}
    IN  IF ~KeptForMemory THEN cpus
        ELSE IF workload.cgroup.gridpack > 0 THEN (IF enough = {} THEN Cores ELSE Min(enough))
        ELSE AtLeast(cpus, AtLeast(Cores \div 2, EffectiveMin))

\* A job of more cores than the request has makes job_multiplier 0, and the
\* division by it raises an exception, which _compute_adaptive_params catches.
SplitRaises(wus) == wus # <<>> /\ TmpfsCpus(SplitCpus(wus)) > Cores

\* The memory compute_job_split finds for a job of that many cores.
SplitMemory(wus, cpus) ==
    LET cgroup == workload.cgroup
        rss == MeanRss(wus)
        need == IF splitTmpfs /\ cgroup.peak > 0 /\ cgroup.tmpfs > 0
                    THEN MarginOn(AtLeast(cgroup.tmpfs, cgroup.anon))
                ELSE IF splitTmpfs /\ cgroup.peak > 0 /\ cgroup.gridpack > 0
                    THEN MarginOn(cgroup.anon + cgroup.gridpack)
                ELSE IF splitTmpfs /\ cgroup.peak > 0 THEN cpus * MaxPerCore
                ELSE AtLeast(MarginOn(rss), rss + 1000)
    IN  AtMost(AtLeast(need, cpus * DefaultPerCore), cpus * MaxPerCore)

\* compute_job_split.
JobSplit(wus) ==
    LET cpus == TmpfsCpus(SplitCpus(wus))
        multiplier == AtMost(Cores \div cpus, EventsPerJob)
    IN  [cpus |-> cpus, multiplier |-> multiplier,
         events |-> AtLeast(EventsPerJob \div (Cores \div cpus), 1),
         memory |-> SplitMemory(wus, cpus)]

\* compute_throughput_optimization: events that fill the target wall time.  The
\* median is over the only values that merge_round_metrics keeps, the latest.
ThroughputEvents(wus, events) ==
    LET wall == SumFunction(Latest(wus).wall)
        ideal == ((targetWall - StartupOverhead) * events) \div wall
    IN  IF targetWall <= StartupOverhead THEN events
        ELSE AtLeast(100 * Nearest(Clamp(ideal, events \div 2, 2 * events), 100), 100)

\* compute_per_step_nthreads for the first step: as many instances as fit into
\* the CPUs and the memory of the job.
Instances(wus, cpus) ==
    LET cgroup == workload.cgroup
        threads == AtLeast(AtMost(NearestPowerOf2(EffSum(wus, 1), Len(wus)), Cores), 2)
        most == Clamp(cpus \div threads, 1, 4)
        tmpfs == IF cgroup.gridpack > 0 THEN cgroup.gridpack ELSE 1500
        each == IF cgroup.tmpfs > 0 THEN AtLeast(MarginOn(cgroup.tmpfs), 500)
                ELSE MarginOn(MeanRss(wus)) + (IF splitTmpfs THEN tmpfs ELSE 0)
        fits == {p \in 2..most : 3000 + p * each <= MaxPerCore * cpus}
        whole == {p \in fits : cpus % p = 0}
    IN  IF whole # {} THEN Max(whole) ELSE IF fits # {} THEN Max(fits) ELSE 1

\* Only the first step is given instances, the others the request's threads.
PerStepThreads(wus, cpus) ==
    [s \in Steps |-> IF s = 1 /\ Instances(wus, cpus) > 1
                     THEN AtLeast(cpus \div Instances(wus, cpus), 2) ELSE Cores]

\* The memory of a job that is not split: the peak, which is positive when there
\* are measurements, with a margin, and at most what the cores allow.
UnsplitMemory(peak) == AtLeast(AtMost(MarginOn(peak), MaxPerCore * Cores), 4000)

NoMetrics == [cpus |-> Cores, multiplier |-> 1, events |-> EventsPerJob, instances |-> 1,
              memory |-> DefaultPerCore * Cores, perStep |-> <<>>]

\* compute_round_optimization.  instance_mem_mb is only stored for a step 0, and
\* the steps are counted from 1, so instances do not add to the memory.
Optimization(wus) ==
    LET split == JobSplit(wus)
        isSplit == split.multiplier > 1
        cpus == IF isSplit THEN split.cpus ELSE Cores
        events == IF isSplit THEN split.events ELSE EventsPerJob
    IN  IF wus = <<>> THEN NoMetrics
        ELSE [cpus |-> cpus, multiplier |-> IF isSplit THEN split.multiplier ELSE 1,
              events |-> IF targetWall > 0 THEN ThroughputEvents(wus, events) ELSE events,
              instances |-> Instances(wus, cpus),
              memory |-> IF isSplit THEN split.memory ELSE UnsplitMemory(PeakToCover(wus)),
              perStep |-> PerStepThreads(wus, cpus)]

-------------------------------------------------------------------------------
(* The planner. *)

\* events_per_job of the splitting parameters.
CurrentEvents == IF params = <<>> THEN EventsPerJob ELSE params[1].events

\* mutant: the measured output is not scaled to the events of the next jobs.
Unscaled(r) == CurrentEvents

\* The events of the jobs whose output was measured.  A running round has no
\* effective_events_per_job yet; the pilot fraction is known for round 0.
EventsBehind(r) ==
    IF ~rounds[r].active THEN rounds[r].recorded
    ELSE IF r = 1 THEN AtLeast((CurrentEvents * PilotPercent) \div 100, 1) ELSE CurrentEvents

\* mutant: nothing but the upper limit.
OnlyUpperLimit(jobs) == AtMost(jobs, MaxJobsPerWU)

WithinJobLimits(jobs) == Clamp(jobs, 1, MaxJobsPerWU)

\* _compute_jobs_per_wu_from_write_mb on the latest round with measurements: jobs
\* whose smallest output makes a merged file of the target size, without the
\* outputs that are large enough to stay alone.
\* Both sizes are multiplied by the number of work units and by EventsBehind, to
\* divide only once.
SizedGroup(r) ==
    LET wus == rounds[r].wus
        sizes == {SumFunction([w \in DOMAIN wus |-> wus[w].write[s]]) * CurrentEvents : s \in Steps}
        target == TargetMerged * (Len(wus) * EventsBehind(r))
        merged == {size \in sizes : 4 * size < 3 * target}
        smallest == Min(IF merged = {} THEN sizes ELSE merged)
    IN  WithinJobLimits(Nearest(target, smallest))

WithMetrics == {i \in DOMAIN rounds : rounds[i].wus # <<>>}

\* A split's multiplier has precedence over the measured sizes.
Group ==
    IF rounds = <<>> THEN JobsPerWU
    ELSE IF params # <<>> /\ params[1].multiplier > 1 THEN JobsPerWU * params[1].multiplier
    ELSE IF WithMetrics = {} THEN JobsPerWU
    ELSE SizedGroup(Max(WithMetrics))

Requested == [cpus |-> Cores, memory |-> DefaultPerCore * Cores]

\* The jobs keep the events they were planned with before the tuning is applied;
\* the tuned number is only recorded.  sized says where the group came from.
Planned ==
    LET resources == IF params = <<>> THEN Requested
                     ELSE [cpus |-> params[1].cpus, memory |-> params[1].memory]
        pilot == IF rounds = <<>> THEN PilotPercent ELSE 100
    IN  [cpus |-> resources.cpus, memory |-> resources.memory, group |-> Group,
         sized |-> WithMetrics # {} /\ (params = <<>> \/ params[1].multiplier = 1),
         events |-> AtLeast((EventsPerJob * pilot) \div 100, 1),
         recorded |-> AtLeast((CurrentEvents * pilot) \div 100, 1),
         left |-> IF rounds = <<>> THEN FirstRoundWUs ELSE WUsPerRound,
         wus |-> <<>>, active |-> TRUE, tuning |-> <<>>]

PlanRound ==
    /\ Len(rounds) < MaxRounds
    /\ Cardinality({i \in DOMAIN rounds : rounds[i].active}) < Limit
    /\ rounds' = Append(rounds, Planned)
    /\ UNCHANGED <<config, params, unread>>

\* A poll stores the measurements of a work unit, or none if they cannot be read.
WorkUnitDone(i) ==
    /\ rounds[i].active /\ rounds[i].left > 0
    /\ \/ /\ \E memory \in Memories :
                rounds' = [rounds EXCEPT ![i].left = @ - 1,
                                         ![i].wus = Append(@, Measured(rounds[i], memory))]
          /\ unread' = unread
       \/ /\ unread < MaxUnread /\ unread' = unread + 1
          /\ rounds' = [rounds EXCEPT ![i].left = @ - 1]
    /\ UNCHANGED <<config, params>>

\* complete_round: the optimization of the round that ends replaces the one of
\* the round that ended before it, whatever their order of planning.  The older
\* one stays if the optimization raises an exception.
RoundEnds(i) ==
    /\ rounds[i].active /\ rounds[i].left = 0
    /\ LET tuning == IF SplitRaises(rounds[i].wus) THEN <<>> ELSE <<Optimization(rounds[i].wus)>>
       IN  /\ params' = (IF tuning = <<>> THEN params ELSE tuning)
           /\ rounds' = [rounds EXCEPT ![i].active = FALSE, ![i].tuning = tuning]
    /\ UNCHANGED <<config, unread>>

TuningNext == PlanRound \/ \E i \in DOMAIN rounds : WorkUnitDone(i) \/ RoundEnds(i)

TuningSpec == TuningInit /\ [][TuningNext]_tuningVars

-------------------------------------------------------------------------------
(* Properties. *)

\* Rounds whose optimization had measurements.
Tuned == {i \in DOMAIN rounds : rounds[i].tuning # <<>> /\ rounds[i].wus # <<>>}

TuningOf(i) == rounds[i].tuning[1]

\* Efficiencies are brought back to the request's threads: however few CPUs, and
\* so threads, a round ran with, its jobs are never thought to use more cores than
\* they had.  Excluded are jobs that keep cores for the memory of an unmeasured
\* tmpfs, whose number does not come from efficiencies.
\* min_request_cpus has to be a power of two where it leaves room for a second
\* job: three busy cores would be rounded to four.
NeverMoreThanMeasured ==
    KeptForMemory \/ \A i \in Tuned : TuningOf(i).cpus <= AtLeast(rounds[i].cpus, EffectiveMin)

\* "Peak value is tracked for all rounds, not only the latest" (adaptive.py:1547):
\* a round that could be measured and is not split never asks for less memory than
\* an earlier one of that kind, in whatever order the rounds end and whatever was
\* found in between.  A round without readable metrics does ask for less, the
\* default, and a split job is sized from the mean of its own round.
PeaksRemembered ==
    [][\A i \in Tuned' \ Tuned, j \in Tuned :
           TuningOf(i)'.multiplier = 1 /\ TuningOf(j).multiplier = 1
               => TuningOf(i)'.memory >= TuningOf(j).memory]_tuningVars

\* Does not hold: "Memory sizing uses max(current, historical) to prevent
\* regression" (adaptive.py:1463).  When no metrics of a round can be read, its
\* optimization returns the default memory before it looks at the historical peak,
\* and that replaces what a measured round asked for.
MemoryNeverRegresses ==
    [][\A j \in Tuned :
           params' # params /\ params'[1].multiplier = 1 /\ TuningOf(j).multiplier = 1
               => params'[1].memory >= TuningOf(j).memory]_tuningVars

\* Does not hold: "Apply adaptive tuning to the shared manifest"
\* (dag_planner.py:1273).  The threads of a first step that is to run as several
\* instances are not those of any step of the next round.
TuningReachesJobs ==
    [][Len(rounds') > Len(rounds) /\ params # <<>> /\ params[1].instances > 1
           => \E s \in Steps : StepThreads(Latest(rounds'), s) = params[1].perStep[1]]_tuningVars

\* As long as the recorded events of a job are the events it really has, a work
\* unit sized from a smaller (pilot) round merges to the target size, give or
\* take half a job.
MergedNearTarget ==
    (\A j \in DOMAIN rounds : rounds[j].recorded = rounds[j].events) =>
        \A i \in DOMAIN rounds : rounds[i].sized =>
            LET size(s) == workload.write[s] * rounds[i].events
                merged == {s \in Steps : 4 * size(s) < 3 * TargetMerged}
                job == Min({size(s) : s \in IF merged = {} THEN Steps ELSE merged})
            IN  \/ rounds[i].group \in {1, MaxJobsPerWU}
                \/ /\ 2 * (rounds[i].group * job - TargetMerged) <= job
                   /\ 2 * (TargetMerged - rounds[i].group * job) <= job

===============================================================================
