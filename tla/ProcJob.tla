-------------------------------- MODULE ProcJob --------------------------------
(***************************************************************************)
(* One attempt of a processing job: condora_proc.sh, the wrapper that      *)
(* core/dag_planner.py generates (_write_proc_script), with the processes  *)
(* it starts: the instances of a parallel first step and the CPU watchdog. *)
(*                                                                         *)
(* Time advances in check intervals of the watchdog, and the CPU time used *)
(* in one is 0 or at least the stall threshold.  An event of the job is a  *)
(* number; the output of a step is the set of events it holds.             *)
(***************************************************************************)
EXTENDS Naturals, Sequences, FiniteSets, SequencesExt, FiniteSetsExt

CONSTANTS
    Modes,        \* modes of the sandbox's manifest that are tried
    NumSteps,
    MaxParallel,  \* bound: n_parallel of the first step
    EventsPerJob,
    Kept,         \* the steps whose output is an output dataset
    Grace,        \* watchdog_grace_period_sec, in check intervals
    Window,       \* watchdog_stall_window_sec, in check intervals
    Accounting,   \* "cgroup", or "ps" where no cgroup file can be read
    MaxTicks,     \* bound: check intervals
    MaxFaults     \* bound: instances, copies and uploads that fail

ASSUME ProcAssumption ==
    /\ Modes \subseteq {"cmssw", "simulator", "synthetic", "other"}
    /\ NumSteps \in Nat \ {0} /\ MaxParallel \in Nat \ {0} /\ EventsPerJob \in Nat
    /\ Kept \subseteq 1..NumSteps /\ Kept # {} /\ Window \in Nat \ {0} /\ Grace \in Nat
    /\ Accounting \in {"cgroup", "ps"} /\ MaxTicks \in Nat /\ MaxFaults \in Nat

VARIABLES
    mode, nParallel, splitTmpfs, \* the manifest
    passed,    \* the events the generator filter lets pass
    phase,     \* where the wrapper is
    step,      \* the step that runs
    procs,     \* the cmsRun processes of the step
    cpu,       \* the CPU time of each
    spent,     \* the CPU time of the job so far, ended processes included
    time,
    watchdog,  \* the background process
    samples,   \* cpu_history and time_history
    input,     \* PREV_OUTPUT: the files of the step before, those missing too
    workDir,   \* the outputs in the directory of the job, by step
    staged,    \* the outputs in the unmerged area
    idle,      \* check intervals since the last use of CPU
    faults

manifest == <<mode, nParallel, splitTmpfs, passed>>
vars == <<manifest, phase, step, procs, cpu, spent, time, watchdog, samples, input, workDir,
          staged, idle, faults>>

Steps == 1..NumSteps
Events == 1..EventsPerJob
Parallel == mode = "cmssw" /\ step = 1 /\ nParallel > 1
NoOutput == [s \in Steps |-> {}]

\* A file of the step before: the events in it, and whether it is there.
InputFile == [events : SUBSET Events, there : BOOLEAN]

TypeOK ==
    /\ mode \in Modes /\ nParallel \in 1..MaxParallel /\ splitTmpfs \in BOOLEAN
    /\ passed \subseteq Events
    /\ phase \in {"steps", "staging", "done", "failed", "killed"} /\ step \in Steps
    /\ \E n \in 1..nParallel : /\ procs \in [1..n -> {"running", "ok", "bad"}]
                               /\ cpu \in [1..n -> 0..MaxTicks]
    /\ spent \in 0..MaxTicks /\ time \in 0..MaxTicks /\ idle \in 0..MaxTicks
    /\ watchdog \in {"none", "watching", "dead", "stopped"}
    /\ Len(samples) <= Window + 1
    /\ \A k \in DOMAIN samples : samples[k] \in [at : 0..MaxTicks, cpu : 0..MaxTicks]
    /\ input \subseteq InputFile
    /\ workDir \in [Steps -> SUBSET Events] /\ staged \in [Steps -> SUBSET Events]
    /\ faults \in 0..MaxFaults

Fault == faults < MaxFaults /\ faults' = faults + 1

\* The processes of a step: run_step0_parallel forks n_parallel of them.
Started(s) == [i \in 1..(IF mode = "cmssw" /\ s = 1 THEN nParallel ELSE 1) |-> "running"]
NoCpu(s) == [i \in DOMAIN Started(s) |-> 0]

\* The arguments, the manifest and the dispatch on its mode.  Only CMSSW mode
\* starts the watchdog.
Init ==
    /\ mode \in Modes /\ nParallel \in 1..MaxParallel /\ splitTmpfs \in BOOLEAN
    /\ passed \in SUBSET Events
    /\ phase = (IF mode = "other" THEN "failed" ELSE "steps")
    /\ step = (IF mode = "cmssw" THEN 1 ELSE NumSteps)
    /\ procs = Started(step) /\ cpu = NoCpu(step) /\ spent = 0
    /\ time = 0 /\ watchdog = (IF mode = "cmssw" THEN "watching" ELSE "none") /\ samples = <<>>
    /\ input = {} /\ workDir = NoOutput /\ staged = NoOutput
    /\ idle = 0 /\ faults = 0

-------------------------------------------------------------------------------
(* The CPU watchdog. *)

Running == {i \in DOMAIN procs : procs[i] = "running"}

\* _watchdog_read_cpu: a cgroup counts every process there was, ps those alive.
CpuSeconds ==
    IF Accounting = "cgroup" THEN spent ELSE MapThenSumSet(LAMBDA i : cpu[i], Running)

\* The watchdog samples at the end of the grace period and after each interval.
SampleDue ==
    /\ phase = "steps" /\ watchdog = "watching" /\ time >= Grace
    /\ samples # <<>> => Last(samples).at < time

\* A sample is outside the window when it is older; one that is as old as the
\* window may be, by the second the intervals got longer.
Outside(age, late) == age > Window \/ (age = Window /\ late)

\* mutant
AnyHistory(age) == TRUE

\* "approximately one window"
EnoughHistory(age) == age >= Window - 1

\* The wrapper runs under set -e.  The first ((oldest_idx++)) has the value 0,
\* so its status is 1 and the watchdog ends: it never moves its window.
\* Otherwise kill 0 ends the wrapper and all its processes.
WatchdogSamples ==
    /\ SampleDue
    /\ \E late \in BOOLEAN :
          LET now == Append(samples, [at |-> time, cpu |-> CpuSeconds])
              age == time - now[1].at
              stalled == CpuSeconds < now[1].cpu + 1
          IN  \/ /\ Len(now) > 1 /\ Outside(age, late)
                 /\ watchdog' = "dead" /\ samples' = <<>> /\ UNCHANGED <<phase, procs>>
              \/ /\ ~(Len(now) > 1 /\ Outside(age, late))
                 /\ IF EnoughHistory(age) /\ stalled
                    THEN /\ phase' = "killed" /\ procs' = [i \in DOMAIN procs |-> "bad"]
                         /\ watchdog' = "stopped"
                    ELSE UNCHANGED <<phase, procs, watchdog>>
                 /\ samples' = now
    /\ UNCHANGED <<manifest, step, cpu, spent, time, input, workDir, staged, idle, faults>>

\* A check interval passes, in which one of the processes may use CPU.
Tick ==
    /\ phase = "steps" /\ Running # {} /\ ~SampleDue /\ time < MaxTicks
    /\ time' = time + 1
    /\ \/ /\ \E i \in Running : cpu' = [cpu EXCEPT ![i] = @ + 1]
          /\ spent' = spent + 1 /\ idle' = 0
       \/ idle' = idle + 1 /\ UNCHANGED <<cpu, spent>>
    /\ UNCHANGED <<manifest, phase, step, procs, watchdog, samples, input, workDir, staged,
                   faults>>

-------------------------------------------------------------------------------
(* The steps. *)

\* mutant: the last instance gets as many events as the others.
EvenShare(i) == EventsPerJob \div nParallel

\* events_per_inst; the last instance also gets the remainder.
InstanceEvents(i) ==
    (EventsPerJob \div nParallel) + (IF i = nParallel THEN EventsPerJob % nParallel ELSE 0)

\* The events an instance of the first step generates, from its firstEvent on.
Generated(i) ==
    LET first == 1 + (i - 1) * (EventsPerJob \div nParallel)
    IN  IF Parallel THEN first .. (first + InstanceEvents(i) - 1) ELSE Events

\* What a cmsRun process writes: the first step what passes the filter, a later
\* one everything in its input files (maxEvents -1).
Written(i) == IF step = 1 THEN Generated(i) \cap passed ELSE UNION {f.events : f \in input}

\* The simulator is one process for all steps, and filters nothing.
SimulatorOutput == [s \in Steps |-> Events]

\* Synthetic mode makes one file, for the first output dataset.
SyntheticOutput == [s \in Steps |-> IF s = Min(Kept) THEN Events ELSE {}]

\* cmsRun fails on an input file that is not there.
InputMissing == \E f \in input : ~f.there

CmsRunEnds(i, result) ==
    /\ phase = "steps" /\ procs[i] = "running"
    /\ procs' = [procs EXCEPT ![i] = result]
    /\ UNCHANGED <<manifest, phase, step, cpu, spent, time, watchdog, samples, input, workDir,
                   staged, idle>>

CmsRunSucceeds(i) == ~InputMissing /\ CmsRunEnds(i, "ok") /\ UNCHANGED faults
CmsRunFails(i) == CmsRunEnds(i, "bad") /\ IF InputMissing THEN UNCHANGED faults ELSE Fault

StepOver == phase = "steps" /\ Running = {}

\* The wrapper waits for every instance and fails when one did.
AnyFailed == \E i \in DOMAIN procs : procs[i] = "bad"

\* The 0-event safety net, which a parallel first step does not reach.
RejectedAll == mode = "cmssw" /\ step = 1 /\ ~Parallel /\ Written(1) = {}

StepFails ==
    /\ StepOver /\ (AnyFailed \/ RejectedAll)
    /\ phase' = "failed" /\ watchdog' = "stopped"
    /\ UNCHANGED <<manifest, step, procs, cpu, spent, time, samples, input, workDir, staged,
                   idle, faults>>

\* The ROOT files of a parallel first step are copied to the directories of the
\* instances, those of a first step on tmpfs to the directory of the job; a copy
\* that fails is not noticed.
Copied == Parallel \/ (mode = "cmssw" /\ step = 1 /\ splitTmpfs)

\* PREV_OUTPUT: a file of each instance, whether it was copied or lost.
Collected(lost) == {[events |-> Written(i), there |-> i \notin lost] : i \in DOMAIN procs}

\* The directory of the job after a step; the files of a parallel first step
\* stay in directories of their own.
InWorkDir(lost) ==
    CASE mode = "cmssw" -> [workDir EXCEPT ![step] = IF Parallel \/ lost # {} THEN {} ELSE Written(1)]
      [] mode = "simulator" -> SimulatorOutput
      [] OTHER -> SyntheticOutput

StepSucceeds ==
    /\ StepOver /\ ~AnyFailed /\ ~RejectedAll
    /\ \E lost \in SUBSET DOMAIN procs :
          /\ ~Copied => lost = {}
          /\ IF lost = {} THEN UNCHANGED faults
             ELSE faults + Cardinality(lost) <= MaxFaults /\ faults' = faults + Cardinality(lost)
          /\ input' = Collected(lost)
          /\ workDir' = InWorkDir(lost)
    /\ \/ /\ mode = "cmssw" /\ step < NumSteps
          /\ step' = step + 1 /\ procs' = Started(step + 1) /\ cpu' = NoCpu(step + 1)
          /\ UNCHANGED <<phase, watchdog>>
       \/ /\ mode # "cmssw" \/ step = NumSteps
          /\ phase' = "staging" /\ procs' = <<"ok">> /\ cpu' = <<0>>
          /\ watchdog' = (IF watchdog = "watching" THEN "stopped" ELSE watchdog)
          /\ UNCHANGED step
    /\ UNCHANGED <<manifest, spent, time, samples, staged, idle>>

-------------------------------------------------------------------------------
(* process_outputs: what is in the directory of the job is staged out. *)

StageOut ==
    /\ phase = "staging"
    /\ staged' = [s \in Steps |-> IF s \in Kept THEN workDir[s] ELSE {}]
    /\ phase' = "done"
    /\ UNCHANGED <<manifest, step, procs, cpu, spent, time, watchdog, samples, input, workDir,
                   idle, faults>>

\* An upload fails after some of the files.
StageOutFails ==
    /\ phase = "staging" /\ Fault
    /\ \E some \in SUBSET Kept : staged' = [s \in Steps |-> IF s \in some THEN workDir[s] ELSE {}]
    /\ phase' = "failed"
    /\ UNCHANGED <<manifest, step, procs, cpu, spent, time, watchdog, samples, input, workDir, idle>>

-------------------------------------------------------------------------------

Next ==
    \/ Tick \/ WatchdogSamples
    \/ \E i \in DOMAIN procs : CmsRunSucceeds(i) \/ CmsRunFails(i)
    \/ StepFails \/ StepSucceeds
    \/ StageOut \/ StageOutFails

Spec == Init /\ [][Next]_vars

-------------------------------------------------------------------------------
(* Properties. *)

\* A job that succeeds has staged out, for every output dataset, exactly the
\* events of its range that pass the filter (the simulator has none): whatever
\* instances, copies and uploads fail, none is missing behind exit code 0.
WholeOutput ==
    phase = "done" /\ mode # "synthetic" =>
        \A s \in Kept : staged[s] = IF mode = "cmssw" THEN passed ELSE Events

\* The watchdog kills no job that used CPU within the last window, less one
\* check interval.
KilledOnlyWhenStalled == phase = "killed" => idle >= Window - 1

\* A job whose CPU time does not advance in a window is killed after the grace
\* period (docs/spec.md:2716).
StallIsKilled == phase = "steps" /\ ~SampleDue => idle <= Grace + Window + 1

===============================================================================
