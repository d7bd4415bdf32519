----------------------------- MODULE ProcJobProofs -----------------------------
(***************************************************************************)
(* Proofs about ProcJob: a processing job that succeeds has staged out all *)
(* its events, if its first step has no output dataset; and the watchdog   *)
(* kills no job that used CPU within its window, if it reads a cgroup.     *)
(***************************************************************************)
EXTENDS ProcJob, TLAPS

-------------------------------------------------------------------------------
(* The instances of a parallel first step generate every event of the job.     *)

\* Euclidean division.
LEMMA Division ==
    ASSUME NEW a \in Nat, NEW q \in Nat, q > 0
    PROVE  /\ a \div q \in Nat /\ a % q \in Nat
           /\ q * (a \div q) <= a /\ a < q * (a \div q) + q
           /\ a = (q * (a \div q)) + (a % q)
OBVIOUS

\* The order of the multiples of a number is that of the factors.
LEMMA Factors ==
    ASSUME NEW k \in Nat, NEW m \in Nat, NEW q \in Nat, q * k < q * m PROVE k < m
OBVIOUS

\* An event belongs to the instance whose share it falls in; those beyond the
\* shares of the others, the remainder too, to the last.
LEMMA EveryEventGenerated ==
    ASSUME ProcAssumption, nParallel \in 1..MaxParallel, NEW e \in Events
    PROVE  \E i \in 1..nParallel : e \in Generated(i)
<1>. DEFINE q == EventsPerJob \div nParallel
            r == EventsPerJob % nParallel
<1>0. nParallel \in Nat /\ nParallel > 0 /\ EventsPerJob \in Nat /\ e \in Nat /\ e > 0 /\ e <= EventsPerJob
  BY DEF ProcAssumption, Events
<1>1. q \in Nat /\ r \in Nat /\ EventsPerJob = nParallel * q + r
  BY <1>0, Division
<1>2. CASE ~Parallel
  BY <1>0, <1>2 DEF Generated
<1>3. CASE Parallel /\ e > (nParallel - 1) * q
  <2>1. InstanceEvents(nParallel) = q + r
    BY DEF InstanceEvents
  <2>. DEFINE first == 1 + (nParallel - 1) * q
  <2>2. first <= e /\ e <= first + (q + r) - 1
    <3>1. nParallel * q = (nParallel - 1) * q + q
      BY <1>0, <1>1
    <3>. HIDE DEF q, r
    <3>2. (nParallel - 1) * q \in Nat
      BY <1>0, <1>1
    <3>. QED
      BY <1>0, <1>1, <1>3, <3>1, <3>2
  <2>3. Generated(nParallel) = first .. (first + (q + r) - 1)
    BY <1>3, <2>1 DEF Generated
  <2>4. first \in Int /\ first + (q + r) - 1 \in Int
    BY <1>0, <1>1
  <2>5. e \in Generated(nParallel)
    BY <1>0, <2>2, <2>3, <2>4
  <2>. QED
    BY <1>0, <2>5
<1>4. CASE Parallel /\ ~(e > (nParallel - 1) * q)
  <2>. DEFINE k == (e - 1) \div q
              i == k + 1
              first == 1 + (i - 1) * q
  <2>1. q > 0
    BY <1>0, <1>1, <1>4
  <2>2. k \in Nat /\ q * k <= e - 1 /\ e - 1 < q * k + q
    <3>1. e - 1 \in Nat
      BY <1>0
    <3>. HIDE DEF q
    <3>. QED
      BY <1>1, <2>1, <3>1, Division
  <2>3. k < nParallel - 1
    <3>. HIDE DEF q, k
    <3>1. nParallel - 1 \in Nat /\ q * k \in Nat /\ q * (nParallel - 1) = (nParallel - 1) * q
          /\ (nParallel - 1) * q \in Nat
      BY <1>0, <1>1, <2>2
    <3>2. q * k < q * (nParallel - 1)
      BY <1>0, <1>4, <2>2, <3>1
    <3>. QED
      BY <1>1, <2>2, <3>1, <3>2, Factors
  <2>4. i \in 1..nParallel /\ i # nParallel /\ i - 1 = k
    BY <1>0, <2>2, <2>3
  <2>5. InstanceEvents(i) = q
    BY <1>1, <2>4 DEF InstanceEvents
  <2>6. Generated(i) = first .. (first + q - 1)
    BY <1>4, <2>5 DEF Generated
  <2>7. first \in Nat /\ first <= e /\ e <= first + q - 1
    <3>. HIDE DEF q, k
    <3>1. k * q = q * k /\ q * k \in Nat
      BY <1>1, <2>2
    <3>. QED
      BY <1>0, <1>1, <2>2, <2>4, <3>1
  <2>8. e \in Generated(i)
    BY <1>0, <1>1, <2>6, <2>7
  <2>. QED
    BY <2>4, <2>8
<1>. QED
  BY <1>2, <1>3, <1>4

-------------------------------------------------------------------------------
(* What the wrapper holds on its way to exit code 0.                           *)

\* The manifest, and the directories the outputs are written to.
Shape ==
    /\ mode \in Modes /\ nParallel \in 1..MaxParallel /\ passed \subseteq Events
    /\ step \in Steps /\ (mode # "cmssw" => step = NumSteps)
    /\ workDir \in [Steps -> SUBSET Events] /\ staged \in [Steps -> SUBSET Events]

\* The processes are those that the running step started.
Forked ==
    phase = "steps" =>
        /\ mode # "other"
        /\ procs \in [DOMAIN Started(step) -> {"running", "ok", "bad"}]

\* The files of the step before, as long as none is missing, hold what passed;
\* and no process reads them to its end when one is.
Passed ==
    phase = "steps" /\ mode = "cmssw" /\ step > 1 =>
        /\ ~InputMissing => UNION {f.events : f \in input} = passed
        /\ (\E i \in DOMAIN procs : procs[i] = "ok") => ~InputMissing

\* The outputs of the steps that are over, but for the first.
Whole(last) == \A s \in 2..last : workDir[s] = IF mode = "cmssw" THEN passed ELSE Events

Gathered ==
    /\ phase = "steps" /\ mode = "cmssw" => Whole(step - 1)
    /\ phase = "staging" /\ mode # "synthetic" => Whole(NumSteps)

IInv == Shape /\ Forked /\ Passed /\ Gathered /\ WholeOutput

\* A step starts one process at least, a later step just one.
LEMMA StartedProcesses ==
    ASSUME ProcAssumption, nParallel \in 1..MaxParallel, NEW s \in Steps
    PROVE  /\ 1 \in DOMAIN Started(s)
           /\ DOMAIN Started(s) = 1..(IF mode = "cmssw" /\ s = 1 THEN nParallel ELSE 1)
           /\ Started(s) \in [DOMAIN Started(s) -> {"running", "ok", "bad"}]
           /\ \A i \in DOMAIN Started(s) : Started(s)[i] = "running"
BY DEF Started, ProcAssumption

\* The wrapper starts with a step and nothing behind it.
LEMMA InitInv == Init => IInv
<1>. SUFFICES ASSUME Init PROVE IInv
  OBVIOUS
<1>1. Shape
  BY ProcAssumption DEF Init, Shape, Steps, NoOutput, ProcAssumption
<1>2. Forked
  BY <1>1, ProcAssumption, StartedProcesses DEF Init, Shape, Forked
<1>3. Passed
  BY DEF Init, Passed
<1>4. Gathered
  BY <1>1, ProcAssumption DEF Init, Gathered, Whole, Shape, Steps, ProcAssumption
<1>5. WholeOutput
  BY DEF Init, WholeOutput
<1>. QED
  BY <1>1, <1>2, <1>3, <1>4, <1>5 DEF IInv

\* The watchdog kills, or does not; it moves no file.
LEMMA WatchdogInv == IInv /\ (WatchdogSamples \/ Tick) => IInv'
<1>. SUFFICES ASSUME IInv, WatchdogSamples \/ Tick PROVE IInv'
  OBVIOUS
<1>1. /\ UNCHANGED <<manifest, step, input, workDir, staged>>
      /\ phase' = "killed" \/ UNCHANGED <<phase, procs>>
  BY DEF WatchdogSamples, Tick
<1>2. Shape'
  BY <1>1 DEF IInv, Shape, manifest
<1>3. Forked'
  BY <1>1 DEF IInv, Forked, Started, manifest
<1>4. Passed'
  BY <1>1 DEF IInv, Passed, InputMissing, manifest
<1>5. Gathered'
  BY <1>1 DEF IInv, Gathered, Whole, manifest
<1>6. WholeOutput'
  BY <1>1 DEF IInv, WholeOutput, manifest
<1>. QED
  BY <1>2, <1>3, <1>4, <1>5, <1>6 DEF IInv

\* A process that succeeds has found all its input.
LEMMA CmsRunInv ==
    ASSUME IInv, NEW i \in DOMAIN procs, CmsRunSucceeds(i) \/ CmsRunFails(i) PROVE IInv'
<1>. DEFINE result == IF CmsRunSucceeds(i) THEN "ok" ELSE "bad"
<1>1. /\ phase = "steps" /\ procs' = [procs EXCEPT ![i] = result]
      /\ UNCHANGED <<manifest, phase, step, input, workDir, staged>>
      /\ result = "ok" => ~InputMissing
      /\ result \in {"running", "ok", "bad"}
  <2>1. CASE CmsRunSucceeds(i)
    BY <2>1 DEF CmsRunSucceeds, CmsRunEnds
  <2>2. CASE ~CmsRunSucceeds(i)
    BY <2>2 DEF CmsRunFails, CmsRunEnds
  <2>. QED
    BY <2>1, <2>2
<1>. HIDE DEF result
<1>2. Shape'
  BY <1>1 DEF IInv, Shape, manifest
<1>3. Forked'
  BY <1>1 DEF IInv, Forked, Started, manifest
<1>4. Passed'
  <2>1. (\E k \in DOMAIN procs : procs'[k] = "ok") => ~InputMissing \/ (\E k \in DOMAIN procs : procs[k] = "ok")
    BY <1>1
  <2>2. DOMAIN procs' = DOMAIN procs
    BY <1>1
  <2>. QED
    BY <1>1, <2>1, <2>2 DEF IInv, Passed, InputMissing, manifest
<1>5. Gathered'
  BY <1>1 DEF IInv, Gathered, Whole, manifest
<1>6. WholeOutput'
  BY <1>1 DEF IInv, WholeOutput, manifest
<1>. QED
  BY <1>2, <1>3, <1>4, <1>5, <1>6 DEF IInv

\* When a step succeeds, every process of it did; the files of a later step are
\* all there and hold what passed, and none of them is lost.
LEMMA StepOutput ==
    ASSUME IInv, StepSucceeds, mode = "cmssw", ~(step = 1)
    PROVE  /\ \A i \in DOMAIN procs : Written(i) = passed
           /\ DOMAIN procs = {1}
           /\ workDir' = [workDir EXCEPT ![step] = passed]
           /\ input' = Collected({})
<1>1. step \in Steps /\ step > 1 /\ phase = "steps" /\ 1..1 = {1}
  BY DEF IInv, Shape, Steps, StepSucceeds, StepOver
<1>2. DOMAIN procs = {1} /\ procs \in [{1} -> {"running", "ok", "bad"}]
  BY <1>1, ProcAssumption, StartedProcesses DEF IInv, Forked, Shape
<1>3. procs[1] = "ok"
  BY <1>2 DEF StepSucceeds, StepOver, Running, AnyFailed
<1>4. UNION {f.events : f \in input} = passed
  BY <1>1, <1>2, <1>3 DEF IInv, Passed
<1>5. Written(1) = passed /\ \A i \in DOMAIN procs : Written(i) = passed
  BY <1>4 DEF Written
<1>6. ~Copied /\ ~Parallel
  BY DEF Copied, Parallel
<1>7. workDir' = InWorkDir({}) /\ input' = Collected({})
  BY <1>6 DEF StepSucceeds
<1>8. InWorkDir({}) = [workDir EXCEPT ![step] = passed]
  BY <1>5, <1>6 DEF InWorkDir
<1>. QED
  BY <1>2, <1>5, <1>7, <1>8

\* The files of a step that succeeds, when none is lost, hold what passed.
LEMMA CollectedPassed ==
    ASSUME IInv, StepSucceeds, mode = "cmssw", NEW lost \in SUBSET DOMAIN procs,
           \A f \in Collected(lost) : f.there
    PROVE  UNION {f.events : f \in Collected(lost)} = passed
<1>1. UNION {f.events : f \in Collected(lost)} = UNION {Written(i) : i \in DOMAIN procs}
  <2>. DEFINE file(i) == [events |-> Written(i), there |-> i \notin lost]
  <2>1. Collected(lost) = {file(i) : i \in DOMAIN procs}
    BY DEF Collected
  <2>2. \A i : file(i).events = Written(i)
    OBVIOUS
  <2>. HIDE DEF file
  <2>3. {f.events : f \in Collected(lost)} = {Written(i) : i \in DOMAIN procs}
    BY <2>1, <2>2
  <2>. QED
    BY <2>3
<1>2. CASE step = 1
  <2>1. DOMAIN procs = 1..nParallel
    BY <1>2, ProcAssumption, StartedProcesses DEF IInv, Forked, Shape, StepSucceeds, StepOver
  <2>2. \A i \in DOMAIN procs : Written(i) = Generated(i) \cap passed
    BY <1>2 DEF Written
  <2>3. \A e \in passed : \E i \in DOMAIN procs : e \in Generated(i)
    BY <2>1, ProcAssumption, EveryEventGenerated DEF IInv, Shape
  <2>. QED
    BY <1>1, <2>2, <2>3
<1>3. CASE step # 1
  <2>1. \A i \in DOMAIN procs : Written(i) = passed
    BY <1>3, StepOutput
  <2>2. DOMAIN procs = {1}
    BY <1>3, StepOutput
  <2>. QED
    BY <1>1, <2>1, <2>2
<1>. QED
  BY <1>2, <1>3

\* The directory of the job after a step.
LEMMA WrittenType ==
    ASSUME IInv, StepSucceeds PROVE workDir' \in [Steps -> SUBSET Events]
<1>1. PICK lost \in SUBSET DOMAIN procs : workDir' = InWorkDir(lost)
  BY DEF StepSucceeds
<1>2. CASE mode = "cmssw" /\ step = 1
  BY <1>1, <1>2 DEF InWorkDir, IInv, Shape, Written
<1>3. CASE mode = "cmssw" /\ step # 1
  BY <1>3, StepOutput DEF IInv, Shape
<1>4. CASE mode # "cmssw"
  BY <1>1, <1>4 DEF InWorkDir, SimulatorOutput, SyntheticOutput
<1>. QED
  BY <1>2, <1>3, <1>4

\* A step that succeeds leaves its files to the next, or to be staged out.
LEMMA StepSucceedsInv == IInv /\ StepSucceeds => IInv'
<1>. SUFFICES ASSUME IInv, StepSucceeds PROVE IInv'
  OBVIOUS
<1>1. /\ UNCHANGED <<manifest, staged>>
      /\ step \in Steps /\ step \in Nat /\ NumSteps \in Nat /\ NumSteps > 0 /\ phase = "steps" /\ mode # "other"
      /\ mode \in Modes /\ Modes \subseteq {"cmssw", "simulator", "synthetic", "other"}
      /\ nParallel \in 1..MaxParallel
  BY ProcAssumption DEF ProcAssumption, IInv, Shape, Forked, Steps, StepSucceeds, StepOver
<1>2. CASE mode = "cmssw" /\ step < NumSteps
  <2>1. phase' = phase /\ step' = step + 1 /\ procs' = Started(step + 1) /\ step + 1 \in Steps
    BY <1>1, <1>2 DEF StepSucceeds, Steps
  <2>2. Shape'
    BY <1>1, <1>2, <2>1, WrittenType DEF IInv, Shape, manifest
  <2>3. Forked'
    <3>1. Started(step)' = Started(step + 1)
      BY <1>1, <2>1 DEF Started, manifest
    <3>. QED
      BY <1>1, <2>1, <3>1, ProcAssumption, StartedProcesses DEF Forked, manifest
  <2>4. Passed'
    <3>1. ~(\E i \in DOMAIN procs' : procs'[i] = "ok")
      BY <1>1, <2>1, ProcAssumption, StartedProcesses
    <3>2. PICK lost \in SUBSET DOMAIN procs : input' = Collected(lost)
      BY DEF StepSucceeds
    <3>3. ~InputMissing' => UNION {f.events : f \in input'} = passed
      <4>1. SUFFICES ASSUME ~InputMissing' PROVE UNION {f.events : f \in Collected(lost)} = passed
        BY <3>2
      <4>2. \A f \in Collected(lost) : f.there
        BY <3>2, <4>1 DEF InputMissing
      <4>. QED
        BY <1>2, <4>2, CollectedPassed
    <3>. QED
      BY <1>1, <3>1, <3>3 DEF Passed, manifest
  <2>5. Gathered'
    <3>1. \A s \in 2..step : workDir'[s] = passed
      <4>1. CASE step = 1
        BY <4>1
      <4>2. CASE step # 1
        <5>1. workDir' = [workDir EXCEPT ![step] = passed] /\ workDir \in [Steps -> SUBSET Events]
          BY <1>2, <4>2, StepOutput DEF IInv, Shape
        <5>2. \A s \in 2..(step - 1) : workDir[s] = passed
          BY <1>1, <1>2 DEF IInv, Gathered, Whole
        <5>. QED
          BY <1>1, <5>1, <5>2 DEF Steps
      <4>. QED
        BY <4>1, <4>2
    <3>. QED
      BY <1>1, <2>1, <3>1 DEF Gathered, Whole, manifest
  <2>6. WholeOutput'
    BY <1>1, <2>1 DEF WholeOutput
  <2>. QED
    BY <2>2, <2>3, <2>4, <2>5, <2>6 DEF IInv
<1>3. CASE ~(mode = "cmssw" /\ step < NumSteps)
  <2>1. step = NumSteps /\ step' = step /\ phase' = "staging"
    BY <1>1, <1>3 DEF StepSucceeds, IInv, Shape, Steps
  <2>2. Shape'
    BY <1>1, <2>1, WrittenType DEF IInv, Shape, manifest
  <2>3. Gathered'
    <3>1. ASSUME mode # "synthetic", NEW s \in 2..NumSteps
          PROVE  workDir'[s] = IF mode = "cmssw" THEN passed ELSE Events
      <4>1. CASE mode = "cmssw"
        <5>1. step # 1 /\ s \in Steps
          BY <1>1, <2>1, <3>1 DEF Steps
        <5>2. workDir' = [workDir EXCEPT ![step] = passed] /\ workDir \in [Steps -> SUBSET Events]
          BY <4>1, <5>1, StepOutput DEF IInv, Shape
        <5>3. \A t \in 2..(step - 1) : workDir[t] = passed
          BY <1>1, <4>1 DEF IInv, Gathered, Whole
        <5>. QED
          BY <1>1, <2>1, <4>1, <5>1, <5>2, <5>3
      <4>2. CASE mode = "simulator"
        <5>1. s \in Steps
          BY <1>1 DEF Steps
        <5>. QED
          BY <4>2, <5>1 DEF StepSucceeds, InWorkDir, SimulatorOutput
      <4>. QED
        BY <1>1, <3>1, <4>1, <4>2
    <3>. QED
      BY <1>1, <2>1, <3>1 DEF Gathered, Whole, manifest
  <2>4. Forked' /\ Passed' /\ WholeOutput'
    BY <2>1 DEF Forked, Passed, WholeOutput
  <2>. QED
    BY <2>2, <2>3, <2>4 DEF IInv
<1>. QED
  BY <1>2, <1>3

\* What is staged out is what the steps left.
LEMMA StageOutInv ==
    ASSUME 1 \notin Kept, IInv, StageOut \/ StageOutFails PROVE IInv'
<1>1. /\ UNCHANGED <<manifest, step, procs, input, workDir>>
      /\ phase = "staging" /\ phase' \in {"done", "failed"}
      /\ phase' = "done" => staged' = [s \in Steps |-> IF s \in Kept THEN workDir[s] ELSE {}]
  BY DEF StageOut, StageOutFails
<1>2. Shape'
  <2>1. staged' \in [Steps -> SUBSET Events]
    BY DEF StageOut, StageOutFails, IInv, Shape
  <2>. QED
    BY <1>1, <2>1 DEF IInv, Shape, manifest
<1>3. Forked' /\ Passed' /\ Gathered'
  BY <1>1 DEF Forked, Passed, Gathered
<1>4. WholeOutput'
  <2>1. \A s \in Kept : s \in 2..NumSteps /\ s \in Steps
    BY ProcAssumption DEF ProcAssumption, Steps
  <2>. QED
    BY <1>1, <2>1 DEF IInv, Gathered, Whole, WholeOutput, manifest
<1>. QED
  BY <1>2, <1>3, <1>4 DEF IInv

\* A wrapper that fails is not done.
LEMMA StepFailsInv == IInv /\ StepFails => IInv'
<1>. SUFFICES ASSUME IInv, StepFails PROVE IInv'
  OBVIOUS
<1>1. UNCHANGED <<manifest, step, workDir, staged>> /\ phase' = "failed"
  BY DEF StepFails
<1>. QED
  BY <1>1 DEF IInv, Shape, Forked, Passed, Gathered, WholeOutput, manifest

\* Exit code 0 hides no missing event, whatever fails on the way: for a job
\* whose first step has no output dataset, WholeOutput holds in every state.
THEOREM OutputIsWhole ==
    ASSUME 1 \notin Kept PROVE Spec => []WholeOutput
<1>1. Init => IInv
  BY InitInv
<1>2. IInv /\ [Next]_vars => IInv'
  <2>. SUFFICES ASSUME IInv, [Next]_vars PROVE IInv'
    OBVIOUS
  <2>1. CASE Tick \/ WatchdogSamples
    BY <2>1, WatchdogInv
  <2>2. CASE \E i \in DOMAIN procs : CmsRunSucceeds(i) \/ CmsRunFails(i)
    BY <2>2, CmsRunInv
  <2>3. CASE StepFails
    BY <2>3, StepFailsInv
  <2>4. CASE StepSucceeds
    BY <2>4, StepSucceedsInv
  <2>5. CASE StageOut \/ StageOutFails
    BY <2>5, StageOutInv
  <2>6. CASE UNCHANGED vars
    BY <2>6 DEF vars, manifest, IInv, Shape, Forked, Started, Passed, InputMissing, Gathered,
       Whole, WholeOutput
  <2>. QED
    BY <2>1, <2>2, <2>3, <2>4, <2>5, <2>6 DEF Next
<1>3. IInv => WholeOutput
  BY DEF IInv
<1>. QED
  BY <1>1, <1>2, <1>3, PTL DEF Spec

-------------------------------------------------------------------------------
(* The watchdog that reads a cgroup kills only a job that uses no CPU.         *)

Sample == [at : Nat, cpu : Nat]

\* What a sample says: the job has used no less CPU since, and when it has used
\* no more it has been idle since.
Witnessed(sample) ==
    /\ sample.at <= time /\ sample.cpu <= spent
    /\ spent = sample.cpu => time <= idle + sample.at

StallInv ==
    /\ time \in Nat /\ spent \in Nat /\ idle \in Nat /\ samples \in Seq(Sample)
    /\ \A k \in DOMAIN samples : Witnessed(samples[k])
    /\ KilledOnlyWhenStalled

\* A sample, be it of an interval with use of CPU or without, holds on its word.
LEMMA TickStalls == ASSUME StallInv, Tick PROVE StallInv'
<1>1. /\ time' = time + 1 /\ UNCHANGED <<samples, phase>> /\ phase # "killed"
      /\ \/ spent' = spent + 1 /\ idle' = 0
         \/ idle' = idle + 1 /\ spent' = spent
  BY DEF Tick
<1>2. time' \in Nat /\ spent' \in Nat /\ idle' \in Nat /\ samples' \in Seq(Sample)
  BY <1>1 DEF StallInv
<1>3. ASSUME NEW k \in DOMAIN samples' PROVE Witnessed(samples[k])'
  <2>1. samples'[k] = samples[k] /\ samples[k] \in Sample /\ Witnessed(samples[k])
    BY <1>1, <1>3 DEF StallInv
  <2>. QED
    BY <1>1, <2>1 DEF StallInv, Witnessed, Sample
<1>. QED
  BY <1>1, <1>2, <1>3 DEF StallInv, KilledOnlyWhenStalled

\* When the watchdog kills, the first sample of its window shows the CPU time of
\* now: the job has been idle since, for the window less one interval.
LEMMA SampleStalls ==
    ASSUME Accounting = "cgroup", ProcAssumption, StallInv, WatchdogSamples PROVE StallInv'
<1>. DEFINE sample == [at |-> time, cpu |-> spent]
            now == Append(samples, sample)
            age == time - now[1].at
<1>1. /\ phase = "steps" /\ UNCHANGED <<time, spent, idle>>
      /\ time \in Nat /\ spent \in Nat /\ idle \in Nat /\ samples \in Seq(Sample)
  BY DEF WatchdogSamples, SampleDue, StallInv
<1>2. /\ samples' = <<>> \/ samples' = now
      /\ phase' = "killed" => EnoughHistory(age) /\ spent < now[1].cpu + 1
  BY <1>1 DEF WatchdogSamples, CpuSeconds
<1>3. sample \in Sample /\ now \in Seq(Sample) /\ <<>> \in Seq(Sample) /\ 1 \in DOMAIN now
  BY <1>1 DEF Sample
<1>4. ASSUME NEW k \in DOMAIN now PROVE now[k] \in Sample /\ Witnessed(now[k])
  <2>1. CASE k \in DOMAIN samples
    BY <1>1, <2>1 DEF StallInv
  <2>2. CASE k = Len(samples) + 1
    BY <1>1, <1>3, <2>2 DEF Witnessed
  <2>. QED
    BY <1>1, <1>4, <2>1, <2>2
<1>5. samples' \in Seq(Sample)
  BY <1>2, <1>3
<1>6. \A k \in DOMAIN samples' : Witnessed(samples[k])'
  BY <1>1, <1>2, <1>4 DEF Witnessed
<1>7. KilledOnlyWhenStalled'
  <2>. SUFFICES ASSUME phase' = "killed" PROVE idle >= Window - 1
    BY <1>1 DEF KilledOnlyWhenStalled
  <2>1. now[1] \in Sample /\ Witnessed(now[1])
    BY <1>3, <1>4
  <2>2. time - now[1].at >= Window - 1 /\ spent < now[1].cpu + 1
    BY <1>2 DEF EnoughHistory
  <2>3. now[1].at \in Nat /\ now[1].cpu \in Nat
    BY <2>1 DEF Sample
  <2>4. now[1].cpu <= spent /\ (spent = now[1].cpu => time <= idle + now[1].at)
    BY <2>1 DEF Witnessed
  <2>. HIDE DEF now
  <2>. QED
    BY <1>1, <2>2, <2>3, <2>4 DEF ProcAssumption
<1>. QED
  BY <1>1, <1>5, <1>6, <1>7 DEF StallInv

\* The watchdog of a job with a cgroup spares every job that used CPU within its
\* window less one interval: KilledOnlyWhenStalled holds in every state, for any
\* window, grace period, number of steps and of processes.
THEOREM KilledStalled ==
    ASSUME Accounting = "cgroup" PROVE Spec => []KilledOnlyWhenStalled
<1>1. Init => StallInv
  BY DEF Init, StallInv, KilledOnlyWhenStalled
<1>2. StallInv /\ [Next]_vars => StallInv'
  <2>. SUFFICES ASSUME StallInv, [Next]_vars PROVE StallInv'
    OBVIOUS
  <2>1. CASE Tick
    BY <2>1, TickStalls
  <2>2. CASE WatchdogSamples
    BY <2>2, ProcAssumption, SampleStalls
  <2>3. CASE \/ \E i \in DOMAIN procs : CmsRunSucceeds(i) \/ CmsRunFails(i)
             \/ StepFails \/ StepSucceeds \/ StageOut \/ StageOutFails
    <3>1. phase' # "killed" /\ UNCHANGED <<time, spent, idle, samples>>
      BY <2>3 DEF CmsRunSucceeds, CmsRunFails, CmsRunEnds, StepFails, StepSucceeds, StepOver, StageOut,
         StageOutFails
    <3>. QED
      BY <3>1 DEF StallInv, Witnessed, KilledOnlyWhenStalled
  <2>4. CASE UNCHANGED vars
    BY <2>4 DEF vars, StallInv, Witnessed, KilledOnlyWhenStalled
  <2>. QED
    BY <2>1, <2>2, <2>3, <2>4 DEF Next
<1>3. StallInv => KilledOnlyWhenStalled
  BY DEF StallInv
<1>. QED
  BY <1>1, <1>2, <1>3, PTL DEF Spec

===============================================================================
