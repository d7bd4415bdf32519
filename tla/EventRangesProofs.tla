--------------------------- MODULE EventRangesProofs ---------------------------
(***************************************************************************)
(* Theorems about EventRanges for every value of its constants: the rounds *)
(* of a workflow do not overlap, its events are counted once, and when it  *)
(* is completed its work is done.                                          *)
(***************************************************************************)
EXTENDS EventRanges, FiniteSetTheorems, WellFoundedInduction, TLAPS

-------------------------------------------------------------------------------
(* Arithmetic. *)

\* The constants are natural numbers, most of them positive.
LEMMA ConstantTypes ==
    /\ RequestNumEvents \in Nat /\ RequestNumEvents > 0 /\ EventsPerJob \in Nat /\ EventsPerJob > 0
    /\ FirstRoundWUs \in Nat /\ FirstRoundWUs > 0 /\ WUsPerRound \in Nat /\ WUsPerRound > 0
    /\ JobsPerWU \in Nat /\ JobsPerWU > 0 /\ MaxWUsPerRound \in Nat /\ MaxWUsPerRound > 0
    /\ NumFiles \in Nat /\ NumFiles > 0 /\ EventsPerFile \in Nat /\ EventsPerFile > 0
    /\ PlannerFilesPerJob \in Nat /\ PlannerFilesPerJob > 0
    /\ SplitterFilesPerJob \in Nat /\ SplitterFilesPerJob > 0
    /\ PilotPercent \in 0..100 /\ TestPercent \in 0..100 /\ FilterPercent \in 1..100
    /\ MaxDags \in Nat /\ MaxFaults \in Nat
BY RangesAssumption

\* A product of natural numbers is one; it is positive if both factors are.
LEMMA Product ==
    ASSUME NEW a \in Nat, NEW b \in Nat
    PROVE  a * b \in Nat /\ (a > 0 /\ b > 0 => a * b > 0) /\ a * b = b * a
OBVIOUS

\* A product grows with its factors.
LEMMA ProductGrows ==
    ASSUME NEW a \in Nat, NEW b \in Nat, NEW c \in Nat, a <= b
    PROVE  a * c <= b * c
<1>1. b - a \in Nat /\ (b - a) * c \in Nat
  BY Product
<1>2. b * c = a * c + (b - a) * c
  OBVIOUS
<1>3. a * c \in Nat /\ b * c \in Nat
  BY Product
<1>. QED
  BY <1>1, <1>2, <1>3

\* Euclidean division.
LEMMA Division ==
    ASSUME NEW a \in Nat, NEW q \in Nat, q > 0
    PROVE  /\ a \div q \in Nat
           /\ (a \div q) * q <= a /\ a < (a \div q) * q + q
OBVIOUS

\* The least multiple that is no less than a number.
LEMMA CeilIsLeast ==
    ASSUME NEW n \in Nat, NEW d \in Nat, d > 0
    PROVE  /\ Ceil(n, d) \in Nat /\ n <= Ceil(n, d) * d
           /\ n > 0 => Ceil(n, d) > 0
<1>1. n + d - 1 \in Nat
  OBVIOUS
<1>2. Ceil(n, d) \in Nat /\ n + d - 1 < Ceil(n, d) * d + d
  BY <1>1, Division DEF Ceil
<1>3. Ceil(n, d) * d \in Nat
  BY <1>2, Product
<1>. QED
  BY <1>2, <1>3

\* A factor of a product below another one of the same number is below too.
LEMMA Factors ==
    ASSUME NEW a \in Nat, NEW b \in Nat, NEW c \in Nat, a * c < b * c PROVE a < b
<1>1. SUFFICES ASSUME b <= a PROVE FALSE
  OBVIOUS
<1>2. b * c <= a * c
  BY <1>1, ProductGrows
<1>3. a * c \in Nat /\ b * c \in Nat
  BY Product
<1>. QED
  BY <1>2, <1>3

\* The smallest of a set of numbers.
LEMMA Least ==
    ASSUME NEW S \in SUBSET Nat, S # {}
    PROVE  \E x \in S : \A y \in S : x <= y
<1>1. PICK x \in S : \A y \in S : <<y, x>> \notin OpToRel(<, Nat)
  BY NatLessThanWellFounded, WFMin, Zenon
<1>2. \A y \in S : ~(y < x)
  BY <1>1, Zenon DEF OpToRel
<1>. QED
  BY <1>2

-------------------------------------------------------------------------------
(* The planner's jobs. *)

\* A fraction counts as at least one percent and at most all.
LEMMA FractionType ==
    ASSUME NEW r \in Nat PROVE EffectivePercent(r) \in 1..100
<1>. DEFINE candidates == {p \in {TestPercent} \cup (IF r = 0 THEN {PilotPercent} ELSE {}) :
                               0 < p /\ p < 100}
<1>1. candidates \subseteq 1..100 /\ candidates \in SUBSET Nat
  BY ConstantTypes
<1>2. CASE candidates = {}
  BY <1>2 DEF EffectivePercent
<1>3. CASE candidates # {}
  <2>1. \E p \in candidates : \A q \in candidates : p <= q
    BY <1>1, <1>3, Least
  <2>2. EffectivePercent(r) = CHOOSE p \in candidates : \A q \in candidates : p <= q
    BY <1>3 DEF EffectivePercent
  <2>. QED
    BY <1>1, <2>1, <2>2
<1>. QED
  BY <1>2, <1>3

\* Scaling keeps numbers natural, positive ones positive, and their order.
LEMMA ScaledType ==
    ASSUME NEW n \in Nat, NEW p \in 0..100
    PROVE  Scaled(n, p) \in Nat /\ (n > 0 => Scaled(n, p) > 0)
<1>1. n * p \in Nat
  BY Product
<1>2. (n * p) \div 100 \in Nat
  BY <1>1
<1>. QED
  BY <1>2 DEF Scaled, AtLeast

\* A fraction of a larger number is no less.
LEMMA ScaledGrows ==
    ASSUME NEW m \in Nat, NEW n \in Nat, NEW p \in 0..100, m <= n
    PROVE  Scaled(m, p) <= Scaled(n, p)
<1>1. m * p \in Nat /\ n * p \in Nat /\ m * p <= n * p
  BY Product, ProductGrows
<1>2. (m * p) \div 100 <= (n * p) \div 100 /\ (m * p) \div 100 \in Nat /\ (n * p) \div 100 \in Nat
  BY <1>1
<1>. QED
  BY <1>2 DEF Scaled, AtLeast

\* What the type invariant says of the numbers in the state.
LEMMA StateTypes ==
    ASSUME TypeOK
    PROVE  /\ round \in Nat /\ offset \in Nat /\ produced \in Nat /\ faults \in Nat
           /\ tuned.events \in Nat /\ tuned.multiplier \in Nat /\ tuned.multiplier > 0
           /\ limit \in Nat /\ limit > 0 /\ dags \in Seq(DagRow)
<1>1. {round, offset, produced, faults} \subseteq Nat
  BY Zenon DEF TypeOK
<1>2. tuned \in [events : TunedEvents \cup {0}, multiplier : Multipliers \cup {1}]
  BY Zenon DEF TypeOK
<1>3. limit \in Limits /\ dags \in Seq(DagRow)
  BY Zenon DEF TypeOK
<1>4. TunedEvents \subseteq Nat /\ Multipliers \subseteq Nat \ {0} /\ Limits \subseteq Nat \ {0}
  BY RangesAssumption
<1>5. round \in Nat /\ offset \in Nat /\ produced \in Nat /\ faults \in Nat
  BY <1>1
<1>6. tuned.events \in Nat /\ tuned.multiplier \in Nat /\ tuned.multiplier > 0
  <2>1. tuned.events \in TunedEvents \cup {0} /\ tuned.multiplier \in Multipliers \cup {1}
    BY <1>2, Zenon
  <2>2. \A x \in TunedEvents \cup {0} : x \in Nat
    BY <1>4
  <2>3. \A x \in Multipliers \cup {1} : x \in Nat /\ x > 0
    BY <1>4
  <2>. QED
    BY <2>1, <2>2, <2>3, Zenon
<1>7. limit \in Nat /\ limit > 0
  BY <1>3, <1>4
<1>. QED
  BY <1>3, <1>5, <1>6, <1>7

\* A job of a round has at least one event.
LEMMA PerJobType ==
    ASSUME TypeOK
    PROVE  LET p == Scaled(EventsPerJob, EffectivePercent(round))
           IN  p \in Nat /\ p > 0 /\ ReservedPerJob \in Nat
<1>1. round \in Nat
  BY StateTypes
<1>2. EffectivePercent(round) \in 1..100
  BY <1>1, FractionType
<1>3. EffectivePercent(round) \in 0..100
  BY <1>2
<1>4. tuned.events \in Nat
  BY StateTypes
<1>. QED
  BY <1>3, <1>4, ScaledType, ConstantTypes DEF ReservedPerJob

\* The target is a number.
LEMMA TargetType == TargetEvents \in Nat
BY ScaledType, ConstantTypes DEF TargetEvents

\* The limits allow at least one job in a round.
LEMMA MaxJobsType == ASSUME NEW r \in Nat PROVE MaxJobs(r) \in Nat /\ MaxJobs(r) > 0
<1>1. NumFiles * EventsPerFile \in Nat /\ RequestNumEvents * 100 \in Nat /\ RequestNumEvents * 100 > 0
  BY Product, ConstantTypes
<1>2. /\ JobsPerWU * FirstRoundWUs \in Nat /\ JobsPerWU * FirstRoundWUs > 0
      /\ JobsPerWU * WUsPerRound \in Nat /\ JobsPerWU * WUsPerRound > 0
  BY Product, ConstantTypes
<1>. QED
  BY <1>1, <1>2 DEF MaxJobs

\* The i-th job of a GEN round is a range of as many events as planned for a
\* job; there is none just when nothing is missing.
LEMMA GenJobsRanges ==
    ASSUME TypeOK
    PROVE  LET p == Scaled(EventsPerJob, EffectivePercent(round))
           IN  /\ \E n \in Nat : GenJobs = [i \in 1..n |-> (offset + (i - 1) * p + 1) .. (offset + i * p)]
               /\ GenJobs = <<>> => produced >= TargetEvents
<1>. DEFINE p == Scaled(EventsPerJob, EffectivePercent(round))
            events == ((TargetEvents - produced) * 100) \div FilterPercent
            jobs == IF produced >= TargetEvents THEN 0 ELSE AtMost(Ceil(events, p), MaxJobs(round))
            ranges(n) == [i \in 1..n |-> (offset + (i - 1) * p + 1) .. (offset + i * p)]
<1>1. /\ p \in Nat /\ p > 0 /\ produced \in Nat /\ TargetEvents \in Nat /\ round \in Nat
      /\ MaxJobs(round) \in Nat /\ MaxJobs(round) > 0
  BY PerJobType, TargetType, MaxJobsType, StateTypes
<1>2. GenJobs = ranges(jobs)
  BY DEF GenJobs
<1>. HIDE DEF p
<1>3. ASSUME produced < TargetEvents PROVE jobs \in Nat /\ jobs > 0
  <2>. DEFINE missing == (TargetEvents - produced) * 100
  <2>1. missing \in Nat /\ missing >= 100
    BY <1>1, <1>3
  <2>2. FilterPercent \in Nat /\ FilterPercent > 0 /\ FilterPercent <= 100
    BY ConstantTypes
  <2>. HIDE DEF missing
  <2>3. missing \div FilterPercent \in Nat /\ missing < (missing \div FilterPercent) * FilterPercent + FilterPercent
    BY <2>1, <2>2, Division
  <2>4. missing \div FilterPercent > 0
    <3>. DEFINE k == missing \div FilterPercent
    <3>1. k \in Nat /\ missing < k * FilterPercent + FilterPercent
      BY <2>3
    <3>. HIDE DEF k
    <3>2. k # 0
      BY <2>1, <2>2, <3>1
    <3>. QED
      BY <3>1, <3>2 DEF k
  <2>5. events \in Nat /\ events > 0
    BY <2>3, <2>4 DEF missing
  <2>. HIDE DEF events
  <2>6. Ceil(events, p) \in Nat /\ Ceil(events, p) > 0
    BY <1>1, <2>5, CeilIsLeast
  <2>. QED
    BY <1>1, <1>3, <2>6 DEF AtMost
<1>4. jobs \in Nat
  BY <1>1, <1>3
<1>. HIDE DEF jobs
<1>5. GenJobs = <<>> => jobs = 0
  BY <1>2, <1>4
<1>6. GenJobs = <<>> => produced >= TargetEvents
  BY <1>1, <1>3, <1>5
<1>. QED
  BY <1>2, <1>4, <1>6 DEF p

\* Splitting files gives at least one job, of files asked for, the first of
\* them in the first job.
SplitsFiles(jobs, first, last) ==
    /\ \E n \in Nat : n > 0 /\ jobs \in [1..n -> SUBSET (first..last)]
    /\ first \in jobs[1]

\* File based splitting covers the range, each file in one job.
LEMMA FilesSplit ==
    ASSUME NEW first \in Nat, NEW last \in Nat, first <= last
    PROVE  SplitsFiles(SplitByFiles(first, last), first, last)
<1>. DEFINE begun(f) == {g \in Openers(first, last) :
                             \/ Eldest(first, g) < Eldest(first, f)
                             \/ Eldest(first, g) = Eldest(first, f) /\ g <= f}
            n == Cardinality(Openers(first, last))
<1>1. \A f \in first..last : Eldest(first, f) \in first..f
  <2>. SUFFICES ASSUME NEW f \in first..last PROVE Eldest(first, f) \in first..f
    OBVIOUS
  <2>1. Siblings(first, f) \in SUBSET Nat /\ f \in Siblings(first, f)
    BY DEF Siblings
  <2>2. \E g \in Siblings(first, f) : \A h \in Siblings(first, f) : g <= h
    BY <2>1, Least
  <2>3. Eldest(first, f) \in Siblings(first, f)
    BY <2>2, Zenon DEF Eldest
  <2>. QED
    BY <2>3 DEF Siblings
<1>2. Eldest(first, first) = first
  BY <1>1
<1>3. first \in Openers(first, last)
  <2>1. Siblings(first, first) = {first}
    BY DEF Siblings
  <2>2. Cardinality(Siblings(first, first)) = 1
    BY <2>1, FS_Singleton
  <2>3. 0 % SplitterFilesPerJob = 0
    BY ConstantTypes
  <2>. QED
    BY <2>2, <2>3 DEF Openers
<1>4. n \in Nat /\ n > 0
  <2>1. IsFiniteSet(first..last)
    BY FS_Interval
  <2>2. IsFiniteSet(Openers(first, last))
    BY <2>1, FS_Subset DEF Openers
  <2>. QED
    BY <1>3, <2>2, FS_CardinalityType, FS_EmptySet
<1>5. begun(first) = {first}
  <2>1. \A g \in Openers(first, last) : g \in first..last /\ Eldest(first, g) >= first
    BY <1>1 DEF Openers
  <2>. HIDE DEF n
  <2>2. \A g \in Openers(first, last) :
           (Eldest(first, g) < first \/ (Eldest(first, g) = first /\ g <= first)) <=> g = first
    BY <1>2, <2>1, <1>1
  <2>. QED
    BY <1>2, <1>3, <2>2
<1>6. Cardinality(begun(first)) = 1
  BY <1>5, FS_Singleton
<1>7. SplitByFiles(first, last) = [i \in 1..n |-> {f \in first..last : Cardinality(begun(f)) = i}]
  BY DEF SplitByFiles
<1>. HIDE DEF n, begun
<1>8. SplitByFiles(first, last) \in [1..n -> SUBSET (first..last)] /\ first \in SplitByFiles(first, last)[1]
  BY <1>4, <1>6, <1>7
<1>. QED
  BY <1>4, <1>8 DEF SplitsFiles

\* So does event based splitting.
LEMMA EventsSplit ==
    ASSUME NEW first \in Nat, NEW last \in Nat, first <= last
    PROVE  SplitsFiles(SplitByEvents(first, last), first, last)
<1>. DEFINE file(event) == first + (event - 1) \div EventsPerFile
            events == (last - first + 1) * EventsPerFile
            n == Ceil(events, EventsPerJob)
            batch(i) == ((i - 1) * EventsPerJob + 1) .. AtMost(i * EventsPerJob, events)
<1>1. events \in Nat /\ events > 0 /\ EventsPerFile \in Nat /\ EventsPerFile > 0
      /\ EventsPerJob \in Nat /\ EventsPerJob > 0
  BY ConstantTypes, Product
<1>2. SplitByEvents(first, last) = [i \in 1..n |-> {file(e) : e \in batch(i)}]
  BY DEF SplitByEvents
<1>3. n \in Nat /\ n > 0
  <2>. HIDE DEF events
  <2>. QED
    BY <1>1, CeilIsLeast
<1>4. \A e \in Nat : e >= 1 /\ e <= events => file(e) \in first..last
  <2>. SUFFICES ASSUME NEW e \in Nat, e >= 1, e <= events PROVE file(e) \in first..last
    OBVIOUS
  <2>. DEFINE k == (e - 1) \div EventsPerFile
  <2>1. k \in Nat /\ k * EventsPerFile <= e - 1
    <3>1. e - 1 \in Nat
      OBVIOUS
    <3>. QED
      BY <1>1, <3>1, Division
  <2>. HIDE DEF k
  <2>2. last - first + 1 \in Nat /\ k * EventsPerFile \in Nat
    BY <1>1, <2>1, Product
  <2>3. k * EventsPerFile < (last - first + 1) * EventsPerFile
    BY <1>1, <2>1, <2>2
  <2>4. k < last - first + 1
    BY <1>1, <2>1, <2>2, <2>3, Factors
  <2>5. file(e) = first + k
    BY DEF k
  <2>. QED
    BY <2>1, <2>4, <2>5
<1>5. \A i \in 1..n : \A e \in batch(i) : e \in Nat /\ e >= 1 /\ e <= events
  <2>. SUFFICES ASSUME NEW i \in 1..n, NEW e \in batch(i) PROVE e \in Nat /\ e >= 1 /\ e <= events
    OBVIOUS
  <2>1. i \in Nat /\ i - 1 \in Nat
    BY <1>3
  <2>. HIDE DEF n, events
  <2>2. (i - 1) * EventsPerJob \in Nat /\ i * EventsPerJob \in Nat
    BY <1>1, <2>1, Product
  <2>. QED
    BY <1>1, <2>2 DEF AtMost
<1>6. file(1) = first /\ 1 \in batch(1)
  <2>1. 0 \div EventsPerFile = 0
    BY <1>1
  <2>. HIDE DEF events
  <2>2. 1 \in batch(1)
    BY <1>1 DEF AtMost
  <2>. QED
    BY <2>1, <2>2
<1>. HIDE DEF n, batch, file
<1>7. SplitByEvents(first, last) \in [1..n -> SUBSET (first..last)] /\ first \in SplitByEvents(first, last)[1]
  BY <1>2, <1>3, <1>4, <1>5, <1>6
<1>. QED
  BY <1>3, <1>7 DEF SplitsFiles

\* The events of a job as it is planned now.
PlannedPerJob == Scaled(EventsPerJob, EffectivePercent(round))

\* What is planned is beyond the offset: a GEN round in order and without gaps,
\* a file based one from the next file on.
Handed(jobs) ==
    /\ jobs \in Seq(SUBSET Nat)
    /\ \A j \in 1..Len(jobs) : IsFiniteSet(jobs[j]) /\ \A x \in jobs[j] : x > offset
    /\ IsGen => \A j \in 1..Len(jobs) : \A x \in jobs[j] : x <= offset + j * PlannedPerJob
    /\ ~IsGen => /\ \A j \in 1..Len(jobs) : \A x \in jobs[j] : x <= NumFiles
                 /\ jobs # <<>> => offset + 1 \in jobs[1]

\* The jobs of a round of a GEN workflow begin at the offset and are disjoint.
LEMMA GenHanded ==
    ASSUME TypeOK, IsGen PROVE Handed(GenJobs)
<1>. DEFINE p == PlannedPerJob
            ranges(n) == [i \in 1..n |-> (offset + (i - 1) * p + 1) .. (offset + i * p)]
<1>1. p \in Nat /\ offset \in Nat
  BY PerJobType, StateTypes DEF PlannedPerJob
<1>2. PICK n \in Nat : GenJobs = ranges(n)
  BY GenJobsRanges DEF PlannedPerJob
<1>. HIDE DEF p
<1>3. ASSUME NEW i \in 1..n
      PROVE  /\ (offset + (i - 1) * p + 1) \in Nat /\ (offset + i * p) \in Nat
             /\ offset + (i - 1) * p + 1 > offset
  <2>1. i \in Nat /\ i - 1 \in Nat
    OBVIOUS
  <2>2. i * p \in Nat /\ (i - 1) * p \in Nat
    BY <1>1, <2>1, Product
  <2>. QED
    BY <1>1, <2>2
<1>4. \A i \in 1..n : /\ GenJobs[i] = (offset + (i - 1) * p + 1) .. (offset + i * p)
                      /\ GenJobs[i] \in SUBSET Nat /\ IsFiniteSet(GenJobs[i])
                      /\ \A x \in GenJobs[i] : x > offset /\ x <= offset + i * p
  <2>. SUFFICES ASSUME NEW i \in 1..n
                PROVE  /\ GenJobs[i] = (offset + (i - 1) * p + 1) .. (offset + i * p)
                       /\ GenJobs[i] \in SUBSET Nat /\ IsFiniteSet(GenJobs[i])
                       /\ \A x \in GenJobs[i] : x > offset /\ x <= offset + i * p
    OBVIOUS
  <2>1. GenJobs[i] = (offset + (i - 1) * p + 1) .. (offset + i * p)
    BY <1>2
  <2>. DEFINE a == offset + (i - 1) * p + 1
              b == offset + i * p
  <2>2. a \in Nat /\ b \in Nat /\ a > offset /\ GenJobs[i] = a .. b
    BY <1>3, <2>1
  <2>. HIDE DEF a, b
  <2>3. GenJobs[i] \in SUBSET Nat /\ IsFiniteSet(GenJobs[i])
    BY <2>2, FS_Interval
  <2>4. \A x \in GenJobs[i] : x > offset /\ x <= b
    BY <1>1, <2>2
  <2>. QED
    BY <2>1, <2>3, <2>4 DEF b
<1>5. Len(GenJobs) = n /\ GenJobs \in Seq(SUBSET Nat)
  <2>1. DOMAIN GenJobs = 1..n /\ GenJobs = [i \in 1..n |-> GenJobs[i]]
    BY <1>2
  <2>2. \A i \in 1..n : GenJobs[i] \in SUBSET Nat
    BY <1>4
  <2>3. GenJobs \in [1..n -> SUBSET Nat]
    BY <2>1, <2>2
  <2>. QED
    BY <2>1, <2>3
<1>. QED
  BY <1>4, <1>5 DEF Handed, p

\* So are those of a round on files.
LEMMA FilesHanded ==
    ASSUME TypeOK, ~IsGen
    PROVE  Handed(FileJobs) /\ (FileJobs = <<>> => offset >= NumFiles)
<1>. DEFINE last == AtMost(offset + MaxJobs(round) * PlannerFilesPerJob, NumFiles)
<1>1. offset \in Nat /\ NumFiles \in Nat
  BY StateTypes, ConstantTypes
<1>2. CASE offset >= NumFiles
  BY <1>2 DEF Handed, FileJobs
<1>3. CASE offset < NumFiles
  <2>1. MaxJobs(round) * PlannerFilesPerJob \in Nat /\ MaxJobs(round) * PlannerFilesPerJob > 0
    BY StateTypes, MaxJobsType, ConstantTypes, Product
  <2>2. last \in Nat /\ last > offset /\ last <= NumFiles
    BY <1>1, <1>3, <2>1 DEF AtMost
  <2>3. FileJobs = IF kind = "files" THEN SplitByFiles(offset + 1, last) ELSE SplitByEvents(offset + 1, last)
    BY <1>1, <1>3 DEF FileJobs
  <2>. HIDE DEF last
  <2>4. SplitsFiles(FileJobs, offset + 1, last)
    BY <1>1, <2>2, <2>3, FilesSplit, EventsSplit
  <2>5. PICK n \in Nat : n > 0 /\ FileJobs \in [1..n -> SUBSET ((offset + 1)..last)]
    BY <2>4 DEF SplitsFiles
  <2>6. FileJobs \in Seq(SUBSET Nat) /\ Len(FileJobs) = n /\ FileJobs # <<>>
    <3>1. (offset + 1)..last \subseteq Nat
      BY <1>1, <2>2
    <3>2. FileJobs \in [1..n -> SUBSET Nat]
      BY <2>5, <3>1
    <3>. QED
      BY <2>5, <3>2
  <2>7. \A j \in 1..n : /\ IsFiniteSet(FileJobs[j])
                        /\ \A x \in FileJobs[j] : x > offset /\ x <= NumFiles
    <3>1. IsFiniteSet((offset + 1)..last)
      BY <1>1, <2>2, FS_Interval
    <3>2. \A j \in 1..n : FileJobs[j] \subseteq (offset + 1)..last
      BY <2>5
    <3>3. \A x \in (offset + 1)..last : x > offset /\ x <= NumFiles
      BY <1>1, <2>2
    <3>. QED
      BY <3>1, <3>2, <3>3, FS_Subset
  <2>8. offset + 1 \in FileJobs[1]
    BY <2>4 DEF SplitsFiles
  <2>. QED
    BY <2>6, <2>7, <2>8 DEF Handed
<1>. QED
  BY <1>1, <1>2, <1>3

\* So are those of every round; without jobs nothing is left to hand out.
LEMMA JobsHanded ==
    ASSUME TypeOK
    PROVE  /\ Handed(Jobs)
           /\ Jobs = <<>> => IF IsGen THEN produced >= TargetEvents ELSE offset >= NumFiles
BY GenHanded, FilesHanded, GenJobsRanges DEF Jobs

\* Without the work units beyond the limit this holds as well.
LEMMA KeptHanded ==
    ASSUME NEW jobs, Handed(jobs), jobs # <<>>, NEW group \in Nat, group > 0
    PROVE  /\ Handed(Kept(jobs, group)) /\ Kept(jobs, group) # <<>>
           /\ Len(Kept(jobs, group)) \in Nat /\ Len(Kept(jobs, group)) > 0
<1>. DEFINE n == AtMost(Len(jobs), MaxWUsPerRound * group)
<1>1. jobs \in Seq(SUBSET Nat) /\ Len(jobs) \in Nat /\ Len(jobs) > 0
  BY DEF Handed
<1>2. MaxWUsPerRound * group \in Nat /\ MaxWUsPerRound * group > 0
  BY ConstantTypes, Product
<1>3. n \in 1..Len(jobs)
  BY <1>1, <1>2 DEF AtMost
<1>. HIDE DEF n
<1>4. Kept(jobs, group) = SubSeq(jobs, 1, n)
  BY DEF Kept, n
<1>5. /\ SubSeq(jobs, 1, n) \in Seq(SUBSET Nat) /\ Len(SubSeq(jobs, 1, n)) = n
      /\ \A j \in 1..n : SubSeq(jobs, 1, n)[j] = jobs[j]
  BY <1>1, <1>3
<1>6. SubSeq(jobs, 1, n) # <<>>
  BY <1>3, <1>5
<1>. DEFINE kept == SubSeq(jobs, 1, n)
<1>. HIDE DEF kept
<1>7. \A j \in 1..Len(kept) : j \in 1..Len(jobs) /\ kept[j] = jobs[j]
  BY <1>1, <1>3, <1>5 DEF kept
<1>8. 1 \in 1..Len(kept)
  BY <1>3, <1>5 DEF kept
<1>9. Handed(kept)
  <2>1. kept \in Seq(SUBSET Nat)
    BY <1>5 DEF kept
  <2>2. \A j \in 1..Len(kept) : IsFiniteSet(kept[j]) /\ \A x \in kept[j] : x > offset
    BY <1>7, Zenon DEF Handed
  <2>3. IsGen => \A j \in 1..Len(kept) : \A x \in kept[j] : x <= offset + j * PlannedPerJob
    BY <1>7, Zenon DEF Handed
  <2>4. ~IsGen => /\ \A j \in 1..Len(kept) : \A x \in kept[j] : x <= NumFiles
                  /\ offset + 1 \in kept[1]
    BY <1>7, <1>8, Zenon DEF Handed
  <2>. QED
    BY <2>1, <2>2, <2>3, <2>4, Zenon DEF Handed
<1>. QED
  BY <1>3, <1>4, <1>5, <1>6, <1>9 DEF kept

\* A work unit has at least one job.
LEMMA GroupSizesType == ASSUME TypeOK PROVE \A group \in GroupSizes : group \in Nat /\ group > 0
<1>1. tuned.multiplier \in Nat /\ tuned.multiplier > 0 /\ JobsPerWU \in Nat /\ JobsPerWU > 0
  BY StateTypes, ConstantTypes
<1>2. JobsPerWU * tuned.multiplier \in Nat /\ JobsPerWU * tuned.multiplier > 0
  BY <1>1, Product
<1>. QED
  BY <1>1, <1>2 DEF GroupSizes

-------------------------------------------------------------------------------
(* The items and the output of work units are finitely many.                  *)

\* A function has finitely many values on a finite set.
LEMMA FiniteImage ==
    ASSUME NEW S, IsFiniteSet(S), NEW f, DOMAIN f = S, f = [x \in S |-> f[x]]
    PROVE  IsFiniteSet({f[x] : x \in S})
<1>. DEFINE T == {f[x] : x \in S}
<1>1. f \in Surjection(S, T)
  BY DEF Surjection
<1>. QED
  BY <1>1, FS_Surjection

\* A set counts as many with its elements tagged.
LEMMA Tagged ==
    ASSUME NEW S, IsFiniteSet(S), NEW x
    PROVE  IsFiniteSet({x} \X S) /\ Cardinality({x} \X S) = Cardinality(S) /\ Cardinality(S) \in Nat
<1>1. IsFiniteSet({x}) /\ Cardinality({x}) = 1
  BY FS_Singleton
<1>2. IsFiniteSet({x} \X S) /\ Cardinality({x} \X S) = Cardinality({x}) * Cardinality(S)
  BY <1>1, FS_Product
<1>3. Cardinality(S) \in Nat
  BY FS_CardinalityType
<1>. QED
  BY <1>1, <1>2, <1>3

\* The first natural numbers are finitely many.
LEMMA UpToType ==
    ASSUME NEW n \in Nat PROVE IsFiniteSet(1..n) /\ Cardinality(1..n) = n
<1>1. Cardinality(1..n) = IF 1 > n THEN 0 ELSE n - 1 + 1
  BY FS_Interval
<1>2. IsFiniteSet(1..n)
  BY FS_Interval
<1>. QED
  BY <1>1, <1>2

\* Jobs of finitely many items.
Finite(dag) == \A j \in 1..Len(dag.jobs) : IsFiniteSet(dag.jobs[j])

\* A row's work units, and the job of each that is one of its own.
LEMMA WorkUnitsType ==
    ASSUME NEW dag \in DagRow
    PROVE  /\ Len(dag.jobs) \in Nat /\ dag.group \in Nat /\ dag.group > 0
           /\ Ceil(Len(dag.jobs), dag.group) \in Nat
           /\ IsFiniteSet(WorkUnits(dag)) /\ WorkUnits(dag) \subseteq Nat
<1>1. Len(dag.jobs) \in Nat /\ dag.group \in Nat /\ dag.group > 0
  BY DEF DagRow
<1>2. Ceil(Len(dag.jobs), dag.group) \in Nat
  BY <1>1, CeilIsLeast
<1>. QED
  BY <1>1, <1>2, FS_Interval DEF WorkUnits

\* The jobs of a work unit are jobs of the DAG.
LEMMA JobsOfType ==
    ASSUME NEW dag \in DagRow, NEW w \in WorkUnits(dag)
    PROVE  JobsOf(dag, w) \subseteq 1..Len(dag.jobs) /\ IsFiniteSet(JobsOf(dag, w))
<1>1. /\ Len(dag.jobs) \in Nat /\ dag.group \in Nat /\ w \in Nat /\ w > 0
  BY WorkUnitsType DEF WorkUnits
<1>2. (w - 1) * dag.group \in Nat /\ w * dag.group \in Nat
  BY <1>1, Product
<1>3. AtMost(w * dag.group, Len(dag.jobs)) \in Nat
      /\ AtMost(w * dag.group, Len(dag.jobs)) <= Len(dag.jobs)
  BY <1>1, <1>2 DEF AtMost
<1>. DEFINE a == (w - 1) * dag.group + 1
            b == AtMost(w * dag.group, Len(dag.jobs))
<1>4. a \in Nat /\ a >= 1 /\ b \in Nat /\ b <= Len(dag.jobs) /\ JobsOf(dag, w) = a .. b
  BY <1>2, <1>3 DEF JobsOf
<1>. HIDE DEF a, b
<1>5. a .. b \subseteq 1..Len(dag.jobs)
  BY <1>1, <1>4
<1>6. IsFiniteSet(a .. b)
  BY <1>4, FS_Interval
<1>. QED
  BY <1>4, <1>5, <1>6

\* The output of a work unit is a number of events.
LEMMA OutputType ==
    ASSUME NEW dag \in DagRow, Finite(dag), NEW w \in WorkUnits(dag)
    PROVE  Output(dag, w) \in Nat
<1>. DEFINE f == [j \in JobsOf(dag, w) |-> dag.jobs[j]]
            images == {f[j] : j \in JobsOf(dag, w)}
<1>1. IsFiniteSet(images)
  BY JobsOfType, FiniteImage
<1>2. \A T \in images : IsFiniteSet(T)
  BY JobsOfType DEF Finite
<1>3. Items(dag, w) = UNION images
  BY DEF Items
<1>. HIDE DEF images
<1>4. Cardinality(Items(dag, w)) \in Nat
  BY <1>1, <1>2, <1>3, FS_UNION, FS_CardinalityType
<1>5. FilterPercent \in Nat
  BY ConstantTypes
<1>6. Cardinality(Items(dag, w)) * FilterPercent \in Nat
  BY <1>4, <1>5, Product
<1>. QED
  BY <1>6 DEF Output

\* Each work unit has its own events.
LEMMA OutputOfType ==
    ASSUME NEW dag \in DagRow, Finite(dag), NEW wus \in SUBSET WorkUnits(dag)
    PROVE  IsFiniteSet(OutputOf(dag, wus)) /\ Cardinality(OutputOf(dag, wus)) \in Nat
<1>. DEFINE f == [w \in wus |-> {w} \X (1..Output(dag, w))]
            images == {f[w] : w \in wus}
<1>1. IsFiniteSet(wus)
  BY WorkUnitsType, FS_Subset
<1>2. IsFiniteSet(images)
  <2>1. DOMAIN f = wus /\ f = [w \in wus |-> f[w]]
    OBVIOUS
  <2>. HIDE DEF f
  <2>. QED
    BY <1>1, <2>1, FiniteImage
<1>3. \A T \in images : IsFiniteSet(T)
  <2>. SUFFICES ASSUME NEW w \in wus PROVE IsFiniteSet({w} \X (1..Output(dag, w)))
    OBVIOUS
  <2>1. Output(dag, w) \in Nat
    BY OutputType
  <2>2. IsFiniteSet(1..Output(dag, w))
    BY <2>1, UpToType
  <2>. QED
    BY <2>2, Tagged
<1>4. OutputOf(dag, wus) = UNION images
  BY DEF OutputOf
<1>. HIDE DEF images
<1>. QED
  BY <1>2, <1>3, <1>4, FS_UNION, FS_CardinalityType

-------------------------------------------------------------------------------
(* Type correctness. *)

TypeInv == TypeOK /\ \A i \in DOMAIN dags : Finite(dags[i])

\* What is fixed when a round is planned.
SamePlan(a, b) ==
    /\ a.jobs = b.jobs /\ a.group = b.group /\ a.round = b.round
    /\ a.perJob = b.perJob /\ a.reserved = b.reserved

\* A new round is one more row.
LEMMA RoundPlanned ==
    ASSUME TypeOK, PlanRound
    PROVE  \E group \in Nat :
              LET jobs == Kept(Jobs, group)
                  row == PlannedRow(jobs, group)
              IN  /\ group > 0 /\ Handed(jobs) /\ Len(jobs) \in Nat /\ Len(jobs) > 0
                  /\ row \in DagRow /\ Finite(row) /\ row.done \subseteq WorkUnits(row)
                  /\ row.jobs = jobs
                  /\ dags' = Append(dags, row) /\ DOMAIN dags = 1..Len(dags)
                  /\ Len(dags') = Len(dags) + 1 /\ dags' \in Seq(DagRow)
                  /\ DOMAIN dags' = 1..(Len(dags) + 1)
                  /\ \A i \in DOMAIN dags : dags'[i] = dags[i]
                  /\ dags'[Len(dags) + 1] = row
                  /\ offset' = Advanced(jobs)
<1>1. PICK group \in GroupSizes : dags' = Append(dags, PlannedRow(Kept(Jobs, group), group))
                                  /\ offset' = Advanced(Kept(Jobs, group))
  BY DEF PlanRound
<1>. DEFINE jobs == Kept(Jobs, group)
            row == PlannedRow(jobs, group)
<1>2. group \in Nat /\ group > 0
  BY GroupSizesType
<1>3. Handed(jobs) /\ Len(jobs) \in Nat /\ Len(jobs) > 0
  BY <1>2, JobsHanded, KeptHanded DEF PlanRound
<1>4. row \in DagRow /\ row.jobs = jobs /\ row.done = {}
  BY <1>2, <1>3, PerJobType, StateTypes DEF PlannedRow, DagRow, Handed
<1>5. Finite(row)
  BY <1>3, <1>4 DEF Finite, Handed
<1>. HIDE DEF jobs, row
<1>6. dags \in Seq(DagRow) /\ dags' = Append(dags, row) /\ offset' = Advanced(jobs)
  BY <1>1, StateTypes DEF jobs, row
<1>7. /\ DOMAIN dags = 1..Len(dags) /\ Len(dags') = Len(dags) + 1 /\ dags' \in Seq(DagRow)
      /\ DOMAIN dags' = 1..(Len(dags) + 1)
      /\ (\A i \in DOMAIN dags : dags'[i] = dags[i]) /\ dags'[Len(dags) + 1] = row
  BY <1>4, <1>6
<1>8. row.done \subseteq WorkUnits(row)
  BY <1>4
<1>. QED
  BY <1>2, <1>3, <1>4, <1>5, <1>6, <1>7, <1>8 DEF jobs, row

\* No other step adds a row, changes what was planned or moves the offset.
LEMMA RowsStay ==
    ASSUME TypeInv, [Next]_vars
    PROVE  /\ UNCHANGED config
           /\ \/ PlanRound
              \/ /\ offset' = offset /\ Len(dags') = Len(dags) /\ dags' \in Seq(DagRow)
                 /\ DOMAIN dags' = DOMAIN dags
                 /\ \A i \in DOMAIN dags : /\ SamePlan(dags'[i], dags[i])
                                           /\ dags[i].done \subseteq dags'[i].done
                                           /\ dags'[i].done \subseteq WorkUnits(dags'[i])
<1>0. dags \in Seq(DagRow) /\ \A i \in DOMAIN dags : dags[i] \in DagRow /\ dags[i].done \subseteq WorkUnits(dags[i])
  <2>1. dags \in Seq(DagRow)
    BY StateTypes DEF TypeInv
  <2>2. \A i \in DOMAIN dags : dags[i].done \subseteq WorkUnits(dags[i])
    BY Zenon DEF TypeInv, TypeOK
  <2>. QED
    BY <2>1, <2>2
<1>1. CASE PlanRound
  BY <1>1 DEF PlanRound
<1>2. CASE PlanOrphaned \/ NothingLeft \/ UNCHANGED vars
  <2>1. UNCHANGED <<config, offset, dags>>
    BY <1>2 DEF PlanOrphaned, NothingLeft, vars
  <2>. QED
    BY <1>0, <2>1 DEF SamePlan
<1>3. CASE TargetMet
  <2>1. UNCHANGED <<config, offset>> /\ dags' = [i \in DOMAIN dags |-> [dags[i] EXCEPT !.active = FALSE]]
    BY <1>3 DEF TargetMet
  <2>2. \A i \in DOMAIN dags : /\ dags'[i] \in DagRow /\ SamePlan(dags'[i], dags[i])
                               /\ dags'[i].done = dags[i].done
    BY <1>0, <2>1 DEF SamePlan, DagRow
  <2>3. dags' \in Seq(DagRow) /\ Len(dags') = Len(dags) /\ DOMAIN dags' = DOMAIN dags
    <3>1. Len(dags) \in Nat /\ DOMAIN dags = 1..Len(dags)
      BY <1>0
    <3>2. dags' \in [1..Len(dags) -> DagRow]
      BY <2>1, <2>2, <3>1
    <3>. QED
      BY <3>1, <3>2
  <2>4. \A i \in DOMAIN dags : WorkUnits(dags'[i]) = WorkUnits(dags[i])
    BY <2>2 DEF WorkUnits, SamePlan
  <2>. QED
    BY <1>0, <2>1, <2>2, <2>3, <2>4
<1>4. ASSUME NEW i \in DOMAIN dags, WorkUnitDone(i) \/ RoundEnds(i)
      PROVE  /\ UNCHANGED <<config, offset>> /\ Len(dags') = Len(dags) /\ dags' \in Seq(DagRow)
             /\ DOMAIN dags' = DOMAIN dags
             /\ \A k \in DOMAIN dags : /\ SamePlan(dags'[k], dags[k])
                                       /\ dags[k].done \subseteq dags'[k].done
                                       /\ dags'[k].done \subseteq WorkUnits(dags'[k])
  <2>1. UNCHANGED <<config, offset>>
    BY <1>4 DEF WorkUnitDone, RoundEnds
  <2>2. PICK row \in DagRow : /\ dags' = [dags EXCEPT ![i] = row] /\ SamePlan(row, dags[i])
                              /\ dags[i].done \subseteq row.done /\ row.done \subseteq WorkUnits(dags[i])
    <3>1. CASE WorkUnitDone(i)
      <4>1. PICK w \in WorkUnits(dags[i]) : dags' = [dags EXCEPT ![i].done = @ \cup {w}]
        BY <3>1 DEF WorkUnitDone
      <4>. DEFINE row == [dags[i] EXCEPT !.done = @ \cup {w}]
      <4>2. dags' = [dags EXCEPT ![i] = row]
        BY <4>1
      <4>3. row \in DagRow /\ SamePlan(row, dags[i]) /\ row.done = dags[i].done \cup {w}
        BY <1>0, WorkUnitsType DEF DagRow, SamePlan
      <4>. HIDE DEF row
      <4>. QED
        BY <1>0, <4>2, <4>3
    <3>2. CASE RoundEnds(i)
      <4>1. dags' = [dags EXCEPT ![i].active = FALSE]
        BY <3>2 DEF RoundEnds
      <4>. DEFINE row == [dags[i] EXCEPT !.active = FALSE]
      <4>2. dags' = [dags EXCEPT ![i] = row]
        BY <4>1
      <4>3. row \in DagRow /\ SamePlan(row, dags[i]) /\ row.done = dags[i].done
        BY <1>0 DEF DagRow, SamePlan
      <4>. HIDE DEF row
      <4>. QED
        BY <1>0, <4>2, <4>3
    <3>. QED
      BY <1>4, <3>1, <3>2
  <2>3. /\ dags' \in Seq(DagRow) /\ Len(dags') = Len(dags) /\ DOMAIN dags' = DOMAIN dags
        /\ \A k \in DOMAIN dags : dags'[k] = IF k = i THEN row ELSE dags[k]
    BY <1>0, <2>2
  <2>4. \A k \in DOMAIN dags : SamePlan(dags'[k], dags[k])
    BY <2>2, <2>3 DEF SamePlan
  <2>5. \A k \in DOMAIN dags : WorkUnits(dags'[k]) = WorkUnits(dags[k])
    BY <2>4 DEF WorkUnits, SamePlan
  <2>. QED
    BY <1>0, <2>1, <2>2, <2>3, <2>4, <2>5
<1>. QED
  BY <1>1, <1>2, <1>3, <1>4 DEF Next, Plan, Dag

\* Events are only added to what was counted, by the work unit that a poll
\* finds done, or all at once if there was none.
LEMMA CountedNext ==
    ASSUME TypeInv, [Next]_vars
    PROVE  \/ UNCHANGED produced
           \/ \E i \in DOMAIN dags : ~Discarded(i) /\ IsGen /\ \E w \in WorkUnits(dags[i]) \ dags[i].done :
                 /\ dags' = [dags EXCEPT ![i].done = @ \cup {w}]
                 /\ produced' = produced + Output(dags[i], w) /\ Output(dags[i], w) \in Nat
           \/ \E i \in DOMAIN dags :
                 /\ ~Discarded(i) /\ IsGen /\ produced = 0 /\ dags[i].done = WorkUnits(dags[i])
                 /\ dags' = [dags EXCEPT ![i].active = FALSE]
                 /\ produced' = Cardinality(OutputOf(dags[i], dags[i].done)) /\ produced' \in Nat
<1>0. \A i \in DOMAIN dags : dags[i] \in DagRow /\ Finite(dags[i])
  BY StateTypes DEF TypeInv
<1>1. ASSUME NEW i \in DOMAIN dags, WorkUnitDone(i), produced' # produced
      PROVE  /\ ~Discarded(i) /\ IsGen
             /\ \E w \in WorkUnits(dags[i]) \ dags[i].done :
                   /\ dags' = [dags EXCEPT ![i].done = @ \cup {w}]
                   /\ produced' = produced + Output(dags[i], w) /\ Output(dags[i], w) \in Nat
  <2>1. PICK w \in WorkUnits(dags[i]) \ dags[i].done, readable \in BOOLEAN :
           /\ dags' = [dags EXCEPT ![i].done = @ \cup {w}]
           /\ produced' = IF IsGen /\ readable /\ ~Discarded(i)
                          THEN produced + Output(dags[i], w) ELSE produced
    BY <1>1, Zenon DEF WorkUnitDone
  <2>2. Output(dags[i], w) \in Nat
    BY <1>0, OutputType
  <2>. QED
    BY <1>1, <2>1, <2>2
<1>2. ASSUME NEW i \in DOMAIN dags, RoundEnds(i), produced' # produced
      PROVE  /\ ~Discarded(i) /\ IsGen /\ produced = 0 /\ dags[i].done = WorkUnits(dags[i])
             /\ dags' = [dags EXCEPT ![i].active = FALSE]
             /\ produced' = Cardinality(OutputOf(dags[i], dags[i].done)) /\ produced' \in Nat
  <2>1. /\ ~Discarded(i) /\ IsGen /\ produced = 0 /\ dags[i].done = WorkUnits(dags[i])
        /\ dags' = [dags EXCEPT ![i].active = FALSE]
        /\ produced' = Cardinality(OutputOf(dags[i], WorkUnits(dags[i])))
    BY <1>2 DEF RoundEnds, CountedAtEnd
  <2>2. Cardinality(OutputOf(dags[i], WorkUnits(dags[i]))) \in Nat
    BY <1>0, OutputOfType
  <2>. QED
    BY <2>1, <2>2
<1>3. \/ UNCHANGED produced \/ \E i \in DOMAIN dags : WorkUnitDone(i) \/ RoundEnds(i)
  BY DEF Next, Plan, PlanRound, PlanOrphaned, NothingLeft, TargetMet, Dag, vars
<1>. QED
  BY <1>1, <1>2, <1>3

\* The types hold at first.
LEMMA TypeInit == Init => TypeInv
<1>. SUFFICES ASSUME Init PROVE TypeInv
  OBVIOUS
<1>1. kind \in Kinds /\ adaptive \in Adaptives /\ limit \in Limits /\ throwaway \in Throwaways
      /\ site \in [1..NumFiles -> Sites] /\ status = "queued" /\ round = 0 /\ offset = 0
      /\ produced = 0 /\ tuned = NoTuning /\ dags = <<>> /\ orphans = <<>> /\ faults = 0
  BY DEF Init
<1>2. tuned \in [events : TunedEvents \cup {0}, multiplier : Multipliers \cup {1}]
  BY <1>1 DEF NoTuning
<1>3. /\ dags \in Seq(DagRow) /\ orphans \in Seq(Seq(SUBSET Nat)) /\ DOMAIN dags = {}
      /\ Len(dags) <= MaxDags /\ faults <= MaxFaults /\ {round, offset, produced, faults} \subseteq Nat
  BY <1>1, ConstantTypes
<1>. QED
  BY <1>1, <1>2, <1>3 DEF TypeInv, TypeOK

\* Every step keeps the types.
LEMMA TypeStep == TypeInv /\ [Next]_vars => TypeInv'
<1>. SUFFICES ASSUME TypeInv, [Next]_vars PROVE TypeInv'
  OBVIOUS
<1>0. /\ kind \in Kinds /\ adaptive \in Adaptives /\ limit \in Limits /\ throwaway \in Throwaways
      /\ site \in [1..NumFiles -> Sites] /\ status \in {"queued", "active", "completed"}
      /\ round \in Nat /\ offset \in Nat /\ produced \in Nat /\ faults \in Nat
      /\ tuned \in [events : TunedEvents \cup {0}, multiplier : Multipliers \cup {1}]
      /\ dags \in Seq(DagRow) /\ orphans \in Seq(Seq(SUBSET Nat))
      /\ Len(dags) <= MaxDags /\ faults <= MaxFaults
      /\ \A i \in DOMAIN dags : Finite(dags[i])
  <2>1. round \in Nat /\ offset \in Nat /\ produced \in Nat /\ faults \in Nat
    BY StateTypes DEF TypeInv
  <2>. QED
    BY <2>1, Zenon DEF TypeInv, TypeOK
<1>1. /\ kind' \in Kinds /\ adaptive' \in Adaptives /\ limit' \in Limits /\ throwaway' \in Throwaways
      /\ site' \in [1..NumFiles -> Sites]
  BY <1>0, RowsStay DEF config
<1>2. dags' \in Seq(DagRow) /\ \A i \in DOMAIN dags' : Finite(dags'[i]) /\ dags'[i].done \subseteq WorkUnits(dags'[i])
  <2>1. CASE PlanRound
    <3>1. \A i \in DOMAIN dags : Finite(dags[i]) /\ dags[i].done \subseteq WorkUnits(dags[i])
      BY <1>0, Zenon DEF TypeInv, TypeOK
    <3>2. PICK row : /\ Finite(row) /\ row.done \subseteq WorkUnits(row) /\ dags' \in Seq(DagRow)
                     /\ DOMAIN dags = 1..Len(dags) /\ DOMAIN dags' = 1..(Len(dags) + 1)
                     /\ \A i \in DOMAIN dags : dags'[i] = dags[i]
                     /\ dags'[Len(dags) + 1] = row
      BY <2>1, RoundPlanned DEF TypeInv
    <3>3. \A i \in DOMAIN dags' : i \in DOMAIN dags \/ i = Len(dags) + 1
      BY <1>0, <3>2
    <3>. QED
      BY <3>1, <3>2, <3>3
  <2>2. CASE ~PlanRound
    <3>1. /\ dags' \in Seq(DagRow) /\ DOMAIN dags' = DOMAIN dags
          /\ \A i \in DOMAIN dags : SamePlan(dags'[i], dags[i]) /\ dags'[i].done \subseteq WorkUnits(dags'[i])
      BY <2>2, RowsStay
    <3>2. \A i \in DOMAIN dags : Finite(dags'[i])
      BY <1>0, <3>1 DEF Finite, SamePlan
    <3>. QED
      BY <3>1, <3>2
  <2>. QED
    BY <2>1, <2>2
<1>3. produced' \in Nat
  BY <1>0, CountedNext
<1>4. offset' \in Nat /\ round' \in Nat /\ Len(dags') <= MaxDags
  <2>1. CASE PlanRound
    <3>1. PICK jobs : Len(jobs) \in Nat /\ offset' = Advanced(jobs) /\ Len(dags') = Len(dags) + 1
      BY <2>1, RoundPlanned DEF TypeInv
    <3>2. Len(jobs) * ReservedPerJob \in Nat /\ Len(jobs) * PlannerFilesPerJob \in Nat
      BY <3>1, PerJobType, ConstantTypes, Product DEF TypeInv
    <3>3. offset' \in Nat
      BY <1>0, <3>1, <3>2 DEF Advanced
    <3>4. round' = round + 1 /\ Len(dags) < MaxDags /\ Len(dags) \in Nat
      BY <1>0, <2>1 DEF PlanRound
    <3>. QED
      BY <1>0, <3>1, <3>3, <3>4, ConstantTypes
  <2>2. CASE ~PlanRound
    <3>1. UNCHANGED round
      BY <2>2 DEF Next, Plan, PlanOrphaned, NothingLeft, TargetMet, Dag, WorkUnitDone, RoundEnds, vars
    <3>. QED
      BY <1>0, <2>2, <3>1, RowsStay
  <2>. QED
    BY <2>1, <2>2
<1>5. /\ status' \in {"queued", "active", "completed"}
      /\ tuned' \in [events : TunedEvents \cup {0}, multiplier : Multipliers \cup {1}]
      /\ faults' \in Nat /\ faults' <= MaxFaults
      /\ orphans' \in Seq(Seq(SUBSET Nat))
  <2>1. CASE PlanRound \/ NothingLeft \/ TargetMet \/ UNCHANGED vars
    BY <1>0, <2>1 DEF PlanRound, NothingLeft, TargetMet, vars
  <2>2. CASE PlanOrphaned
    <3>1. PICK group \in GroupSizes : orphans' = Append(orphans, Kept(Jobs, group))
      BY <2>2 DEF PlanOrphaned
    <3>2. Kept(Jobs, group) \in Seq(SUBSET Nat)
      BY <2>2, <3>1, GroupSizesType, JobsHanded, KeptHanded DEF PlanOrphaned, Handed, TypeInv
    <3>3. orphans' \in Seq(Seq(SUBSET Nat))
      BY <1>0, <3>1, <3>2
    <3>4. UNCHANGED <<status, tuned>> /\ faults < MaxFaults /\ faults' = faults + 1
      BY <2>2 DEF PlanOrphaned
    <3>. QED
      BY <1>0, <3>3, <3>4, ConstantTypes
  <2>3. ASSUME NEW i \in DOMAIN dags, WorkUnitDone(i)
        PROVE  UNCHANGED <<status, tuned, orphans>> /\ faults' \in Nat /\ faults' <= MaxFaults
    <3>1. UNCHANGED <<status, tuned, orphans>>
      BY <2>3 DEF WorkUnitDone
    <3>2. PICK readable \in BOOLEAN : /\ readable \/ faults < MaxFaults
                                      /\ faults' = IF readable THEN faults ELSE faults + 1
      BY <2>3, Zenon DEF WorkUnitDone
    <3>. QED
      BY <1>0, <3>1, <3>2, ConstantTypes
  <2>4. ASSUME NEW i \in DOMAIN dags, RoundEnds(i)
        PROVE  /\ status' \in {"queued", "active", "completed"}
               /\ tuned' \in [events : TunedEvents \cup {0}, multiplier : Multipliers \cup {1}]
               /\ UNCHANGED <<faults, orphans>>
    <3>1. PICK few : /\ few = (IF IsGen THEN TunedEvents ELSE {}) \cup {0}
                     /\ tuned' \in [events : few, multiplier : Multipliers \cup {1}]
      BY <2>4 DEF RoundEnds
    <3>2. few \subseteq TunedEvents \cup {0}
      BY <3>1
    <3>3. UNCHANGED <<faults, orphans>> /\ status' = AfterRound(i, produced')
      BY <2>4 DEF RoundEnds
    <3>. QED
      BY <1>0, <3>1, <3>2, <3>3 DEF AfterRound
  <2>5. \/ PlanRound \/ NothingLeft \/ TargetMet \/ UNCHANGED vars \/ PlanOrphaned
        \/ \E i \in DOMAIN dags : WorkUnitDone(i) \/ RoundEnds(i)
    BY DEF Next, Plan, Dag
  <2>. QED
    BY <1>0, <2>1, <2>2, <2>3, <2>4, <2>5
<1>. QED
  BY <1>1, <1>2, <1>3, <1>4, <1>5 DEF TypeInv, TypeOK

\* Type correctness, and that jobs are finite sets of items.
THEOREM RangesTypes == Spec => []TypeInv
BY TypeInit, TypeStep, PTL DEF Spec

-------------------------------------------------------------------------------
(* No item is handed out twice: what counting rounds have is not beyond the   *)
(* offset, and a new round begins behind it.                                  *)

\* What a DAG covers is in one of its jobs.
LEMMA CoveredItems ==
    ASSUME NEW dag \in DagRow
    PROVE  \A x : x \in Covered(dag) <=> \E j \in 1..Len(dag.jobs) : x \in dag.jobs[j]
<1>1. DOMAIN dag.jobs = 1..Len(dag.jobs)
  BY DEF DagRow
<1>. QED
  BY <1>1 DEF Covered, Range

\* A DAG covers finitely many items.
LEMMA CoveredFinite ==
    ASSUME NEW dag \in DagRow, Finite(dag)
    PROVE  IsFiniteSet(Covered(dag)) /\ Cardinality(Covered(dag)) \in Nat
<1>. DEFINE images == {dag.jobs[j] : j \in 1..Len(dag.jobs)}
<1>1. Len(dag.jobs) \in Nat /\ DOMAIN dag.jobs = 1..Len(dag.jobs)
      /\ dag.jobs = [j \in 1..Len(dag.jobs) |-> dag.jobs[j]]
  BY DEF DagRow
<1>2. IsFiniteSet(1..Len(dag.jobs))
  BY <1>1, FS_Interval
<1>3. IsFiniteSet(images)
  BY <1>1, <1>2, FiniteImage
<1>4. Covered(dag) = UNION images
  BY <1>1 DEF Covered, Range
<1>5. \A T \in images : IsFiniteSet(T)
  BY DEF Finite
<1>. HIDE DEF images
<1>. QED
  BY <1>3, <1>4, <1>5, FS_UNION, FS_CardinalityType

\* A set of consecutive numbers from a + 1 on has no number beyond its size.
LEMMA Consecutive ==
    ASSUME NEW C, IsFiniteSet(C), NEW a \in Nat, a + 1 \in C,
           \A f, g \in C : f..g \subseteq C, NEW x \in C, x \in Nat, x > a
    PROVE  x <= a + Cardinality(C)
<1>1. (a + 1)..x \subseteq C
  OBVIOUS
<1>2. IsFiniteSet((a + 1)..x) /\ Cardinality((a + 1)..x) = x - a
  <2>1. Cardinality((a + 1)..x) = IF a + 1 > x THEN 0 ELSE x - (a + 1) + 1
    BY FS_Interval
  <2>2. IsFiniteSet((a + 1)..x)
    BY FS_Interval
  <2>. QED
    BY <2>1, <2>2
<1>3. Cardinality((a + 1)..x) <= Cardinality(C)
  BY <1>1, FS_Subset
<1>4. Cardinality(C) \in Nat
  BY FS_CardinalityType
<1>. QED
  BY <1>2, <1>3, <1>4

\* The premise of RoundsDisjoint, for one round.
Regular(dag) == IF IsGen THEN dag.reserved >= dag.perJob ELSE FullBatch(dag)
AllRegular == \A i \in DOMAIN dags : Regular(dags[i])

\* The reservation reaches as far as the round.
LEMMA Reserves ==
    ASSUME TypeOK, NEW group \in Nat, NEW jobs, Handed(jobs), Len(jobs) \in Nat, Len(jobs) > 0,
           PlannedRow(jobs, group) \in DagRow, Finite(PlannedRow(jobs, group)),
           Regular(PlannedRow(jobs, group)), ~(throwaway /\ round = 0)
    PROVE  \A x \in Covered(PlannedRow(jobs, group)) : x <= Advanced(jobs)
<1>. DEFINE row == PlannedRow(jobs, group)
            n == Len(jobs)
<1>0. row.jobs = jobs /\ row.perJob = PlannedPerJob /\ row.reserved = ReservedPerJob
  BY DEF PlannedRow, PlannedPerJob
<1>1. row \in DagRow /\ Finite(row) /\ Regular(row)
  OBVIOUS
<1>2. PlannedPerJob \in Nat /\ ReservedPerJob \in Nat /\ offset \in Nat
  BY PerJobType, StateTypes DEF PlannedPerJob
<1>. HIDE DEF row, n
<1>3. n \in Nat
  BY DEF n
<1>4. SUFFICES ASSUME NEW x \in Covered(row) PROVE x <= Advanced(jobs)
  BY DEF row
<1>5. PICK j \in 1..n : x \in jobs[j]
  BY <1>0, <1>1, CoveredItems DEF n
<1>6. x \in Nat /\ x > offset
  BY <1>3, <1>5 DEF Handed, n
<1>7. CASE IsGen
  <2>1. x <= offset + j * PlannedPerJob
    BY <1>5, <1>7 DEF Handed, n
  <2>2. PlannedPerJob <= ReservedPerJob
    BY <1>0, <1>1, <1>2, <1>7 DEF Regular
  <2>3. j * PlannedPerJob <= n * PlannedPerJob
    BY <1>2, <1>3, <1>5, ProductGrows
  <2>4. n * PlannedPerJob <= n * ReservedPerJob
    <3>1. PlannedPerJob * n <= ReservedPerJob * n
      BY <1>2, <1>3, <2>2, ProductGrows
    <3>. QED
      BY <1>2, <1>3, <3>1, Product
  <2>5. j * PlannedPerJob \in Nat /\ n * PlannedPerJob \in Nat /\ n * ReservedPerJob \in Nat
    BY <1>2, <1>3, <1>5, Product
  <2>6. Advanced(jobs) = offset + n * ReservedPerJob
    BY <1>7 DEF Advanced, n
  <2>. QED
    BY <1>2, <1>6, <2>1, <2>3, <2>4, <2>5, <2>6
<1>8. CASE ~IsGen
  <2>1. offset + 1 \in Covered(row)
    <3>1. offset + 1 \in jobs[1] /\ 1 \in 1..n
      <4>1. jobs # <<>>
        OBVIOUS
      <4>. QED
        BY <1>8, <4>1 DEF Handed, n
    <3>. QED
      BY <1>0, <1>1, <3>1, CoveredItems DEF n
  <2>2. (\A f, g \in Covered(row) : f..g \subseteq Covered(row))
        /\ Cardinality(Covered(row)) <= n * PlannerFilesPerJob
    <3>1. FullBatch(row)
      BY <1>1, <1>8 DEF Regular
    <3>2. Cardinality(Covered(row)) \in Nat /\ n * PlannerFilesPerJob \in Nat
      BY <1>1, <1>3, CoveredFinite, ConstantTypes, Product
    <3>. QED
      BY <1>0, <3>1, <3>2 DEF FullBatch, n
  <2>3. x <= offset + Cardinality(Covered(row))
    BY <1>1, <1>2, <1>6, <2>1, <2>2, CoveredFinite, Consecutive
  <2>4. Advanced(jobs) = offset + n * PlannerFilesPerJob
    BY <1>8 DEF Advanced, n
  <2>5. Cardinality(Covered(row)) \in Nat /\ n * PlannerFilesPerJob \in Nat
    BY <1>1, <1>3, CoveredFinite, ConstantTypes, Product
  <2>. QED
    BY <1>2, <1>6, <2>2, <2>3, <2>4, <2>5
<1>. QED
  BY <1>7, <1>8

\* What follows from the plan alone stays.
LEMMA SamePlanSame ==
    ASSUME NEW a, NEW b, SamePlan(a, b)
    PROVE  /\ Covered(a) = Covered(b) /\ WorkUnits(a) = WorkUnits(b) /\ a.round = b.round
           /\ \A w : Items(a, w) = Items(b, w) /\ Output(a, w) = Output(b, w)
           /\ \A S : OutputOf(a, S) = OutputOf(b, S)
           /\ Regular(a) <=> Regular(b)
<1>1. Covered(a) = Covered(b) /\ WorkUnits(a) = WorkUnits(b) /\ a.round = b.round
  BY DEF SamePlan, Covered, WorkUnits
<1>2. \A w : Items(a, w) = Items(b, w)
  BY DEF SamePlan, Items, JobsOf
<1>3. \A w : Output(a, w) = Output(b, w)
  BY <1>2 DEF Output
<1>4. \A S : OutputOf(a, S) = OutputOf(b, S)
  BY <1>3 DEF OutputOf
<1>5. Regular(a) <=> Regular(b)
  BY <1>1 DEF Regular, FullBatch, SamePlan
<1>. QED
  BY <1>1, <1>2, <1>3, <1>4, <1>5

\* The rounds that count stay the same but for a new one.
LEMMA CountingNext ==
    ASSUME TypeInv, [Next]_vars
    PROVE  /\ ~PlanRound => Counting' = Counting
           /\ PlanRound => /\ Counting \subseteq Counting'
                           /\ Counting' \subseteq Counting \cup {Len(dags) + 1}
                           /\ throwaway /\ round = 0 => Counting' = Counting
<1>0. UNCHANGED throwaway
  BY RowsStay DEF config
<1>1. CASE ~PlanRound
  <2>1. DOMAIN dags' = DOMAIN dags /\ \A i \in DOMAIN dags : dags'[i].round = dags[i].round
    BY <1>1, RowsStay DEF SamePlan
  <2>. QED
    BY <1>0, <1>1, <2>1 DEF Counting, Discarded
<1>2. CASE PlanRound
  <2>1. PICK jobs, group : LET row == PlannedRow(jobs, group) IN
              /\ DOMAIN dags = 1..Len(dags) /\ DOMAIN dags' = 1..(Len(dags) + 1)
              /\ \A i \in DOMAIN dags : dags'[i] = dags[i]
              /\ dags'[Len(dags) + 1] = row
    BY <1>2, RoundPlanned DEF TypeInv
  <2>2. PlannedRow(jobs, group).round = round
    BY DEF PlannedRow
  <2>3. Len(dags) \in Nat
    BY StateTypes DEF TypeInv
  <2>4. DOMAIN dags' = DOMAIN dags \cup {Len(dags) + 1}
    BY <2>1, <2>3
  <2>. QED
    BY <1>0, <1>2, <2>1, <2>2, <2>4 DEF Counting, Discarded
<1>. QED
  BY <1>1, <1>2

\* The inductive invariant of RoundsDisjoint.
DisjointInv ==
    AllRegular =>
        /\ \A i \in Counting : \A x \in Covered(dags[i]) : x <= offset
        /\ \A i, j \in Counting : i # j => Covered(dags[i]) \cap Covered(dags[j]) = {}

\* A new round begins behind all items handed out, every other step hands out none.
LEMMA DisjointStep == TypeInv /\ DisjointInv /\ [Next]_vars => DisjointInv'
<1>. SUFFICES ASSUME TypeInv, DisjointInv, [Next]_vars, AllRegular' PROVE
        /\ \A i \in Counting' : \A x \in Covered(dags'[i]) : x <= offset'
        /\ \A i, j \in Counting' : i # j => Covered(dags'[i]) \cap Covered(dags'[j]) = {}
  BY DEF DisjointInv
<1>0. IsGen' = IsGen
  BY RowsStay DEF config, IsGen
<1>1. \A dag : Regular(dag)' <=> Regular(dag)
  BY <1>0 DEF Regular, FullBatch, Covered, Range
<1>2. CASE ~PlanRound
  <2>1. /\ offset' = offset /\ DOMAIN dags' = DOMAIN dags
        /\ \A i \in DOMAIN dags : SamePlan(dags'[i], dags[i])
    BY <1>2, RowsStay
  <2>2. \A i \in DOMAIN dags : Covered(dags'[i]) = Covered(dags[i]) /\ (Regular(dags'[i]) <=> Regular(dags[i]))
    BY <2>1, SamePlanSame
  <2>3. AllRegular
    <3>1. \A i \in DOMAIN dags' : Regular(dags'[i])
      BY <1>1 DEF AllRegular
    <3>. QED
      BY <2>1, <2>2, <3>1 DEF AllRegular
  <2>4. Counting' = Counting /\ Counting \subseteq DOMAIN dags
    BY <1>2, CountingNext DEF Counting
  <2>. QED
    BY <2>1, <2>2, <2>3, <2>4 DEF DisjointInv
<1>3. CASE PlanRound
  <2>1. PICK group, jobs : LET row == PlannedRow(jobs, group) IN
              /\ group \in Nat /\ Handed(jobs) /\ Len(jobs) \in Nat /\ Len(jobs) > 0
              /\ row \in DagRow /\ Finite(row) /\ row.jobs = jobs
              /\ DOMAIN dags = 1..Len(dags) /\ DOMAIN dags' = 1..(Len(dags) + 1)
              /\ \A i \in DOMAIN dags : dags'[i] = dags[i]
              /\ dags'[Len(dags) + 1] = row
              /\ offset' = Advanced(jobs)
    BY <1>3, RoundPlanned DEF TypeInv
  <2>. DEFINE row == PlannedRow(jobs, group)
              n == Len(dags) + 1
  <2>2. Len(dags) \in Nat /\ offset \in Nat
    BY StateTypes DEF TypeInv
  <2>3. n \in DOMAIN dags' /\ DOMAIN dags \subseteq DOMAIN dags' /\ n \notin DOMAIN dags
    BY <2>1, <2>2
  <2>4. Regular(row) /\ AllRegular
    <3>1. \A i \in DOMAIN dags' : Regular(dags'[i])
      BY <1>1 DEF AllRegular
    <3>. QED
      BY <2>1, <2>3, <3>1 DEF AllRegular
  <2>5. offset <= offset' /\ offset' \in Nat
    <3>1. Len(jobs) * ReservedPerJob \in Nat /\ Len(jobs) * PlannerFilesPerJob \in Nat
      BY <2>1, PerJobType, ConstantTypes, Product DEF TypeInv
    <3>. QED
      BY <2>1, <2>2, <3>1 DEF Advanced
  <2>6. \A x \in Covered(row) : x > offset /\ x \in Nat
    BY <2>1, CoveredItems DEF Handed
  <2>7. ~(throwaway /\ round = 0) => \A x \in Covered(row) : x <= offset'
    BY <2>1, <2>4, Reserves DEF TypeInv
  <2>8. \A i \in Counting : /\ dags'[i] = dags[i] /\ i \in DOMAIN dags
                            /\ \A x \in Covered(dags[i]) : x <= offset /\ x \in Nat
    <3>1. Counting \subseteq DOMAIN dags /\ \A i \in DOMAIN dags : dags[i] \in DagRow
      BY StateTypes DEF Counting, TypeInv
    <3>2. \A i \in Counting : \A x \in Covered(dags[i]) : x <= offset
      BY <2>4 DEF DisjointInv
    <3>3. \A i \in DOMAIN dags : \A x \in Covered(dags[i]) : x \in Nat
      <4>. SUFFICES ASSUME NEW i \in DOMAIN dags, NEW x \in Covered(dags[i]) PROVE x \in Nat
        OBVIOUS
      <4>1. dags[i] \in DagRow
        BY <3>1
      <4>2. PICK j \in 1..Len(dags[i].jobs) : x \in dags[i].jobs[j]
        BY <4>1, CoveredItems
      <4>3. dags[i].jobs \in Seq(SUBSET Nat)
        BY <4>1 DEF DagRow
      <4>. QED
        BY <4>2, <4>3
    <3>. QED
      BY <2>1, <3>1, <3>2, <3>3
  <2>9. Counting' \subseteq Counting \cup {n} /\ (throwaway /\ round = 0 => Counting' = Counting)
    BY <1>3, CountingNext
  <2>10. dags'[n] = row /\ n \notin Counting
    BY <2>1, <2>3 DEF Counting
  <2>. HIDE DEF row, n
  <2>11. \A i \in Counting' : \A x \in Covered(dags'[i]) : x <= offset'
    <3>. SUFFICES ASSUME NEW i \in Counting', NEW x \in Covered(dags'[i]) PROVE x <= offset'
      OBVIOUS
    <3>1. CASE i \in Counting
      BY <2>2, <2>5, <2>8, <3>1
    <3>2. CASE i = n /\ i \notin Counting
      BY <2>7, <2>9, <2>10, <3>2
    <3>. QED
      BY <2>9, <3>1, <3>2
  <2>12. ASSUME NEW i \in Counting', NEW j \in Counting', i # j
         PROVE  Covered(dags'[i]) \cap Covered(dags'[j]) = {}
    <3>1. CASE i \in Counting /\ j \in Counting
      BY <2>4, <2>8, <2>12, <3>1 DEF DisjointInv
    <3>2. \A k \in Counting : Covered(dags'[k]) \cap Covered(row) = {}
      BY <2>2, <2>6, <2>8
    <3>3. CASE i = n /\ j \in Counting
      BY <2>10, <3>2, <3>3
    <3>4. CASE j = n /\ i \in Counting
      BY <2>10, <3>2, <3>4
    <3>. QED
      BY <2>9, <2>12, <3>1, <3>3, <3>4
  <2>. QED
    BY <2>11, <2>12
<1>. QED
  BY <1>2, <1>3

\* No two rounds that count work on the same event or file, for every size of
\* jobs and rounds and wherever planning fails: unless the optimization shrank
\* the jobs or a batch was not full.
THEOREM NoItemTwice == Spec => []RoundsDisjoint
<1>1. Init => TypeInv /\ DisjointInv
  <2>1. Init => DisjointInv
    BY DEF Init, DisjointInv, Counting
  <2>. QED
    BY <2>1, TypeInit
<1>2. TypeInv /\ DisjointInv /\ [Next]_vars => (TypeInv /\ DisjointInv)'
  BY TypeStep, DisjointStep
<1>3. DisjointInv => RoundsDisjoint
  BY DEF DisjointInv, RoundsDisjoint, AllRegular, Regular, NeverShrunk, FullBatches
<1>. QED
  BY <1>1, <1>2, <1>3, PTL DEF Spec

\* When no optimization chooses fewer events per job than the request asks for,
\* the premise holds: no two GEN jobs ever share an event.
THEOREM NoRangeShared ==
    ASSUME \A events \in TunedEvents : events >= EventsPerJob
    PROVE  Spec => [](IsGen => EventsNeverShared)
<1>. DEFINE NoneShrunk == \A i \in DOMAIN dags : dags[i].reserved >= dags[i].perJob
<1>1. Init => TypeInv /\ DisjointInv /\ NoneShrunk
  <2>1. Init => DisjointInv /\ NoneShrunk
    BY DEF Init, DisjointInv, Counting
  <2>. QED
    BY <2>1, TypeInit
<1>2. TypeInv /\ NoneShrunk /\ [Next]_vars => NoneShrunk'
  <2>. SUFFICES ASSUME TypeInv, NoneShrunk, [Next]_vars, NEW i \in DOMAIN dags'
                PROVE  dags'[i].reserved >= dags'[i].perJob
    OBVIOUS
  <2>1. CASE ~PlanRound
    BY <2>1, RowsStay DEF SamePlan
  <2>2. CASE PlanRound
    <3>1. PICK jobs, group : /\ DOMAIN dags = 1..Len(dags) /\ DOMAIN dags' = 1..(Len(dags) + 1)
                             /\ \A k \in DOMAIN dags : dags'[k] = dags[k]
                             /\ dags'[Len(dags) + 1] = PlannedRow(jobs, group)
      BY <2>2, RoundPlanned DEF TypeInv
    <3>2. Len(dags) \in Nat /\ tuned.events \in Nat /\ round \in Nat
      BY StateTypes DEF TypeInv
    <3>3. i \in DOMAIN dags \/ i = Len(dags) + 1
      BY <3>1, <3>2
    <3>4. EffectivePercent(round) \in 0..100
      <4>1. EffectivePercent(round) \in 1..100
        BY <3>2, FractionType
      <4>. QED
        BY <4>1
    <3>5. ReservedPerJob >= PlannedPerJob
      <4>1. CASE round > 0 /\ tuned.events > 0
        <5>1. tuned.events \in TunedEvents
          <6>1. tuned.events \in TunedEvents \cup {0}
            BY Zenon DEF TypeInv, TypeOK
          <6>. QED
            BY <4>1, <6>1
        <5>2. EventsPerJob <= tuned.events /\ EventsPerJob \in Nat
          BY <3>2, <5>1, ConstantTypes
        <5>3. Scaled(EventsPerJob, EffectivePercent(round)) <= Scaled(tuned.events, EffectivePercent(round))
          BY <3>2, <3>4, <5>2, ScaledGrows
        <5>4. Scaled(EventsPerJob, EffectivePercent(round)) \in Nat /\ Scaled(tuned.events, EffectivePercent(round)) \in Nat
          BY <3>2, <3>4, <5>2, ScaledType
        <5>5. ReservedPerJob = Scaled(tuned.events, EffectivePercent(round))
          BY <4>1 DEF ReservedPerJob
        <5>. QED
          BY <5>3, <5>4, <5>5 DEF PlannedPerJob
      <4>2. CASE ~(round > 0 /\ tuned.events > 0)
        <5>1. ReservedPerJob = PlannedPerJob
          BY <4>2 DEF ReservedPerJob, PlannedPerJob
        <5>2. PlannedPerJob \in Nat
          BY PerJobType DEF PlannedPerJob, TypeInv
        <5>. QED
          BY <5>1, <5>2
      <4>. QED
        BY <4>1, <4>2
    <3>6. PlannedRow(jobs, group).reserved >= PlannedRow(jobs, group).perJob
      BY <3>5 DEF PlannedRow, PlannedPerJob
    <3>. QED
      BY <3>1, <3>3, <3>6
  <2>. QED
    BY <2>1, <2>2
<1>3. TypeInv /\ DisjointInv /\ NoneShrunk /\ [Next]_vars => (TypeInv /\ DisjointInv /\ NoneShrunk)'
  BY <1>2, TypeStep, DisjointStep
<1>4. DisjointInv /\ NoneShrunk => (IsGen => EventsNeverShared)
  BY DEF DisjointInv, EventsNeverShared, AllRegular, Regular
<1>. QED
  BY <1>1, <1>3, <1>4, PTL DEF Spec

-------------------------------------------------------------------------------
(* Events are counted once: each counted event is one of a work unit that is  *)
(* recorded as done.                                                          *)

\* The events of the recorded work units of all rounds that count.
Recorded == UNION {{i} \X OutputOf(dags[i], dags[i].done) : i \in Counting}

\* Finitely many events are recorded.
LEMMA RecordedFinite ==
    ASSUME TypeInv PROVE IsFiniteSet(Recorded) /\ Cardinality(Recorded) \in Nat
<1>. DEFINE f == [i \in Counting |-> {i} \X OutputOf(dags[i], dags[i].done)]
            images == {f[i] : i \in Counting}
<1>1. Counting \subseteq DOMAIN dags /\ DOMAIN dags = 1..Len(dags) /\ Len(dags) \in Nat
  BY StateTypes DEF Counting, TypeInv
<1>2. IsFiniteSet(Counting)
  <2>1. IsFiniteSet(1..Len(dags))
    BY <1>1, FS_Interval
  <2>. QED
    BY <1>1, <2>1, FS_Subset
<1>3. IsFiniteSet(images)
  <2>1. DOMAIN f = Counting /\ f = [i \in Counting |-> f[i]]
    OBVIOUS
  <2>. HIDE DEF f
  <2>. QED
    BY <1>2, <2>1, FiniteImage
<1>4. \A T \in images : IsFiniteSet(T)
  <2>. SUFFICES ASSUME NEW i \in Counting PROVE IsFiniteSet({i} \X OutputOf(dags[i], dags[i].done))
    OBVIOUS
  <2>1. dags[i] \in DagRow /\ Finite(dags[i])
    BY <1>1, StateTypes DEF TypeInv
  <2>2. dags[i].done \in SUBSET WorkUnits(dags[i])
    BY <1>1, Zenon DEF TypeInv, TypeOK
  <2>3. IsFiniteSet(OutputOf(dags[i], dags[i].done))
    BY <2>1, <2>2, OutputOfType
  <2>. QED
    BY <2>3, Tagged
<1>5. Recorded = UNION images
  BY DEF Recorded
<1>. HIDE DEF images
<1>. QED
  BY <1>3, <1>4, <1>5, FS_UNION, FS_CardinalityType

\* Nothing recorded is forgotten.
LEMMA RecordedGrows ==
    ASSUME TypeInv, [Next]_vars PROVE Recorded \subseteq Recorded'
<1>1. Counting \subseteq Counting' /\ Counting \subseteq DOMAIN dags
  BY CountingNext DEF Counting
<1>2. \A i \in DOMAIN dags : SamePlan(dags'[i], dags[i]) /\ dags[i].done \subseteq dags'[i].done
  <2>1. CASE PlanRound
    <3>1. \A i \in DOMAIN dags : dags'[i] = dags[i]
      BY <2>1, RoundPlanned DEF TypeInv
    <3>. QED
      BY <3>1 DEF SamePlan
  <2>2. CASE ~PlanRound
    BY <2>2, RowsStay
  <2>. QED
    BY <2>1, <2>2
<1>3. \A i \in DOMAIN dags : OutputOf(dags[i], dags[i].done) \subseteq OutputOf(dags'[i], dags'[i].done)
  <2>. SUFFICES ASSUME NEW i \in DOMAIN dags
                PROVE  OutputOf(dags[i], dags[i].done) \subseteq OutputOf(dags'[i], dags'[i].done)
    OBVIOUS
  <2>1. OutputOf(dags'[i], dags'[i].done) = OutputOf(dags[i], dags'[i].done)
    BY <1>2, SamePlanSame
  <2>2. dags[i].done \subseteq dags'[i].done
    BY <1>2
  <2>3. OutputOf(dags[i], dags[i].done) \subseteq OutputOf(dags[i], dags'[i].done)
    BY <2>2 DEF OutputOf
  <2>. QED
    BY <2>1, <2>3
<1>4. Recorded' = UNION {{i} \X OutputOf(dags'[i], dags'[i].done) : i \in Counting'}
  BY DEF Recorded, OutputOf, Output, Items, JobsOf
<1>. QED
  BY <1>1, <1>3, <1>4 DEF Recorded

\* A work unit that ends is counted with the events it adds, and no other step counts.
LEMMA CountedStep == TypeInv /\ CountedOnce /\ [Next]_vars => CountedOnce'
<1>. SUFFICES ASSUME TypeInv, CountedOnce, [Next]_vars PROVE produced' <= Cardinality(Recorded')
  BY DEF CountedOnce, Recorded
<1>0. TypeInv' /\ Recorded \subseteq Recorded'
  BY TypeStep, RecordedGrows
<1>1. produced <= Cardinality(Recorded)
  BY DEF CountedOnce, Recorded
<1>2. /\ IsFiniteSet(Recorded) /\ Cardinality(Recorded) \in Nat
      /\ IsFiniteSet(Recorded') /\ Cardinality(Recorded') \in Nat
  <2>1. IsFiniteSet(Recorded)' /\ (Cardinality(Recorded) \in Nat)'
    BY <1>0, RecordedFinite, PTL
  <2>. QED
    BY <2>1, RecordedFinite
<1>3. produced \in Nat /\ \A i \in DOMAIN dags : dags[i] \in DagRow
  BY StateTypes DEF TypeInv
<1>4. Recorded' = UNION {{i} \X OutputOf(dags'[i], dags'[i].done) : i \in Counting'}
  BY DEF Recorded, OutputOf, Output, Items, JobsOf
<1>5. CASE UNCHANGED produced
  <2>1. Cardinality(Recorded) <= Cardinality(Recorded')
    BY <1>0, <1>2, FS_Subset
  <2>. QED
    BY <1>1, <1>2, <1>3, <1>5, <2>1
<1>6. ASSUME NEW i \in DOMAIN dags, ~Discarded(i), NEW w \in WorkUnits(dags[i]) \ dags[i].done,
             dags' = [dags EXCEPT ![i].done = @ \cup {w}],
             produced' = produced + Output(dags[i], w), Output(dags[i], w) \in Nat
      PROVE  produced' <= Cardinality(Recorded')
  <2>. DEFINE events == {i} \X ({w} \X (1..Output(dags[i], w)))
  <2>1. events \cap Recorded = {}
    <3>. SUFFICES ASSUME NEW e \in events, e \in Recorded PROVE FALSE
      OBVIOUS
    <3>1. e = <<e[1], e[2]>> /\ e[1] = i /\ e[2][1] = w
      OBVIOUS
    <3>2. PICK k \in Counting : e \in {k} \X OutputOf(dags[k], dags[k].done)
      BY DEF Recorded
    <3>3. k = i /\ e[2] \in OutputOf(dags[i], dags[i].done)
      BY <3>1, <3>2
    <3>4. e[2][1] \in dags[i].done
      BY <3>3 DEF OutputOf
    <3>. QED
      BY <1>6, <3>1, <3>4
  <2>2. events \subseteq Recorded'
    <3>1. i \in Counting'
      <4>1. i \in Counting
        BY <1>6 DEF Counting
      <4>. QED
        BY <4>1, CountingNext
    <3>2. SamePlan(dags'[i], dags[i]) /\ dags'[i].done = dags[i].done \cup {w}
      BY <1>3, <1>6 DEF SamePlan, DagRow
    <3>3. OutputOf(dags'[i], dags'[i].done) = OutputOf(dags[i], dags[i].done \cup {w})
      BY <3>2, SamePlanSame
    <3>4. {w} \X (1..Output(dags[i], w)) \subseteq OutputOf(dags'[i], dags'[i].done)
      BY <3>3 DEF OutputOf
    <3>. QED
      BY <1>4, <3>1, <3>4
  <2>3. IsFiniteSet(events) /\ Cardinality(events) = Output(dags[i], w)
    <3>1. IsFiniteSet(1..Output(dags[i], w)) /\ Cardinality(1..Output(dags[i], w)) = Output(dags[i], w)
      BY <1>6, UpToType
    <3>2. /\ IsFiniteSet({w} \X (1..Output(dags[i], w)))
          /\ Cardinality({w} \X (1..Output(dags[i], w))) = Output(dags[i], w)
      BY <3>1, Tagged
    <3>. QED
      BY <3>2, Tagged
  <2>. HIDE DEF events
  <2>4. /\ IsFiniteSet(Recorded \cup events)
        /\ Cardinality(Recorded \cup events) = Cardinality(Recorded) + Cardinality(events) - Cardinality(Recorded \cap events)
    BY <1>2, <2>3, FS_Union
  <2>5. Cardinality(Recorded \cap events) = 0
    <3>1. Recorded \cap events = {}
      BY <2>1
    <3>. QED
      BY <3>1, FS_EmptySet
  <2>6. Cardinality(Recorded \cup events) <= Cardinality(Recorded')
    BY <1>0, <1>2, <2>2, FS_Subset
  <2>. QED
    BY <1>1, <1>2, <1>3, <1>6, <2>3, <2>4, <2>5, <2>6
<1>7. ASSUME NEW i \in DOMAIN dags, ~Discarded(i), produced' \in Nat,
             dags' = [dags EXCEPT ![i].active = FALSE],
             produced' = Cardinality(OutputOf(dags[i], dags[i].done))
      PROVE  produced' <= Cardinality(Recorded')
  <2>. DEFINE wus == OutputOf(dags[i], dags[i].done)
  <2>1. i \in Counting'
    <3>1. i \in Counting
      BY <1>7 DEF Counting
    <3>. QED
      BY <3>1, CountingNext
  <2>2. OutputOf(dags'[i], dags'[i].done) = wus
    <3>1. SamePlan(dags'[i], dags[i]) /\ dags'[i].done = dags[i].done
      BY <1>3, <1>7 DEF SamePlan, DagRow
    <3>. QED
      BY <3>1, SamePlanSame
  <2>3. {i} \X wus \subseteq Recorded'
    BY <1>4, <2>1, <2>2
  <2>4. IsFiniteSet(wus) /\ Cardinality(wus) \in Nat
    <3>1. Finite(dags[i]) /\ dags[i].done \in SUBSET WorkUnits(dags[i])
      BY <1>7, Zenon DEF TypeInv, TypeOK
    <3>. QED
      BY <1>3, <3>1, OutputOfType
  <2>. HIDE DEF wus
  <2>5. Cardinality({i} \X wus) = Cardinality(wus)
    BY <2>4, Tagged
  <2>6. Cardinality({i} \X wus) <= Cardinality(Recorded')
    BY <1>2, <2>3, FS_Subset
  <2>. QED
    BY <1>2, <1>7, <2>4, <2>5, <2>6 DEF wus
<1>. QED
  BY <1>5, <1>6, <1>7, CountedNext

\* Polls and the end of a round never count a work unit's events twice, nor
\* those of a discarded pilot, whatever the sizes, the filter and the faults.
THEOREM EventsCountedOnce == Spec => []CountedOnce
<1>1. Init => TypeInv /\ CountedOnce
  <2>1. Init => TypeInv
    BY TypeInit
  <2>2. TypeInv /\ produced = 0 => CountedOnce
    BY RecordedFinite DEF CountedOnce, Recorded
  <2>. QED
    BY <2>1, <2>2 DEF Init
<1>2. TypeInv /\ CountedOnce /\ [Next]_vars => (TypeInv /\ CountedOnce)'
  BY TypeStep, CountedStep
<1>. QED
  BY <1>1, <1>2, PTL DEF Spec

-------------------------------------------------------------------------------
(* A completed request is done.                                               *)

\* Every job belongs to a work unit of its round.
LEMMA EveryJobHasWorkUnit ==
    ASSUME NEW dag \in DagRow, NEW j \in 1..Len(dag.jobs)
    PROVE  \E w \in WorkUnits(dag) : j \in JobsOf(dag, w)
<1>. DEFINE g == dag.group
            n == Len(dag.jobs)
            k == (j - 1) \div g
            c == Ceil(n, g)
<1>1. n \in Nat /\ g \in Nat /\ g > 0 /\ c \in Nat
  BY WorkUnitsType
<1>2. n <= c * g
  BY <1>1, CeilIsLeast
<1>. HIDE DEF g, n, c
<1>3. j \in Nat /\ j - 1 \in Nat /\ j <= n /\ j >= 1
  BY <1>1 DEF n
<1>4. k \in Nat /\ k * g <= j - 1 /\ j - 1 < k * g + g
  BY <1>1, <1>3, Division
<1>. HIDE DEF k
<1>5. k * g \in Nat /\ c * g \in Nat
  BY <1>1, <1>4, Product
<1>6. k < c
  BY <1>1, <1>2, <1>3, <1>4, <1>5, Factors
<1>7. (k + 1) * g = k * g + g
  BY <1>1, <1>4
<1>. DEFINE w == k + 1
<1>8. w \in WorkUnits(dag) /\ w - 1 = k /\ w * g = k * g + g
  BY <1>1, <1>4, <1>6, <1>7 DEF WorkUnits, c, g, n
<1>9. j \in (k * g + 1) .. AtMost(k * g + g, n)
  BY <1>1, <1>3, <1>4, <1>5 DEF AtMost
<1>. HIDE DEF w
<1>10. JobsOf(dag, w) = (k * g + 1) .. AtMost(k * g + g, n)
  <2>1. JobsOf(dag, w) = ((w - 1) * g + 1) .. AtMost(w * g, n)
    BY DEF JobsOf, g, n
  <2>. QED
    BY <1>8, <2>1
<1>. QED
  BY <1>8, <1>9, <1>10

\* A full batch of files leaves none out, as far as the reservation reaches.
LEMMA NoGap ==
    ASSUME NEW C \in SUBSET Nat, IsFiniteSet(C), NEW a \in Nat, a + 1 \in C,
           \A x \in C : x > a, \A f, g \in C : f..g \subseteq C,
           NEW f \in Nat, f > a, f <= a + Cardinality(C)
    PROVE  f \in C
<1>1. SUFFICES ASSUME f \notin C PROVE FALSE
  OBVIOUS
<1>2. C \subseteq (a + 1)..(f - 1)
  <2>. SUFFICES ASSUME NEW x \in C PROVE x \in (a + 1)..(f - 1)
    OBVIOUS
  <2>1. x < f
    <3>1. CASE f <= x
      <4>1. f \in (a + 1)..x /\ (a + 1)..x \subseteq C
        BY <3>1
      <4>. QED
        BY <1>1, <4>1
    <3>. QED
      BY <3>1
  <2>. QED
    BY <2>1
<1>3. IsFiniteSet((a + 1)..(f - 1)) /\ Cardinality((a + 1)..(f - 1)) = f - 1 - a
  <2>1. Cardinality((a + 1)..(f - 1)) = IF a + 1 > f - 1 THEN 0 ELSE (f - 1) - (a + 1) + 1
    BY FS_Interval
  <2>2. IsFiniteSet((a + 1)..(f - 1))
    BY FS_Interval
  <2>. QED
    BY <2>1, <2>2
<1>4. Cardinality(C) <= f - 1 - a
  <2>. DEFINE I == (a + 1)..(f - 1)
  <2>1. Cardinality(C) <= Cardinality(I)
    BY <1>2, <1>3, FS_Subset
  <2>. QED
    BY <1>3, <2>1
<1>5. Cardinality(C) \in Nat
  BY FS_CardinalityType
<1>. QED
  BY <1>4, <1>5

\* Of a file based request no round ends before its work units are done, the
\* files before the offset have been in a round, and it is completed when they
\* are all the files and no round runs.
DoneInv ==
    /\ IsGen /\ status = "completed" => produced >= TargetEvents
    /\ ~IsGen =>
          /\ \A i \in DOMAIN dags : ~dags[i].active => dags[i].done = WorkUnits(dags[i])
          /\ AllRegular => \A f \in 1..NumFiles : f <= offset => \E i \in DOMAIN dags : f \in Covered(dags[i])
          /\ status = "completed" => ActiveDags = {} /\ offset >= NumFiles

\* A GEN workflow is completed only with its target reached.
LEMMA GenDoneStep ==
    ASSUME TypeInv, DoneInv, [Next]_vars, IsGen, status' = "completed"
    PROVE  produced' >= TargetEvents
<1>1. produced \in Nat /\ TargetEvents \in Nat
  BY StateTypes, TargetType DEF TypeInv
<1>2. CASE NothingLeft
  BY <1>2, JobsHanded DEF NothingLeft, TypeInv
<1>3. CASE TargetMet
  BY <1>3 DEF TargetMet, TargetReached
<1>4. ASSUME NEW i \in DOMAIN dags, WorkUnitDone(i) \/ RoundEnds(i), status = "active"
      PROVE  produced' >= TargetEvents
  <2>1. CASE WorkUnitDone(i)
    BY <1>4, <2>1 DEF WorkUnitDone
  <2>2. CASE RoundEnds(i)
    BY <1>4, <2>2 DEF RoundEnds, AfterRound
  <2>. QED
    BY <1>4, <2>1, <2>2
<1>5. CASE UNCHANGED <<status, produced>>
  BY <1>5 DEF DoneInv
<1>6. ~PlanRound /\ (PlanOrphaned => UNCHANGED <<status, produced>>)
  BY DEF PlanRound, PlanOrphaned
<1>. QED
  BY <1>2, <1>3, <1>4, <1>5, <1>6 DEF Next, Plan, Dag, vars

\* A round of a workflow on files is over only with all its work units done.
LEMMA FilesEndedStep ==
    ASSUME TypeInv, DoneInv, [Next]_vars, ~IsGen
    PROVE  \A i \in DOMAIN dags' : ~dags'[i].active => dags'[i].done = WorkUnits(dags'[i])
<1>0. /\ dags \in Seq(DagRow) /\ \A i \in DOMAIN dags : dags[i] \in DagRow
      /\ \A i \in DOMAIN dags : ~dags[i].active => dags[i].done = WorkUnits(dags[i])
  BY StateTypes DEF TypeInv, DoneInv
<1>1. CASE PlanRound
  <2>1. PICK jobs, group : /\ DOMAIN dags = 1..Len(dags) /\ DOMAIN dags' = 1..(Len(dags) + 1)
                           /\ \A k \in DOMAIN dags : dags'[k] = dags[k]
                           /\ dags'[Len(dags) + 1] = PlannedRow(jobs, group)
    BY <1>1, RoundPlanned DEF TypeInv
  <2>2. PlannedRow(jobs, group).active
    BY DEF PlannedRow
  <2>3. \A i \in DOMAIN dags' : i \in DOMAIN dags \/ i = Len(dags) + 1
    BY <1>0, <2>1
  <2>. QED
    BY <1>0, <2>1, <2>2, <2>3
<1>2. ASSUME NEW i \in DOMAIN dags, WorkUnitDone(i) \/ RoundEnds(i), dags[i].active
      PROVE  \A k \in DOMAIN dags' : ~dags'[k].active => dags'[k].done = WorkUnits(dags'[k])
  <2>1. ASSUME WorkUnitDone(i)
        PROVE  /\ DOMAIN dags' = DOMAIN dags /\ \A k \in DOMAIN dags \ {i} : dags'[k] = dags[k]
               /\ dags'[i].active
    <3>1. PICK w : dags' = [dags EXCEPT ![i].done = @ \cup {w}]
      BY <2>1 DEF WorkUnitDone
    <3>. QED
      BY <1>0, <1>2, <3>1 DEF DagRow
  <2>2. ASSUME RoundEnds(i)
        PROVE  /\ DOMAIN dags' = DOMAIN dags /\ \A k \in DOMAIN dags \ {i} : dags'[k] = dags[k]
               /\ dags'[i].done = WorkUnits(dags'[i])
    <3>1. dags' = [dags EXCEPT ![i].active = FALSE] /\ dags[i].done = WorkUnits(dags[i])
      BY <2>2 DEF RoundEnds
    <3>2. SamePlan(dags'[i], dags[i]) /\ dags'[i].done = dags[i].done
      BY <1>0, <3>1 DEF SamePlan, DagRow
    <3>. QED
      BY <1>0, <3>1, <3>2, SamePlanSame
  <2>. QED
    BY <1>0, <1>2, <2>1, <2>2
<1>3. CASE UNCHANGED dags
  BY <1>0, <1>3 DEF WorkUnits
<1>4. ~TargetMet
  BY DEF TargetMet, TargetReached
<1>5. PlanOrphaned \/ NothingLeft \/ UNCHANGED vars => UNCHANGED dags
  BY DEF PlanOrphaned, NothingLeft, vars
<1>. QED
  BY <1>1, <1>2, <1>3, <1>4, <1>5 DEF Next, Plan, Dag

\* As long as every round is regular, the files before the offset are in some round.
LEMMA FilesCoveredStep ==
    ASSUME TypeInv, DoneInv, [Next]_vars, ~IsGen, AllRegular',
           NEW f \in 1..NumFiles, f <= offset'
    PROVE  \E i \in DOMAIN dags' : f \in Covered(dags'[i])
<1>0. IsGen' = IsGen
  BY RowsStay DEF config, IsGen
<1>1. \A dag : Regular(dag)' <=> Regular(dag)
  BY <1>0 DEF Regular, FullBatch, Covered, Range
<1>2. \A i \in DOMAIN dags' : Regular(dags'[i])
  BY <1>1 DEF AllRegular
<1>3. CASE ~PlanRound
  <2>1. /\ offset' = offset /\ DOMAIN dags' = DOMAIN dags
        /\ \A i \in DOMAIN dags : SamePlan(dags'[i], dags[i])
    BY <1>3, RowsStay
  <2>2. \A i \in DOMAIN dags : Covered(dags'[i]) = Covered(dags[i]) /\ (Regular(dags'[i]) <=> Regular(dags[i]))
    BY <2>1, SamePlanSame
  <2>3. AllRegular
    BY <1>2, <2>1, <2>2 DEF AllRegular
  <2>. QED
    BY <2>1, <2>2, <2>3 DEF DoneInv
<1>4. CASE PlanRound
  <2>1. PICK group, jobs : LET row == PlannedRow(jobs, group) IN
              /\ group \in Nat /\ Handed(jobs) /\ Len(jobs) \in Nat /\ Len(jobs) > 0
              /\ row \in DagRow /\ Finite(row) /\ row.jobs = jobs
              /\ DOMAIN dags = 1..Len(dags) /\ DOMAIN dags' = 1..(Len(dags) + 1)
              /\ \A i \in DOMAIN dags : dags'[i] = dags[i]
              /\ dags'[Len(dags) + 1] = row
              /\ offset' = Advanced(jobs)
    BY <1>4, RoundPlanned DEF TypeInv
  <2>. DEFINE row == PlannedRow(jobs, group)
              n == Len(dags) + 1
              C == Covered(row)
  <2>2. Len(dags) \in Nat /\ offset \in Nat /\ f \in Nat /\ NumFiles \in Nat
    BY StateTypes, ConstantTypes DEF TypeInv
  <2>3. n \in DOMAIN dags' /\ DOMAIN dags \subseteq DOMAIN dags' /\ dags'[n] = row
    BY <2>1, <2>2
  <2>4. Regular(row) /\ AllRegular
    BY <1>2, <2>1, <2>3 DEF AllRegular
  <2>5. CASE f <= offset
    BY <2>1, <2>3, <2>4, <2>5 DEF DoneInv
  <2>6. CASE f > offset
    <3>1. offset' = offset + Len(jobs) * PlannerFilesPerJob
      BY <2>1, <2>2, <2>6 DEF Advanced
    <3>2. C \in SUBSET Nat /\ \A x \in C : x > offset
      BY <2>1, CoveredItems DEF Handed
    <3>3. offset + 1 \in C
      <4>1. offset + 1 \in jobs[1] /\ 1 \in 1..Len(jobs)
        <5>1. jobs # <<>>
          BY <2>1
        <5>. QED
          BY <2>1, <5>1 DEF Handed
      <4>. QED
        BY <2>1, <4>1, CoveredItems
    <3>4. IsFiniteSet(C) /\ Cardinality(C) \in Nat
      BY <2>1, CoveredFinite
    <3>5. /\ \A x, y \in C : x..y \subseteq C
          /\ \/ Cardinality(C) = Len(jobs) * PlannerFilesPerJob
             \/ NumFiles \in C
      BY <2>1, <2>4 DEF Regular, FullBatch
    <3>. HIDE DEF C
    <3>6. f \in C
      <4>1. CASE Cardinality(C) = Len(jobs) * PlannerFilesPerJob
        <5>1. f <= offset + Cardinality(C)
          BY <3>1, <4>1
        <5>. QED
          BY <2>2, <2>6, <3>2, <3>3, <3>4, <3>5, <5>1, NoGap
      <4>2. CASE NumFiles \in C
        <5>1. (offset + 1)..NumFiles \subseteq C
          BY <3>3, <3>5, <4>2
        <5>. QED
          BY <2>2, <2>6, <5>1
      <4>. QED
        BY <3>5, <4>1, <4>2
    <3>. QED
      BY <2>3, <3>6 DEF C
  <2>. QED
    BY <2>2, <2>5, <2>6
<1>. QED
  BY <1>3, <1>4

\* A workflow on files is completed only behind its last file, with no DAG active.
LEMMA FilesCompletedStep ==
    ASSUME TypeInv, DoneInv, [Next]_vars, ~IsGen, status' = "completed"
    PROVE  ActiveDags' = {} /\ offset' >= NumFiles
<1>1. CASE NothingLeft
  <2>1. UNCHANGED <<dags, offset>> /\ ActiveDags = {} /\ Jobs = <<>>
    BY <1>1 DEF NothingLeft
  <2>2. offset >= NumFiles
    BY <2>1, JobsHanded DEF TypeInv
  <2>. QED
    BY <2>1, <2>2 DEF ActiveDags
<1>2. ASSUME ~NothingLeft PROVE UNCHANGED <<dags, offset>> /\ status = "completed"
  <2>1. ~PlanRound /\ ~TargetMet
    BY DEF PlanRound, TargetMet, TargetReached
  <2>2. ~PlanOrphaned \/ ~MayPlan
    BY DEF PlanOrphaned, MayPlan
  <2>3. \A i \in DOMAIN dags : ~Dag(i)
    <3>. SUFFICES ASSUME NEW i \in DOMAIN dags, Dag(i) PROVE FALSE
      OBVIOUS
    <3>1. status = "active" /\ (WorkUnitDone(i) \/ RoundEnds(i))
      BY DEF Dag
    <3>. QED
      BY <3>1 DEF WorkUnitDone, RoundEnds, AfterRound
  <2>. QED
    BY <1>2, <2>1, <2>2, <2>3 DEF Next, Plan, vars
<1>. QED
  BY <1>1, <1>2 DEF DoneInv, ActiveDags

\* Every step keeps what completion needs.
LEMMA DoneStep == TypeInv /\ DoneInv /\ [Next]_vars => DoneInv'
<1>. SUFFICES ASSUME TypeInv, DoneInv, [Next]_vars PROVE DoneInv'
  OBVIOUS
<1>1. IsGen' = IsGen /\ TargetEvents' = TargetEvents
  BY RowsStay DEF config, IsGen, TargetEvents, Scaled, AtLeast
<1>2. CASE IsGen
  <2>1. status' = "completed" => produced' >= TargetEvents
    BY <1>2, GenDoneStep
  <2>. QED
    BY <1>1, <1>2, <2>1 DEF DoneInv
<1>3. CASE ~IsGen
  <2>1. \A i \in DOMAIN dags' : ~dags'[i].active => dags'[i].done = WorkUnits(dags'[i])
    BY <1>3, FilesEndedStep
  <2>2. AllRegular' => \A f \in 1..NumFiles : f <= offset' => \E i \in DOMAIN dags' : f \in Covered(dags'[i])
    BY <1>3, FilesCoveredStep
  <2>3. status' = "completed" => ActiveDags' = {} /\ offset' >= NumFiles
    BY <1>3, FilesCompletedStep
  <2>4. /\ (\A i \in DOMAIN dags : ~dags[i].active => dags[i].done = WorkUnits(dags[i]))'
        /\ (\A f \in 1..NumFiles : f <= offset => \E i \in DOMAIN dags : f \in Covered(dags[i]))'
              <=> (\A f \in 1..NumFiles : f <= offset' => \E i \in DOMAIN dags' : f \in Covered(dags'[i]))
    BY <2>1 DEF WorkUnits, Covered, Range
  <2>. QED
    BY <1>1, <1>3, <2>2, <2>3, <2>4 DEF DoneInv
<1>. QED
  BY <1>2, <1>3

\* The files of work units that are done are those of the rounds that ended.
LEMMA DoneMeansDone ==
    ASSUME TypeInv, DoneInv PROVE CompletedMeansDone
<1>. SUFFICES ASSUME status = "completed", ~IsGen, FullBatches, NEW f \in 1..NumFiles
              PROVE  \E i \in DOMAIN dags : \E w \in dags[i].done : f \in Items(dags[i], w)
  BY DEF CompletedMeansDone, DoneInv
<1>1. AllRegular
  BY DEF AllRegular, Regular, FullBatches
<1>2. offset >= NumFiles /\ offset \in Nat /\ NumFiles \in Nat /\ ActiveDags = {}
  BY StateTypes, ConstantTypes DEF DoneInv, TypeInv
<1>3. PICK i \in DOMAIN dags : f \in Covered(dags[i])
  BY <1>1, <1>2 DEF DoneInv
<1>4. dags[i] \in DagRow /\ dags[i].done = WorkUnits(dags[i])
  <2>1. dags[i] \in DagRow /\ ~dags[i].active
    BY <1>2, StateTypes DEF ActiveDags, TypeInv
  <2>. QED
    BY <2>1 DEF DoneInv
<1>5. PICK j \in 1..Len(dags[i].jobs) : f \in dags[i].jobs[j]
  BY <1>3, <1>4, CoveredItems
<1>6. PICK w \in WorkUnits(dags[i]) : j \in JobsOf(dags[i], w)
  BY <1>4, EveryJobHasWorkUnit
<1>. QED
  BY <1>4, <1>5, <1>6 DEF Items

\* A GEN request is completed with the events it asked for; a file based one
\* with a finished work unit for each file, when its batches were full, although
\* nothing counts its files.
THEOREM CompletedIsDone == Spec => []CompletedMeansDone
<1>1. Init => TypeInv /\ DoneInv
  <2>1. Init => DoneInv
    BY DEF Init, DoneInv
  <2>. QED
    BY <2>1, TypeInit
<1>2. TypeInv /\ DoneInv /\ [Next]_vars => (TypeInv /\ DoneInv)'
  BY TypeStep, DoneStep
<1>3. TypeInv /\ DoneInv => CompletedMeansDone
  BY DoneMeansDone
<1>. QED
  BY <1>1, <1>2, <1>3, PTL DEF Spec

===============================================================================
