------------------------- MODULE UnmergedFilesProofs --------------------------
(***************************************************************************)
(* Theorems about UnmergedFiles for every set of work units, jobs, tiers   *)
(* and sites, and any number of retries and faults.                        *)
(***************************************************************************)
EXTENDS UnmergedFiles, FiniteSetTheorems, TLAPS

After == {"cleanup", "cleaning", "done"}

\* The name and the job of a staged file say the same.
Named(f) == f.name = [proc |-> f.proc, attempt |-> 0]

-------------------------------------------------------------------------------
(* What the operators of the model return.                                    *)

\* The output of a job is a file, named after it.
LEMMA OutputType ==
    ASSUME TypeOK, NEW w \in WorkUnits, NEW p \in Procs, NEW t \in Tiers
    PROVE  /\ Output(w, p, t) \in File /\ Named(Output(w, p, t))
           /\ Output(w, p, t).wu = w /\ Output(w, p, t).site = site[w]
           /\ Output(w, p, t).tier = t /\ Output(w, p, t).proc = p
           /\ Output(w, p, t).name.proc = p
BY DEF Output, OutputName, File, Name, Named, TypeOK

\* What a merge job discovers are outputs of its work unit at its site.
LEMMA DiscoveredType ==
    ASSUME TypeOK, NEW w \in WorkUnits, NEW listed \in SUBSET Tiers,
           NEW answers \in SUBSET WithManifest(w), NEW e \in Discovered(w, listed, answers)
    PROVE  /\ e \in Found /\ e.file.wu = w /\ e.file.site = site[w]
           /\ (\A f \in store : Named(f)) => Named(e.file)
<1>1. PICK t \in Tiers : e \in IF t \in listed THEN Listed(w, t) ELSE Probed(w, t, answers)
  BY DEF Discovered
<1>2. CASE e \in Listed(w, t)
  <2>1. PICK f \in InDir(w, t) : e = [file |-> f, dir |-> t]
    BY <1>2 DEF Listed
  <2>2. f \in store /\ f \in File /\ f.wu = w /\ f.site = site[w]
    BY DEF InDir, TypeOK
  <2>. QED
    BY <2>1, <2>2 DEF Found
<1>3. CASE e \in Probed(w, t, answers)
  <2>1. PICK p \in Procs, u \in Tiers : e = [file |-> Output(w, p, u), dir |-> t]
    <3>1. PICK p \in (IF t = First THEN answers ELSE {}), u \in Tiers :
             e = [file |-> Output(w, p, u), dir |-> t]
      BY <1>3 DEF Probed
    <3>. QED
      BY <3>1 DEF WithManifest
  <2>. QED
    BY <2>1, OutputType DEF Found
<1>. QED
  BY <1>1, <1>2, <1>3

\* Without a failed listing the merge job discovers every output of a job that
\* has its files and its manifest in the unmerged area.
LEMMA DiscoveredComplete ==
    ASSUME TypeOK, NEW w \in WorkUnits, NEW listed \in SUBSET Tiers, NEW answers,
           \A t \in Tiers \ listed : InDir(w, t) = {},
           NEW p \in WithManifest(w), \A u \in Tiers : Output(w, p, u) \in store, NEW t \in Tiers
    PROVE  /\ [file |-> Output(w, p, t), dir |-> t] \in Discovered(w, listed, answers)
           /\ p \in Informed(w, listed, answers)
<1>1. p \in Procs
  BY DEF WithManifest
<1>2. \A u \in Tiers : Output(w, p, u) \in InDir(w, u)
  BY <1>1, OutputType DEF InDir
<1>3. \A u \in Tiers : u \in listed
  BY <1>2
<1>4. [file |-> Output(w, p, t), dir |-> t] \in Listed(w, t)
  BY <1>2 DEF Listed
<1>5. [file |-> Output(w, p, t), dir |-> t] \in Discovered(w, listed, answers)
  BY <1>1, <1>3, <1>4, OutputType DEF Discovered
<1>6. First \in listed
  BY <1>3, UnmergedAssumption
<1>. QED
  BY <1>5, <1>6 DEF Informed

-------------------------------------------------------------------------------
(* Types.                                                                     *)

\* Every step keeps the types.
LEMMA TypeStep == TypeOK /\ [Next]_vars => TypeOK'
<1>. SUFFICES ASSUME TypeOK, [Next]_vars PROVE TypeOK'
  OBVIOUS
<1>. USE DEF TypeOK
<1>0. faults \in Nat /\ listFaults \in Nat /\ MaxFaults \in Nat /\ MaxListFaults \in Nat
  BY UnmergedAssumption
<1>1. Fault => faults' \in 0..MaxFaults
  BY <1>0 DEF Fault
<1>2. ASSUME NEW w \in WorkUnits, NEW p \in Procs, StageOut(w, p) PROVE TypeOK'
  <2>1. \A t \in Tiers : Output(w, p, t) \in File
    BY OutputType
  <2>2. store' \subseteq File
    BY <1>2, <2>1 DEF StageOut
  <2>3. manifests' \subseteq WorkUnits \X Sites \X Procs
    BY <1>2 DEF StageOut
  <2>4. staged' \in [WorkUnits -> SUBSET Procs] /\ phase' \in [WorkUnits -> Phases]
    BY <1>2 DEF StageOut, Phases
  <2>. QED
    BY <1>2, <2>2, <2>3, <2>4 DEF StageOut
<1>3. ASSUME NEW w \in WorkUnits, NEW p \in Procs, StageOutFails(w, p) PROVE TypeOK'
  <2>1. \A t \in Tiers : Output(w, p, t) \in File
    BY OutputType
  <2>2. store' \subseteq File
    BY <1>3, <2>1 DEF StageOutFails
  <2>3. [attempt[w] EXCEPT ![p] = @ + 1] \in [Procs -> Nat]
    OBVIOUS
  <2>4. attempt' = [attempt EXCEPT ![w] = [attempt[w] EXCEPT ![p] = @ + 1]]
    BY <1>3 DEF StageOutFails
  <2>5. attempt' \in [WorkUnits -> [Procs -> Nat]]
    BY <2>3, <2>4
  <2>. QED
    BY <1>1, <1>3, <2>2, <2>5 DEF StageOutFails
<1>4. ASSUME NEW w \in WorkUnits, Discover(w) PROVE TypeOK'
  <2>1. PICK listed \in SUBSET Tiers :
           LET failed == {t \in Tiers \ listed : InDir(w, t) # {}}
           IN  /\ listFaults + Cardinality(failed) <= MaxListFaults
               /\ listFaults' = listFaults + Cardinality(failed)
               /\ \E answers \in SUBSET WithManifest(w) :
                     found' = [found EXCEPT ![w] =
                          {e \in Discovered(w, listed, answers) :
                              e.file.name.proc \in Informed(w, listed, answers)}]
    BY <1>4 DEF Discover
  <2>. DEFINE failed == {t \in Tiers \ listed : InDir(w, t) # {}}
  <2>2. Cardinality(failed) \in Nat
    <3>1. IsFiniteSet(failed)
      BY UnmergedAssumption, FS_Subset
    <3>. QED
      BY <3>1, FS_CardinalityType
  <2>3. listFaults + Cardinality(failed) <= MaxListFaults /\ listFaults' = listFaults + Cardinality(failed)
    BY <2>1
  <2>. HIDE DEF failed
  <2>4. listFaults' \in 0..MaxListFaults
    BY <1>0, <2>2, <2>3
  <2>5. PICK answers \in SUBSET WithManifest(w) :
           found' = [found EXCEPT ![w] =
                        {e \in Discovered(w, listed, answers) :
                            e.file.name.proc \in Informed(w, listed, answers)}]
    BY <2>1
  <2>6. \A e \in Discovered(w, listed, answers) : e \in Found
    BY DiscoveredType
  <2>7. found' \in [WorkUnits -> SUBSET Found]
    BY <2>5, <2>6
  <2>8. phase' \in [WorkUnits -> Phases]
    BY <1>4 DEF Discover, Phases
  <2>. QED
    BY <1>4, <2>4, <2>7, <2>8 DEF Discover
<1>5. ASSUME NEW w \in WorkUnits, Merge(w) PROVE TypeOK'
  <2>1. BroughtBack(w) \in Sweep
    BY DEF BroughtBack, MergedTiers, Sweep
  <2>2. [t \in Tiers |-> {e.file : e \in OfTier(w, t)}] \in [Tiers -> SUBSET File]
    BY DEF OfTier, Found
  <2>3. merged' \in [WorkUnits -> [Tiers -> SUBSET File]]
    BY <1>5, <2>2 DEF Merge
  <2>. QED
    BY <1>5, <2>1, <2>3 DEF Merge, Phases
<1>6. ASSUME NEW w \in WorkUnits, MergeFails(w) PROVE TypeOK'
  BY <1>1, <1>6 DEF MergeFails, SweptAfterFailure, Phases
<1>7. ASSUME NEW w \in WorkUnits, CleanupStarts(w) PROVE TypeOK'
  BY <1>7 DEF CleanupStarts, Phases
<1>8. ASSUME NEW w \in WorkUnits, Cleanup(w) PROVE TypeOK'
  <2>1. store' \subseteq File /\ manifests' \subseteq WorkUnits \X Sites \X Procs
    BY <1>8 DEF Cleanup
  <2>2. faults' = faults \/ (faults < MaxFaults /\ faults' = faults + 1)
    BY <1>8 DEF Cleanup
  <2>3. faults' \in 0..MaxFaults
    BY <1>0, <2>2
  <2>. QED
    BY <1>8, <2>1, <2>3 DEF Cleanup, Phases
<1>9. ASSUME NEW w \in WorkUnits, CleanupFails(w) PROVE TypeOK'
  BY <1>1, <1>9 DEF CleanupFails, Phases
<1>10. ASSUME NEW w \in WorkUnits, WuRetry(w) PROVE TypeOK'
  <2>1. wuTries[w] + 1 \in 0..WuRetries
    BY <1>10, UnmergedAssumption DEF WuRetry, MayRetry
  <2>2. wuTries' \in [WorkUnits -> 0..WuRetries]
    BY <1>10, <2>1 DEF WuRetry
  <2>3. site' \in [WorkUnits -> Sites]
    BY <1>10 DEF WuRetry
  <2>4. phase' \in [WorkUnits -> Phases] /\ staged' \in [WorkUnits -> SUBSET Procs]
    BY <1>10 DEF WuRetry, Phases
  <2>. QED
    BY <1>1, <1>10, <2>2, <2>3, <2>4 DEF WuRetry
<1>11. ASSUME UNCHANGED vars PROVE TypeOK'
  BY <1>11 DEF vars
<1>. QED
  BY <1>2, <1>3, <1>4, <1>5, <1>6, <1>7, <1>8, <1>9, <1>10, <1>11 DEF Next

\* Every variable keeps its type, for any number of work units, jobs, datasets,
\* retries and faults; the bound on the reruns is kept.
THEOREM UnmergedTypes == Spec => []TypeOK
<1>1. Init => TypeOK
  BY UnmergedAssumption DEF Init, TypeOK, Phases, NothingMerged, Sweep
<1>. QED
  BY <1>1, TypeStep, PTL DEF Spec

-------------------------------------------------------------------------------
(* What the name of a file tells.  Every attempt of a job gives its files the *)
(* same names, so that two files of one job in one merge are the same file:   *)
(* the merge is of one site, and a later merge replaces an earlier one.       *)

FoundNamed ==
    \A w \in WorkUnits : phase[w] = "merging" =>
        \A e \in found[w] : Named(e.file) /\ e.file.wu = w /\ e.file.site = site[w]

MergedNamed ==
    \A w \in WorkUnits, t \in Tiers :
        /\ \A f \in merged[w][t] : Named(f) /\ f.wu = w /\ f.tier = t
        /\ \A f, g \in merged[w][t] : f.site = g.site

Naming == (\A f \in store : Named(f)) /\ FoundNamed /\ MergedNamed

\* Every step keeps the names and the sites of the merges.
LEMMA NamingStep == TypeOK /\ Naming /\ [Next]_vars => Naming'
<1>. SUFFICES ASSUME TypeOK, Naming, [Next]_vars PROVE Naming'
  OBVIOUS
<1>. USE DEF Naming
<1>0. \A w \in WorkUnits : merged[w] \in [Tiers -> SUBSET File]
  BY DEF TypeOK
<1>1. ASSUME NEW w \in WorkUnits, NEW p \in Procs, StageOut(w, p) \/ StageOutFails(w, p)
      PROVE  Naming'
  <2>1. \A t \in Tiers : Named(Output(w, p, t))
    BY OutputType
  <2>2. \A f \in store' : Named(f)
    BY <1>1, <2>1 DEF StageOut, StageOutFails
  <2>3. UNCHANGED <<site, found, merged>>
    BY <1>1 DEF StageOut, StageOutFails
  <2>4. \A v \in WorkUnits : phase'[v] = "merging" => phase[v] = "merging"
    BY <1>1 DEF StageOut, StageOutFails, TypeOK
  <2>. QED
    BY <2>2, <2>3, <2>4 DEF FoundNamed, MergedNamed, Named
<1>2. ASSUME NEW w \in WorkUnits, Discover(w) PROVE Naming'
  <2>1. PICK listed \in SUBSET Tiers, answers \in SUBSET WithManifest(w) :
           found' = [found EXCEPT ![w] =
                        {e \in Discovered(w, listed, answers) :
                            e.file.name.proc \in Informed(w, listed, answers)}]
    BY <1>2 DEF Discover
  <2>2. \A e \in Discovered(w, listed, answers) :
            Named(e.file) /\ e.file.wu = w /\ e.file.site = site[w]
    BY DiscoveredType
  <2>3. found'[w] \subseteq Discovered(w, listed, answers)
    BY <2>1 DEF TypeOK
  <2>4. \A v \in WorkUnits : v # w => found'[v] = found[v] /\ phase'[v] = phase[v]
    BY <1>2, <2>1 DEF Discover, TypeOK
  <2>5. UNCHANGED <<site, store, merged>>
    BY <1>2 DEF Discover
  <2>6. FoundNamed'
    <3>. SUFFICES ASSUME NEW v \in WorkUnits, phase'[v] = "merging", NEW e \in found'[v]
                  PROVE  Named(e.file) /\ e.file.wu = v /\ e.file.site = site'[v]
      BY DEF FoundNamed, Named
    <3>1. CASE v = w
      BY <2>2, <2>3, <2>5, <3>1
    <3>2. CASE v # w
      BY <2>4, <2>5, <3>2 DEF FoundNamed
    <3>. QED
      BY <3>1, <3>2
  <2>. QED
    BY <2>5, <2>6 DEF MergedNamed, Named
<1>3. ASSUME NEW w \in WorkUnits, Merge(w) PROVE Naming'
  <2>1. \A t \in Tiers : merged'[w][t] = {e.file : e \in OfTier(w, t)}
    BY <1>3 DEF Merge, TypeOK
  <2>2. \A v \in WorkUnits : v # w => merged'[v] = merged[v] /\ phase'[v] = phase[v]
    BY <1>3 DEF Merge, TypeOK
  <2>3. phase[w] = "merging" /\ phase'[w] = "cleanup" /\ UNCHANGED <<site, store, found>>
    BY <1>3 DEF Merge, TypeOK
  <2>4. \A e \in found[w] : Named(e.file) /\ e.file.wu = w /\ e.file.site = site[w]
    BY <2>3 DEF FoundNamed
  <2>5. \A t \in Tiers : \A f \in merged'[w][t] :
            Named(f) /\ f.wu = w /\ f.tier = t /\ f.site = site[w]
    BY <2>1, <2>4 DEF OfTier
  <2>6. MergedNamed'
    <3>. SUFFICES ASSUME NEW v \in WorkUnits, NEW t \in Tiers
                  PROVE  /\ \A f \in merged'[v][t] : Named(f) /\ f.wu = v /\ f.tier = t
                         /\ \A f, g \in merged'[v][t] : f.site = g.site
      BY DEF MergedNamed, Named
    <3>1. CASE v = w
      BY <2>5, <3>1
    <3>2. CASE v # w
      BY <2>2, <3>2 DEF MergedNamed
    <3>. QED
      BY <3>1, <3>2
  <2>7. FoundNamed'
    BY <2>2, <2>3 DEF FoundNamed, Named
  <2>. QED
    BY <2>3, <2>6, <2>7 DEF Named
<1>4. ASSUME NEW w \in WorkUnits,
             MergeFails(w) \/ CleanupStarts(w) \/ Cleanup(w) \/ CleanupFails(w)
      PROVE  Naming'
  <2>1. UNCHANGED <<site, found, merged>> /\ store' \subseteq store
    BY <1>4 DEF MergeFails, CleanupStarts, Cleanup, CleanupFails
  <2>2. \A v \in WorkUnits : phase'[v] = "merging" => phase[v] = "merging"
    BY <1>4 DEF MergeFails, CleanupStarts, Cleanup, CleanupFails, TypeOK
  <2>. QED
    BY <2>1, <2>2 DEF FoundNamed, MergedNamed, Named
<1>5. ASSUME NEW w \in WorkUnits, WuRetry(w) PROVE Naming'
  <2>1. phase'[w] = "proc" /\ UNCHANGED <<found, merged, store>>
    BY <1>5 DEF WuRetry, TypeOK
  <2>2. \A v \in WorkUnits : v # w => phase'[v] = phase[v] /\ site'[v] = site[v]
    BY <1>5 DEF WuRetry, TypeOK
  <2>. QED
    BY <2>1, <2>2 DEF FoundNamed, MergedNamed, Named
<1>6. ASSUME UNCHANGED vars PROVE Naming'
  BY <1>6 DEF vars, FoundNamed, MergedNamed, Named
<1>. QED
  BY <1>1, <1>2, <1>3, <1>4, <1>5, <1>6 DEF Next

\* Two files of one job in one merge have the same work unit, site, tier and
\* name: they are one file.
LEMMA NamedOnce == TypeOK /\ MergedNamed => MergedOnce
<1>. SUFFICES ASSUME TypeOK, MergedNamed, NEW w \in WorkUnits, NEW t \in Tiers,
                     NEW f \in merged[w][t], NEW g \in merged[w][t], f.proc = g.proc
              PROVE  f = g
  BY DEF MergedOnce
<1>1. f \in File /\ g \in File
  BY DEF TypeOK
<1>2. /\ Named(f) /\ f.wu = w /\ f.tier = t
      /\ Named(g) /\ g.wu = w /\ g.tier = t
      /\ f.site = g.site
  BY DEF MergedNamed
<1>3. f.name = g.name
  BY <1>2 DEF Named
<1>. QED
  BY <1>1, <1>2, <1>3 DEF File

\* Every output is at most once in the merged files, whatever failed before: the
\* names that process_outputs gives depend on the job and not on the attempt.
THEOREM OutputsMergedOnce == Spec => []MergedOnce
<1>1. Init => Naming
  BY DEF Init, Naming, FoundNamed, MergedNamed, NothingMerged
<1>2. TypeOK /\ Naming => MergedOnce
  BY NamedOnce DEF Naming
<1>. QED
  BY <1>1, <1>2, NamingStep, UnmergedTypes, PTL DEF Spec

-------------------------------------------------------------------------------
(* What a cleanup may remove.  The cleanup manifest in the spool directory is *)
(* that of whichever work unit merged last, and a cleanup job works from the  *)
(* copy it got; both only name directories of work units whose merge is done, *)
(* and of datasets it has files of.  A work unit that runs again after its    *)
(* merge would break this, so the theorems assume that none does: wu_post.sh  *)
(* runs one again when its processing or its merge has failed for good.       *)

Staging == {"proc", "merge", "merging"}

\* The outputs of the jobs that are done, in the unmerged area.
OutputsThere(w) == \A p \in staged[w], t \in Tiers : Output(w, p, t) \in store

Present ==
    \A w \in WorkUnits : phase[w] \in Staging =>
        OutputsThere(w) /\ \A p \in staged[w] : <<w, site[w], p>> \in manifests

Swept(w, t) == <<w, t>> \in swept \/ \E v \in WorkUnits : <<w, t>> \in sweeping[v]

SweptMerged ==
    \A w \in WorkUnits, t \in Tiers : Swept(w, t) => phase[w] \in After /\ merged[w][t] # {}

Keeping == Present /\ SweptMerged /\ SkippedIsKept

\* A step that leaves a work unit, its outputs and its merge alone.
LEMMA OutputStays ==
    ASSUME NEW w, NEW p, NEW t, site'[w] = site[w]
    PROVE  Output(w, p, t)' = Output(w, p, t)
BY DEF Output, OutputName

\* Every step keeps the files of a work unit until its cleanup.
LEMMA KeepingStep ==
    ASSUME "cleanup" \notin RetriedIn, TypeOK, Keeping, [Next]_vars
    PROVE  Keeping'
<1>. USE DEF Keeping
<1>1. ASSUME NEW w \in WorkUnits, NEW p \in Procs, StageOut(w, p) PROVE Keeping'
  <2>1. /\ UNCHANGED <<site, merged, swept, sweeping>>
        /\ store \subseteq store' /\ manifests \subseteq manifests'
        /\ \A t \in Tiers : Output(w, p, t) \in store'
        /\ <<w, site[w], p>> \in manifests'
    BY <1>1 DEF StageOut
  <2>2. /\ staged'[w] = staged[w] \cup {p} /\ phase[w] = "proc" /\ phase'[w] \in {"proc", "merge"}
        /\ \A v \in WorkUnits : v # w => staged'[v] = staged[v] /\ phase'[v] = phase[v]
    BY <1>1 DEF StageOut, TypeOK
  <2>3. Present'
    <3>. SUFFICES ASSUME NEW v \in WorkUnits, phase'[v] \in Staging, NEW q \in staged'[v]
                  PROVE  /\ \A t \in Tiers : Output(v, q, t) \in store'
                         /\ <<v, site[v], q>> \in manifests'
      BY <2>1 DEF Present, OutputsThere, Output, OutputName
    <3>1. CASE v = w /\ q = p
      BY <2>1, <3>1
    <3>2. CASE v # w \/ q # p
      <4>1. q \in staged[v] /\ phase[v] \in Staging
        BY <2>2, <3>2 DEF Staging
      <4>. QED
        BY <2>1, <4>1 DEF Present, OutputsThere
    <3>. QED
      BY <3>1, <3>2
  <2>4. \A v \in WorkUnits : phase'[v] \in After <=> phase[v] \in After
    BY <2>2 DEF After
  <2>5. SweptMerged'
    BY <2>1, <2>4 DEF SweptMerged, Swept
  <2>6. SkippedIsKept'
    <3>. SUFFICES ASSUME NEW v \in WorkUnits, NEW t \in Tiers, phase'[v] \in After,
                         merged[v][t] = {}, NEW q \in staged'[v]
                  PROVE  Output(v, q, t) \in store'
      BY <2>1 DEF SkippedIsKept, After, Output, OutputName
    <3>1. v # w
      BY <2>2 DEF After
    <3>. QED
      BY <2>1, <2>2, <3>1 DEF SkippedIsKept, After
  <2>. QED
    BY <2>3, <2>5, <2>6
<1>2. ASSUME NEW w \in WorkUnits, NEW p \in Procs, StageOutFails(w, p) PROVE Keeping'
  <2>1. UNCHANGED <<site, phase, staged, manifests, merged, swept, sweeping>> /\ store \subseteq store'
    BY <1>2 DEF StageOutFails
  <2>. QED
    BY <2>1 DEF Present, OutputsThere, SweptMerged, Swept, SkippedIsKept, Output, OutputName
<1>3. ASSUME NEW w \in WorkUnits, Discover(w) \/ MergeFails(w) PROVE Keeping'
  <2>1. UNCHANGED <<site, staged, store, manifests, merged, swept, sweeping>>
    BY <1>3 DEF Discover, MergeFails, SweptAfterFailure
  <2>2. /\ phase[w] \in Staging /\ phase'[w] \in Staging
        /\ \A v \in WorkUnits : v # w => phase'[v] = phase[v]
    BY <1>3 DEF Discover, MergeFails, Staging, TypeOK
  <2>3. \A v \in WorkUnits : /\ phase'[v] \in Staging <=> phase[v] \in Staging
                             /\ phase'[v] \in After <=> phase[v] \in After
    BY <2>2 DEF Staging, After
  <2>. QED
    BY <2>1, <2>3 DEF Present, OutputsThere, SweptMerged, Swept, SkippedIsKept, After, Output, OutputName
<1>4. ASSUME NEW w \in WorkUnits, Merge(w) PROVE Keeping'
  <2>1. UNCHANGED <<site, staged, store, manifests, sweeping>>
    BY <1>4 DEF Merge
  <2>2. /\ phase[w] = "merging" /\ phase'[w] = "cleanup"
        /\ \A v \in WorkUnits : v # w => merged'[v] = merged[v] /\ phase'[v] = phase[v]
    BY <1>4 DEF Merge, TypeOK
  <2>3. \A t \in Tiers : <<w, t>> \in swept' => merged'[w][t] # {}
    <3>1. \A t \in Tiers : <<w, t>> \in swept' => OfTier(w, t) # {}
      BY <1>4 DEF Merge, BroughtBack, MergedTiers
    <3>2. \A t \in Tiers : merged'[w][t] = {e.file : e \in OfTier(w, t)}
      BY <1>4 DEF Merge, TypeOK
    <3>. QED
      BY <3>1, <3>2
  <2>4. \A v \in WorkUnits, t \in Tiers : <<v, t>> \in swept' => v = w
    BY <1>4 DEF Merge, BroughtBack
  <2>5. Present'
    BY <2>1, <2>2 DEF Present, OutputsThere, Staging, Output, OutputName
  <2>6. SweptMerged'
    <3>. SUFFICES ASSUME NEW v \in WorkUnits, NEW t \in Tiers, Swept(v, t)'
                  PROVE  phase'[v] \in After /\ merged'[v][t] # {}
      BY DEF SweptMerged
    <3>1. CASE <<v, t>> \in swept'
      BY <2>2, <2>3, <2>4, <3>1 DEF After
    <3>2. CASE \E u \in WorkUnits : <<v, t>> \in sweeping[u]
      <4>1. phase[v] \in After /\ merged[v][t] # {}
        BY <3>2 DEF SweptMerged, Swept
      <4>2. v # w
        BY <2>2, <4>1 DEF After
      <4>. QED
        BY <2>2, <4>1, <4>2
    <3>. QED
      BY <2>1, <3>1, <3>2 DEF Swept
  <2>7. SkippedIsKept'
    <3>. SUFFICES ASSUME NEW v \in WorkUnits, NEW t \in Tiers, phase'[v] \in After,
                         merged'[v][t] = {}, NEW q \in staged[v]
                  PROVE  Output(v, q, t) \in store
      BY <2>1 DEF SkippedIsKept, After, Output, OutputName
    <3>1. CASE v = w
      BY <2>2, <3>1 DEF Present, OutputsThere, Staging
    <3>2. CASE v # w
      BY <2>2, <3>2 DEF SkippedIsKept, After
    <3>. QED
      BY <3>1, <3>2
  <2>. QED
    BY <2>5, <2>6, <2>7
<1>5. ASSUME NEW w \in WorkUnits, CleanupStarts(w) PROVE Keeping'
  <2>1. UNCHANGED <<site, staged, store, manifests, merged, swept>>
    BY <1>5 DEF CleanupStarts
  <2>2. /\ \A v \in WorkUnits : /\ phase'[v] \in Staging <=> phase[v] \in Staging
                                /\ phase'[v] \in After <=> phase[v] \in After
    BY <1>5 DEF CleanupStarts, TypeOK, Staging, After
  <2>3. \A v \in WorkUnits : sweeping'[v] = sweeping[v] \/ sweeping'[v] = swept
    BY <1>5 DEF CleanupStarts, TypeOK
  <2>4. \A v \in WorkUnits, t \in Tiers : Swept(v, t)' => Swept(v, t)
    BY <2>1, <2>3 DEF Swept
  <2>. QED
    BY <2>1, <2>2, <2>4 DEF Present, OutputsThere, SweptMerged, SkippedIsKept, After, Output, OutputName
<1>6. ASSUME NEW w \in WorkUnits, Cleanup(w) PROVE Keeping'
  <2>1. UNCHANGED <<site, staged, merged, swept, sweeping>>
    BY <1>6 DEF Cleanup
  <2>2. /\ \A v \in WorkUnits : /\ phase'[v] \in Staging <=> phase[v] \in Staging
                                /\ phase'[v] \in After <=> phase[v] \in After
    BY <1>6 DEF Cleanup, TypeOK, Staging, After
  <2>3. PICK removed \in SUBSET sweeping[w] :
           /\ store' = {f \in store : f.site # site[w] \/ <<f.wu, f.tier>> \notin removed}
           /\ manifests' = {m \in manifests : m[2] # site[w] \/ <<m[1], First>> \notin removed}
    BY <1>6 DEF Cleanup
  <2>4. \A v \in WorkUnits, t \in Tiers :
            <<v, t>> \in removed => phase[v] \in After /\ merged[v][t] # {}
    BY <2>3 DEF SweptMerged, Swept
  <2>5. Present'
    <3>. SUFFICES ASSUME NEW v \in WorkUnits, phase[v] \in Staging, NEW q \in staged[v]
                  PROVE  /\ \A t \in Tiers : Output(v, q, t) \in store'
                         /\ <<v, site[v], q>> \in manifests'
      BY <2>1, <2>2 DEF Present, OutputsThere, Output, OutputName
    <3>1. \A t \in Tiers : <<v, t>> \notin removed
      BY <2>4 DEF Staging, After
    <3>2. /\ \A t \in Tiers : Output(v, q, t) \in store
          /\ <<v, site[v], q>> \in manifests
      BY DEF Present, OutputsThere
    <3>3. \A t \in Tiers : Output(v, q, t).wu = v /\ Output(v, q, t).tier = t
      BY DEF Output
    <3>4. <<v, First>> \notin removed
      BY <3>1, UnmergedAssumption
    <3>. QED
      BY <2>3, <3>1, <3>2, <3>3, <3>4
  <2>6. SweptMerged'
    BY <2>1, <2>2 DEF SweptMerged, Swept
  <2>7. SkippedIsKept'
    <3>. SUFFICES ASSUME NEW v \in WorkUnits, NEW t \in Tiers, phase[v] \in After,
                         merged[v][t] = {}, NEW q \in staged[v]
                  PROVE  Output(v, q, t) \in store'
      BY <2>1, <2>2 DEF SkippedIsKept, After, Output, OutputName
    <3>1. <<v, t>> \notin removed
      BY <2>4
    <3>2. Output(v, q, t) \in store
      BY DEF SkippedIsKept, After
    <3>3. Output(v, q, t).wu = v /\ Output(v, q, t).tier = t
      BY DEF Output
    <3>. QED
      BY <2>3, <3>1, <3>2, <3>3
  <2>. QED
    BY <2>5, <2>6, <2>7
<1>7. ASSUME NEW w \in WorkUnits, CleanupFails(w) PROVE Keeping'
  <2>1. UNCHANGED <<site, staged, store, manifests, merged, swept, sweeping>>
    BY <1>7 DEF CleanupFails
  <2>2. /\ \A v \in WorkUnits : /\ phase'[v] \in Staging <=> phase[v] \in Staging
                                /\ phase'[v] \in After <=> phase[v] \in After
    BY <1>7 DEF CleanupFails, TypeOK, Staging, After
  <2>. QED
    BY <2>1, <2>2 DEF Present, OutputsThere, SweptMerged, Swept, SkippedIsKept, After, Output, OutputName
<1>8. ASSUME NEW w \in WorkUnits, WuRetry(w) PROVE Keeping'
  <2>1. UNCHANGED <<store, manifests, merged, swept, sweeping>>
    BY <1>8 DEF WuRetry
  <2>2. phase[w] \in {"proc", "merge"}
    BY <1>8, UnmergedAssumption DEF WuRetry
  <2>3. /\ phase'[w] = "proc" /\ staged'[w] = {}
        /\ \A v \in WorkUnits : v # w => phase'[v] = phase[v] /\ staged'[v] = staged[v] /\ site'[v] = site[v]
    BY <1>8 DEF WuRetry, TypeOK
  <2>4. Present'
    <3>. SUFFICES ASSUME NEW v \in WorkUnits, phase'[v] \in Staging, NEW q \in staged'[v]
                  PROVE  /\ \A t \in Tiers : Output(v, q, t)' \in store
                         /\ <<v, site'[v], q>> \in manifests
      BY <2>1 DEF Present, OutputsThere
    <3>1. v # w
      BY <2>3
    <3>. QED
      BY <2>3, <3>1, OutputStays DEF Present, OutputsThere
  <2>5. \A v \in WorkUnits : phase'[v] \in After <=> phase[v] \in After
    BY <2>2, <2>3 DEF After
  <2>6. SweptMerged'
    BY <2>1, <2>5 DEF SweptMerged, Swept
  <2>7. SkippedIsKept'
    <3>. SUFFICES ASSUME NEW v \in WorkUnits, NEW t \in Tiers, phase'[v] \in After,
                         merged[v][t] = {}, NEW q \in staged'[v]
                  PROVE  Output(v, q, t)' \in store
      BY <2>1 DEF SkippedIsKept, After
    <3>1. v # w
      BY <2>3
    <3>. QED
      BY <2>3, <3>1, OutputStays DEF SkippedIsKept, After
  <2>. QED
    BY <2>4, <2>6, <2>7
<1>9. ASSUME UNCHANGED vars PROVE Keeping'
  BY <1>9 DEF vars, Present, OutputsThere, SweptMerged, Swept, SkippedIsKept, After, Output, OutputName
<1>. QED
  BY <1>1, <1>2, <1>3, <1>4, <1>5, <1>6, <1>7, <1>8, <1>9 DEF Next

\* The files are kept in every state.
LEMMA KeepingInvariant ==
    ASSUME "cleanup" \notin RetriedIn
    PROVE  Spec => []Keeping
<1>1. Init => Keeping
  BY DEF Init, Keeping, Present, OutputsThere, SweptMerged, Swept, SkippedIsKept, After
<1>2. TypeOK /\ Keeping /\ [Next]_vars => Keeping'
  BY KeepingStep
<1>. QED
  BY <1>1, <1>2, UnmergedTypes, PTL DEF Spec

\* A cleanup removes no directory of which nothing was merged: the manifest
\* condora_merge.py writes names the directories it merged and no other, and it
\* is the one that condora_cleanup.py works from, whosever it is.
THEOREM SkippedFilesKept ==
    ASSUME "cleanup" \notin RetriedIn
    PROVE  Spec => []SkippedIsKept
<1>1. Keeping => SkippedIsKept
  BY DEF Keeping
<1>. QED
  BY <1>1, KeepingInvariant, PTL

-------------------------------------------------------------------------------
(* What a merge takes.  As long as no listing failed, the merge job discovers *)
(* every output of its work unit: all jobs are done when it starts, and their *)
(* files and manifests are still there.                                       *)

Complete ==
    listFaults = 0 => \A w \in WorkUnits : \A p \in staged[w], t \in Tiers :
        /\ phase[w] = "merging" => [file |-> Output(w, p, t), dir |-> t] \in found[w]
        /\ phase[w] \in After => Merged(w, p, t)

\* Without a failed listing every step keeps merges complete.
LEMMA CompleteStep ==
    ASSUME TypeOK, Present, Complete, [Next]_vars
    PROVE  Complete'
<1>0. \A v \in WorkUnits : staged[v] \subseteq Procs
  BY DEF TypeOK
<1>1. ASSUME NEW w \in WorkUnits, NEW p \in Procs, StageOut(w, p) PROVE Complete'
  <2>1. UNCHANGED <<site, found, merged, listFaults>>
    BY <1>1 DEF StageOut
  <2>2. /\ phase'[w] \in {"proc", "merge"}
        /\ \A v \in WorkUnits : v # w => staged'[v] = staged[v] /\ phase'[v] = phase[v]
    BY <1>1 DEF StageOut, TypeOK
  <2>3. phase'[w] # "merging" /\ phase'[w] \notin After
    BY <2>2 DEF After
  <2>. QED
    BY <2>1, <2>2, <2>3 DEF Complete, Merged, Output, OutputName
<1>2. ASSUME NEW w \in WorkUnits, NEW p \in Procs, StageOutFails(w, p) PROVE Complete'
  <2>1. UNCHANGED <<site, phase, staged, found, merged, listFaults>>
    BY <1>2 DEF StageOutFails
  <2>. QED
    BY <2>1 DEF Complete, Merged, Output, OutputName
<1>3. ASSUME NEW w \in WorkUnits, Discover(w) PROVE Complete'
  <2>1. PICK listed \in SUBSET Tiers :
           LET failed == {t \in Tiers \ listed : InDir(w, t) # {}}
           IN  /\ listFaults' = listFaults + Cardinality(failed)
               /\ \E answers \in SUBSET WithManifest(w) :
                     found' = [found EXCEPT ![w] =
                          {e \in Discovered(w, listed, answers) :
                              e.file.name.proc \in Informed(w, listed, answers)}]
    BY <1>3 DEF Discover
  <2>2. PICK answers \in SUBSET WithManifest(w) :
           found' = [found EXCEPT ![w] =
                        {e \in Discovered(w, listed, answers) :
                            e.file.name.proc \in Informed(w, listed, answers)}]
    BY <2>1
  <2>. DEFINE failed == {t \in Tiers \ listed : InDir(w, t) # {}}
  <2>3. listFaults' = listFaults + Cardinality(failed)
    BY <2>1
  <2>4. IsFiniteSet(failed)
    BY UnmergedAssumption, FS_Subset
  <2>5. Cardinality(failed) \in Nat /\ (Cardinality(failed) = 0 <=> failed = {})
    BY <2>4, FS_CardinalityType, FS_EmptySet
  <2>6. listFaults' = 0 => listFaults = 0 /\ failed = {}
    <3>. HIDE DEF failed
    <3>1. listFaults \in Nat
      BY DEF TypeOK
    <3>. QED
      BY <2>3, <2>5, <3>1
  <2>7. UNCHANGED <<site, staged, store, merged>>
    BY <1>3 DEF Discover
  <2>8. /\ phase[w] = "merge" /\ phase'[w] = "merging"
        /\ \A v \in WorkUnits : v # w => found'[v] = found[v] /\ phase'[v] = phase[v]
    BY <1>3, <2>2 DEF Discover, TypeOK
  <2>9. found'[w] = {e \in Discovered(w, listed, answers) :
                        e.file.name.proc \in Informed(w, listed, answers)}
    BY <2>2 DEF TypeOK
  <2>10. SUFFICES ASSUME listFaults' = 0, NEW v \in WorkUnits, NEW p \in staged[v], NEW t \in Tiers
                  PROVE  /\ phase'[v] = "merging" => [file |-> Output(v, p, t), dir |-> t] \in found'[v]
                         /\ phase'[v] \in After => Merged(v, p, t)
    BY <2>7 DEF Complete, Merged, Output, OutputName
  <2>11. CASE v # w
    BY <2>6, <2>8, <2>10, <2>11 DEF Complete
  <2>12. CASE v = w
    <3>1. p \in Procs /\ (\A u \in Tiers : Output(w, p, u) \in store) /\ p \in WithManifest(w)
      BY <1>0, <2>8, <2>12 DEF Present, OutputsThere, Staging, WithManifest
    <3>2. \A u \in Tiers \ listed : InDir(w, u) = {}
      BY <2>6, <2>10
    <3>3. /\ [file |-> Output(w, p, t), dir |-> t] \in Discovered(w, listed, answers)
          /\ p \in Informed(w, listed, answers)
      BY <3>1, <3>2, DiscoveredComplete
    <3>4. Output(w, p, t).name.proc = p
      BY <3>1, OutputType
    <3>5. [file |-> Output(w, p, t), dir |-> t] \in found'[w]
      BY <2>9, <3>3, <3>4
    <3>6. phase'[w] \notin After
      BY <2>8 DEF After
    <3>. QED
      BY <2>12, <3>5, <3>6
  <2>. QED
    BY <2>11, <2>12
<1>4. ASSUME NEW w \in WorkUnits, Merge(w) PROVE Complete'
  <2>1. UNCHANGED <<site, staged, store, found, listFaults>>
    BY <1>4 DEF Merge
  <2>2. /\ phase[w] = "merging" /\ phase'[w] = "cleanup"
        /\ \A v \in WorkUnits : v # w => merged'[v] = merged[v] /\ phase'[v] = phase[v]
    BY <1>4 DEF Merge, TypeOK
  <2>3. \A t \in Tiers : merged'[w][t] = {e.file : e \in OfTier(w, t)}
    BY <1>4 DEF Merge, TypeOK
  <2>4. SUFFICES ASSUME listFaults = 0, NEW v \in WorkUnits, NEW p \in staged[v], NEW t \in Tiers
                 PROVE  /\ phase'[v] = "merging" => [file |-> Output(v, p, t), dir |-> t] \in found[v]
                        /\ phase'[v] \in After => \E f \in merged'[v][t] : f.proc = p
    BY <2>1 DEF Complete, Merged, Output, OutputName
  <2>5. CASE v # w
    BY <2>2, <2>4, <2>5 DEF Complete, Merged
  <2>6. CASE v = w
    <3>1. [file |-> Output(w, p, t), dir |-> t] \in found[w]
      BY <2>2, <2>4, <2>6 DEF Complete
    <3>2. Output(w, p, t).tier = t /\ Output(w, p, t).proc = p
      BY DEF Output
    <3>3. Output(w, p, t) \in merged'[w][t]
      BY <2>3, <3>1, <3>2 DEF OfTier
    <3>. QED
      BY <2>2, <2>6, <3>2, <3>3
  <2>. QED
    BY <2>5, <2>6
<1>5. ASSUME NEW w \in WorkUnits,
             MergeFails(w) \/ CleanupStarts(w) \/ Cleanup(w) \/ CleanupFails(w)
      PROVE  Complete'
  <2>1. UNCHANGED <<site, staged, found, merged, listFaults>>
    BY <1>5 DEF MergeFails, CleanupStarts, Cleanup, CleanupFails
  <2>2. \A v \in WorkUnits : /\ phase'[v] = "merging" => phase[v] = "merging"
                             /\ phase'[v] \in After => phase[v] \in After
    BY <1>5 DEF MergeFails, CleanupStarts, Cleanup, CleanupFails, After, TypeOK
  <2>. QED
    BY <2>1, <2>2 DEF Complete, Merged, Output, OutputName
<1>6. ASSUME NEW w \in WorkUnits, WuRetry(w) PROVE Complete'
  <2>1. UNCHANGED <<found, merged, listFaults>>
    BY <1>6 DEF WuRetry
  <2>2. /\ staged'[w] = {}
        /\ \A v \in WorkUnits : v # w => phase'[v] = phase[v] /\ staged'[v] = staged[v] /\ site'[v] = site[v]
    BY <1>6 DEF WuRetry, TypeOK
  <2>3. SUFFICES ASSUME listFaults = 0, NEW v \in WorkUnits, NEW p \in staged'[v], NEW t \in Tiers
                 PROVE  (/\ phase[v] = "merging" => [file |-> Output(v, p, t), dir |-> t] \in found[v]
                         /\ phase[v] \in After => Merged(v, p, t))'
    BY <2>1 DEF Complete
  <2>4. v # w /\ phase'[v] = phase[v] /\ staged'[v] = staged[v] /\ site'[v] = site[v]
    BY <2>2, <2>3
  <2>5. /\ phase[v] = "merging" => [file |-> Output(v, p, t), dir |-> t] \in found[v]
        /\ phase[v] \in After => Merged(v, p, t)
    BY <2>3, <2>4 DEF Complete
  <2>6. Output(v, p, t)' = Output(v, p, t) /\ (Merged(v, p, t)' <=> Merged(v, p, t))
    BY <2>1, <2>4 DEF Output, OutputName, Merged
  <2>. QED
    BY <2>1, <2>4, <2>5, <2>6
<1>7. ASSUME UNCHANGED vars PROVE Complete'
  BY <1>7 DEF vars, Complete, Merged, Output, OutputName
<1>. QED
  BY <1>1, <1>2, <1>3, <1>4, <1>5, <1>6, <1>7 DEF Next

\* No output of a processing job is lost while no listing fails, whatever
\* stage-outs, merges and cleanups fail, and although the work units of a DAG
\* share one cleanup manifest: for every number of work units and datasets.
THEOREM NoOutputLost ==
    ASSUME "cleanup" \notin RetriedIn
    PROVE  Spec => []NothingLost
<1>1. Init => Complete
  BY DEF Init, Complete
<1>2. TypeOK /\ Keeping /\ Complete /\ [Next]_vars => Complete'
  BY CompleteStep DEF Keeping
<1>3. TypeOK /\ Keeping /\ Complete => NothingLost
  <2>1. TypeOK => \A w \in WorkUnits : phase[w] \in Staging \/ phase[w] \in After
    BY DEF TypeOK, Phases, Staging, After
  <2>. QED
    BY <2>1 DEF Keeping, Present, OutputsThere, Complete, NothingLost, After
<1>. QED
  BY <1>1, <1>2, <1>3, UnmergedTypes, KeepingInvariant, PTL DEF Spec

===============================================================================
