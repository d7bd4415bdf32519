---------------------------- MODULE UnmergedFiles -----------------------------
(***************************************************************************)
(* The files of the work units of one DAG between the processing jobs and  *)
(* the merged datasets, in grid and spool mode: the stage-out of the       *)
(* processing wrapper, the discovery and the merge of condora_merge.py and *)
(* the removal by condora_cleanup.py, all scripts that core/dag_planner.py *)
(* generates.                                                              *)
(*                                                                         *)
(* An output is the file of one tier that one processing job makes; its    *)
(* dataset has an unmerged directory per work unit at every site.  Several *)
(* rounds of a request are outside: their directories carry no round.      *)
(***************************************************************************)
EXTENDS Naturals, FiniteSets

CONSTANTS
    WorkUnits, Procs, Tiers, Sites,
    First,        \* the dataset whose directory also gets the jobs' manifests
    WuRetries,    \* wu_retry_count
    RetriedIn,    \* bound: the stages after which wu_post.sh has it run again
    MaxFaults,    \* bound: stage-outs, merges and cleanups that fail
    MaxListFaults \* bound: listings that fail

ASSUME UnmergedAssumption ==
    /\ IsFiniteSet(Tiers) /\ First \in Tiers /\ RetriedIn \subseteq {"proc", "merge", "cleanup"}
    /\ WuRetries \in Nat /\ MaxFaults \in Nat /\ MaxListFaults \in Nat

VARIABLES
    site,      \* the site the work unit is pinned to
    phase,     \* the stage the inner DAG is in
    wuTries,
    staged,    \* the processing jobs that are done
    attempt,   \* attempts of each processing job
    store,     \* the unmerged area
    manifests, \* the proc_*_outputs.json files in it
    found,     \* what a running merge job discovered
    merged,    \* merge_output.json of the work unit
    swept,     \* the cleanup_manifest.json in the spool directory
    sweeping,  \* the copy of it that a running cleanup job got
    faults, listFaults

vars == <<site, phase, wuTries, staged, attempt, store, manifests, found, merged, swept,
          sweeping, faults, listFaults>>

Phases == {"proc", "merge", "merging", "cleanup", "cleaning", "done"}

\* A file of the unmerged area: dir is the dataset it was staged for, name
\* what the listing tells of its job, proc whose output it is.
Name == [proc : Procs, attempt : Nat]
File == [wu : WorkUnits, site : Sites, tier : Tiers, name : Name, proc : Procs]

\* A discovered output, and the dataset in whose directory it is looked for.
Found == [file : File, dir : Tiers]
\* The directories a cleanup manifest names, without the site.
Sweep == SUBSET (WorkUnits \X Tiers)

TypeOK ==
    /\ site \in [WorkUnits -> Sites] /\ phase \in [WorkUnits -> Phases]
    /\ wuTries \in [WorkUnits -> 0..WuRetries] /\ staged \in [WorkUnits -> SUBSET Procs]
    /\ attempt \in [WorkUnits -> [Procs -> Nat]]
    /\ store \subseteq File /\ manifests \subseteq WorkUnits \X Sites \X Procs
    /\ found \in [WorkUnits -> SUBSET Found]
    /\ merged \in [WorkUnits -> [Tiers -> SUBSET File]]
    /\ swept \in Sweep /\ sweeping \in [WorkUnits -> Sweep]
    /\ faults \in 0..MaxFaults /\ listFaults \in 0..MaxListFaults

NothingMerged == [t \in Tiers |-> {}]

Init ==
    /\ site \in [WorkUnits -> Sites]
    /\ phase = [w \in WorkUnits |-> "proc"] /\ wuTries = [w \in WorkUnits |-> 0]
    /\ staged = [w \in WorkUnits |-> {}] /\ attempt = [w \in WorkUnits |-> [p \in Procs |-> 0]]
    /\ store = {} /\ manifests = {}
    /\ found = [w \in WorkUnits |-> {}] /\ merged = [w \in WorkUnits |-> NothingMerged]
    /\ swept = {} /\ sweeping = [w \in WorkUnits |-> {}]
    /\ faults = 0 /\ listFaults = 0

Fault == faults < MaxFaults /\ faults' = faults + 1

-------------------------------------------------------------------------------
(* The processing jobs: process_outputs and stage_out_to_unmerged. *)

\* mutant: a name of its own for every attempt.
FreshName(w, p) == [proc |-> p, attempt |-> attempt[w][p]]

\* proc_N_..., the same in every attempt.
OutputName(w, p) == [proc |-> p, attempt |-> 0]

Output(w, p, t) == [wu |-> w, site |-> site[w], tier |-> t, name |-> OutputName(w, p), proc |-> p]

StageOut(w, p) ==
    /\ phase[w] = "proc" /\ p \notin staged[w]
    /\ store' = store \cup {Output(w, p, t) : t \in Tiers}
    /\ manifests' = manifests \cup {<<w, site[w], p>>}
    /\ staged' = [staged EXCEPT ![w] = @ \cup {p}]
    /\ phase' = [phase EXCEPT ![w] = IF staged'[w] = Procs THEN "merge" ELSE @]
    /\ UNCHANGED <<site, wuTries, attempt, found, merged, swept, sweeping, faults, listFaults>>

\* An upload fails after some of the files: the job fails and is run again.
StageOutFails(w, p) ==
    /\ phase[w] = "proc" /\ p \notin staged[w] /\ Fault
    /\ \E some \in SUBSET Tiers : store' = store \cup {Output(w, p, t) : t \in some}
    /\ attempt' = [attempt EXCEPT ![w][p] = @ + 1]
    /\ UNCHANGED <<site, phase, wuTries, staged, manifests, found, merged, swept, sweeping, listFaults>>

-------------------------------------------------------------------------------
(* The merge job. *)

InDir(w, t) == {f \in store : f.wu = w /\ f.site = site[w] /\ f.tier = t}
WithManifest(w) == {p \in Procs : <<w, site[w], p>> \in manifests}

\* What one directory adds to the discovered files: its listing or, when that
\* fails, the names in the manifests that can be downloaded from it, of every
\* tier.  The manifests are in the directory of the first dataset only.
Listed(w, t) == {[file |-> f, dir |-> t] : f \in InDir(w, t)}
Probed(w, t, answers) ==
    {[file |-> Output(w, p, u), dir |-> t] : p \in (IF t = First THEN answers ELSE {}), u \in Tiers}

\* A name found in a second directory replaces the first.
Discovered(w, listed, answers) ==
    LET all == UNION {IF t \in listed THEN Listed(w, t) ELSE Probed(w, t, answers) : t \in Tiers}
    IN  {e \in all : e.dir # e.file.tier =>
                        [e EXCEPT !.dir = e.file.tier] \notin all}

\* The manifests that tell the tier of a file: a file of which none tells has
\* the tier "unknown", which no dataset has (the names cmsRun gives do not have
\* the form stepN_TIER.root that the script falls back to).
Informed(w, listed, answers) == IF First \in listed THEN WithManifest(w) ELSE answers

Discover(w) ==
    /\ phase[w] = "merge"
    /\ \E listed \in SUBSET Tiers :
          LET failed == {t \in Tiers \ listed : InDir(w, t) # {}}
          IN  /\ listFaults + Cardinality(failed) <= MaxListFaults
              /\ listFaults' = listFaults + Cardinality(failed)
              /\ \E answers \in SUBSET WithManifest(w) :
                    /\ First \in listed => answers = {}
                    /\ found' = [found EXCEPT ![w] =
                          {e \in Discovered(w, listed, answers) :
                              e.file.name.proc \in Informed(w, listed, answers)}]
    /\ phase' = [phase EXCEPT ![w] = "merging"]
    /\ UNCHANGED <<site, wuTries, staged, attempt, store, manifests, merged, swept, sweeping, faults>>

OfTier(w, t) == {e \in found[w] : e.file.tier = t}
Readable(e) == e.dir = e.file.tier /\ e.file \in store

\* mutant: the directories of all datasets.
AllTiers(w) == Tiers

\* A dataset without files is skipped, its directory too.
MergedTiers(w) == {t \in Tiers : OfTier(w, t) # {}}

\* What the merge job brings back is remapped to the work unit's directory, but
\* for the cleanup manifest: it lands in the spool directory, where it replaces
\* that of any other work unit.
BroughtBack(w) == {w} \X MergedTiers(w)

\* The new merge_output.json replaces that of an earlier merge.
Merge(w) ==
    /\ phase[w] = "merging"
    /\ found[w] # {} /\ \A e \in found[w] : Readable(e)
    /\ merged' = [merged EXCEPT ![w] = [t \in Tiers |-> {e.file : e \in OfTier(w, t)}]]
    /\ swept' = BroughtBack(w)
    /\ phase' = [phase EXCEPT ![w] = "cleanup"]
    /\ UNCHANGED <<site, wuTries, staged, attempt, store, manifests, found, sweeping, faults, listFaults>>

\* mutant: the cleanup manifest is written and brought back first.
SweptByFailedMerge(w) == BroughtBack(w)

\* The cleanup manifest is written after the last upload.
SweptAfterFailure(w) == swept

\* Nothing was found, a file cannot be read or the upload fails: the job fails
\* and is run again.
MergeFails(w) ==
    /\ phase[w] = "merging"
    /\ Fault
    /\ swept' = SweptAfterFailure(w)
    /\ phase' = [phase EXCEPT ![w] = "merge"]
    /\ UNCHANGED <<site, wuTries, staged, attempt, store, manifests, found, merged,
                   sweeping, listFaults>>

-------------------------------------------------------------------------------
(* The cleanup job. *)

\* The job gets the cleanup manifest that is in the spool directory when it
\* starts.
CleanupStarts(w) ==
    /\ phase[w] = "cleanup"
    /\ phase' = [phase EXCEPT ![w] = "cleaning"]
    /\ sweeping' = [sweeping EXCEPT ![w] = swept]
    /\ UNCHANGED <<site, wuTries, staged, attempt, store, manifests, found, merged, swept, faults, listFaults>>

\* The directories are removed at the site the job runs at; an error is printed
\* and forgotten.
Cleanup(w) ==
    /\ phase[w] = "cleaning"
    /\ \E removed \in SUBSET sweeping[w] :
          /\ store' = {f \in store : f.site # site[w] \/ <<f.wu, f.tier>> \notin removed}
          /\ manifests' = {m \in manifests : m[2] # site[w] \/ <<m[1], First>> \notin removed}
          /\ removed # sweeping[w] => faults < MaxFaults
          /\ faults' = IF removed = sweeping[w] THEN faults ELSE faults + 1
    /\ phase' = [phase EXCEPT ![w] = "done"]
    /\ UNCHANGED <<site, wuTries, staged, attempt, found, merged, swept, sweeping, listFaults>>

\* The cleanup job itself fails and is run again.
CleanupFails(w) ==
    /\ phase[w] = "cleaning" /\ Fault
    /\ phase' = [phase EXCEPT ![w] = "cleanup"]
    /\ UNCHANGED <<site, wuTries, staged, attempt, store, manifests, found, merged, swept,
                   sweeping, listFaults>>

\* mutant
OnceTooOften(w) == wuTries[w] <= WuRetries

MayRetry(w) == wuTries[w] < WuRetries

\* wu_post.sh: the work unit runs again at another site.
WuRetry(w) ==
    /\ phase[w] \in RetriedIn /\ MayRetry(w) /\ Fault
    /\ wuTries' = [wuTries EXCEPT ![w] = @ + 1]
    /\ \E s \in Sites \ {site[w]} : site' = [site EXCEPT ![w] = s]
    /\ phase' = [phase EXCEPT ![w] = "proc"]
    /\ staged' = [staged EXCEPT ![w] = {}]
    /\ UNCHANGED <<attempt, store, manifests, found, merged, swept, sweeping, listFaults>>

-------------------------------------------------------------------------------

Next ==
    \E w \in WorkUnits :
        \/ \E p \in Procs : StageOut(w, p) \/ StageOutFails(w, p)
        \/ Discover(w) \/ Merge(w) \/ MergeFails(w)
        \/ CleanupStarts(w) \/ Cleanup(w) \/ CleanupFails(w)
        \/ WuRetry(w)

Spec == Init /\ [][Next]_vars

-------------------------------------------------------------------------------
(* Properties. *)

Merged(w, p, t) == \E f \in merged[w][t] : f.proc = p

\* As long as no listing fails, no output is lost: that of a job that is done is
\* in the unmerged area until it is in a merged file, whatever stage-outs,
\* merges and cleanups fail and although the work units share one cleanup
\* manifest.
NothingLost ==
    listFaults = 0 =>
        \A w \in WorkUnits : \A p \in staged[w], t \in Tiers :
            \/ Merged(w, p, t) /\ phase[w] \in {"cleanup", "cleaning", "done"}
            \/ Output(w, p, t) \in store

\* A dataset the merge job skipped keeps its unmerged files: a cleanup removes no
\* directory of which nothing was merged, listings that fail included.
SkippedIsKept ==
    \A w \in WorkUnits, t \in Tiers :
        phase[w] \in {"cleanup", "cleaning", "done"} /\ merged[w][t] = {} =>
            \A p \in staged[w] : Output(w, p, t) \in store

\* Every output is at most once in the merged files, whatever a failed attempt
\* of its job left in the unmerged area.  What one attempt of the merge leaves in
\* its own directory before it resorts to copies is not modelled.
MergedOnce ==
    \A w \in WorkUnits, t \in Tiers : \A f, g \in merged[w][t] : f.proc = g.proc => f = g

-------------------------------------------------------------------------------
(* What a document says and the code does not do once a listing fails. *)

\* A merge takes the output of every processing job: partial merges are not part
\* of the implementation (docs/error_handling.md:232).
NoPartialMerge ==
    \A w \in WorkUnits, t \in Tiers, p \in Procs : phase[w] = "done" => Merged(w, p, t)

===============================================================================
