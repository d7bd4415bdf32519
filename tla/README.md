# Verification of condora

TLA+ models of condora, the service that drives CMS production requests through
HTCondor DAGMan, with TLC model checking and TLAPS proofs.  Paths below are
relative to `src/condora/` unless they name a document.

## 1. The system

| part | state it keeps | operations | interacts with |
|---|---|---|---|
| request lifecycle manager `core/lifecycle_manager.py` | `requests.status`, `workflows.dag_id/current_round/events_produced`, `dags` rows (one transaction per evaluated request) | one handler per status, round completion, rescue, clean stop, timeouts | monitor, error handler, planner, output manager, HTCondor |
| DAG monitor `core/dag_monitor.py` | `dags.status`, node counts, `completed_work_units` | `poll_dag`, detection of finished work units, OOM handling | HTCondor queue, status and metrics files |
| error handler `core/error_handler.py` | `dags` rows (rescue chain through `parent_dag_id`) | rescue or hold, rescue row, problem sites | lifecycle manager, site manager |
| DAG planner `core/dag_planner.py` | `dags`, `processing_blocks`, `config_data.next_first_event`/`file_offset`, submit directories | plan a round, submit it, submit files and payload scripts | HTCondor, site manager, schedd selector, splitters |
| splitters `core/splitters.py` | none | files to jobs, events to jobs | planner |
| output manager `core/output_manager.py` | `processing_blocks` | block creation, replicas, DBS, tape rules, retries | Rucio, DBS |
| admission `core/admission_controller.py` | none (queries) | capacity, next pending request | `_handle_queued` |
| site manager `core/site_manager.py` | `site_bans`, `sites` | ban, promote, expire, CRIC sync | error handler, planner |
| adaptive tuning `core/adaptive.py` | `step_metrics`, overrides | choice of cores, memory and events of the next round | planner, round completion |
| operator API `api/requests.py`, `api/import_endpoint.py` | same tables, own sessions | import, stop, release, fail, abort, restart, delete | lifecycle manager through the database |
| supervision `main.py`, `api/lifecycle.py` | the asyncio task, its watchdog | start, restart, stop | lifecycle loop |
| payload side (`core/post_classifier.py`, scripts the planner generates) | `post.json`, `elected_site`, `excluded_machines.txt`, manifests, the unmerged area | elect a site, run and watch the steps, stage out, classify failures, merge, clean up, retry a work unit | DAGMan, worker nodes, site storage |
| adapters, monitoring, UI, CLI, generators | none that decides | I/O, views, text generation | all |

Hard behaviours:

* one evaluation polls several DAGs in one transaction: results found early in
  it meet decisions taken later; an exception or crash rolls the database back
  while HTCondor keeps what was done;
* DAGMans take time to leave the queue, `condor_rm` fails, DAGMans disappear;
* two rounds run at once (DD-20), so "the" DAG of the workflow is not the only one;
* rescues and recoveries create rows that inherit only part of their parent;
* operator calls and timeouts arrive in any state, from database sessions of their
  own: the API and the loop write the same rows and the last write wins;
* several requests wait for the places of `max_active_dags`, and a place whose
  request is not looked at any more does not come back;
* the loop itself is cancelled and restarted;
* ranges of events and files are handed out while other rounds run, from numbers
  that earlier rounds measured, and a planning may be rolled back after its
  DAGMan started;
* inside a work unit each script reads files that another script, another node
  or an earlier attempt wrote.

What makes the parts correct: no work unit counted twice; completion only with
the target reached and nothing running; no DAGMan unmanaged; one DAGMan per
submit directory; rescues first and finitely many; overlap and overproduction
bounded; stops end and are quiet; an operator's fail is a fail; a refused
registration holds; a lifecycle loop always comes back, and only one; rounds
work on disjoint ranges and the request ends when they cover the target; the limit
on active DAGs is kept, places come back and every queued request has its turn; the
merge job runs where its inputs are; a retried work unit starts clean; no output
is deleted before it is merged, and none merged twice; a job that succeeds has
staged out all it made; a busy job is not killed and a stalled one is.
`PROJECT.json` lists every hazard at its line.

## 2. Modules

| module | models |
|---|---|
| `RequestStateMachine` | abstract: what a client sees of one request |
| `RequestLifecycle` | one request: lifecycle manager, monitor, error handler, control part of the planner, operator calls, and the HTCondor DAGMans |
| `RequestRefinement` | the mapping under which `RequestLifecycle` implements `RequestStateMachine` |
| `RequestLifecycleProofs` | theorems about both |
| `Admission`, `AdmissionProofs` | several requests in one cycle of the loop, their admission, and the operator's calls in sessions of their own |
| `EventRanges`, `EventRangesProofs` | which events or files the rounds of a workflow get, and how they are counted |
| `AdaptiveTuning` | measurements of a round to the resources of the next ones |
| `OutputBlocks` | the processing blocks of one workflow and their Rucio calls, retries, rollbacks |
| `OutputTuningProofs` | theorems about the two above, which have no variable in common; `AdaptiveTuning` prefixes the names that every specification has (`TuningSpec`, `TuningNext`), so that one module extends both |
| `WorkUnit`, `WorkUnitProofs` | one work unit: inner DAG, PRE and POST scripts, classification, retries |
| `ProcJob`, `ProcJobProofs` | one attempt of a processing job: steps, parallel instances, CPU watchdog |
| `UnmergedFiles`, `UnmergedFilesProofs` | the unmerged area between processing, merge and cleanup jobs |
| `SiteBans`, `SiteBansProofs` | how several workflows keep failing sites out: bans, promotion, exclusions |
| `Supervision` | who runs the lifecycle loop |

`MCxxx` is the instance of `xxx` for TLC; `MCRequestLifecycle` extends
`RequestRefinement`.

How they fit together.  `RequestLifecycle`, `EventRanges` and `OutputBlocks` are
three views of the same evaluations: the first has the rows and the DAGMans, a work
unit being one unit of the target; the second has the ranges and counters, a DAG
being a set of work units that end; the third has the blocks, a poll being a report
of work units or none.  `AdaptiveTuning` produces the numbers that are free choices
(`TunedEvents`, `Multipliers`) in `EventRanges`.  A work unit that succeeds or fails
in `RequestLifecycle` is a behaviour of `WorkUnit`, a processing node of which is a
`ProcJob`; `UnmergedFiles` looks at the files that several work units leave behind.
`SiteBans` is about several workflows at once: what the evaluations of each make of
the `post.json` files of its work units, and what planning makes of the bans.
`Admission` is the cycle around these evaluations: it has several requests, the status
of each DAG only, and the sessions that write it.  `Supervision` is about the task that
performs the evaluations.

### RequestLifecycle

State: `status`, `head` (`workflow.dag_id`), `round`, `produced`
(`events_produced`), `dags` (the rows: status, recorded work units, parent,
round number, submit directory), `used` (rows created); `job`, `nodeDone`,
`nodeFailed` of each DAGMan at HTCondor; `pc`, `todo`, `snap`, `refused` of the
evaluation in progress; `discarded` and `failAsked` are history.

Every handler but ACTIVE is one step, because it awaits nothing that another
actor of the model could answer in between and is committed at once.  ACTIVE is
`ActiveBegin`, one `Poll(d)` for each active row, then one `Finish...`; HTCondor
moves between them.  `Crash` is an exception or a crash: the rows go back to
`snap`, HTCondor keeps what was done, and `Restart` lets the loop go on.
`Operator` actions are the endpoints of `api/requests.py`, `Condor` actions are
what DAGMan does on its own.

Abstractions.

* A work unit is one unit of the target; the workflow is a GEN workflow.  A
  completed unit's metrics file is readable, so the branch for a completed head
  without a record is unreachable and `step_metrics` are left out.
* The row statuses submitted and running are one, "active"; planning,
  pilot_running and partial of a workflow drive nothing and are left out, as is
  the workflow's own status.
* `FirstRoundWUs` is the size of round 0 (the whole target when adaptive
  planning is off), `WUsPerRound` that of later rounds.
* Admission is a free choice in `Queued` (see `Admission`); time is a free choice of
  "stuck".
* A planned row gets a directory of its own; a rescue keeps its parent's.
* A round is planned, submitted and committed in one step.  A rollback between
  `submit_dag` and the commit is in `EventRanges` (`PlanOrphaned`), not here; this
  is the assumption of `AliveDagmanIsManaged`.
* Operator calls come between evaluations; in `Admission` they come at any time.
* `StuckStopping` whose `condor_rm` raises is a rollback of the whole evaluation;
  the jobs it removed before are covered by `StoppingRetriesRemove`.

### Admission

State: for each request its status, the status of its DAG's row, the stop reason,
counters of rounds and rescues, and its DAGMan; the cycle (`todo`, `failed`, and
`loaded`, the statuses as they were when the cycle loaded them); `eval`, what the
evaluation in progress will write, and `call`, what the operator's call for a request
will write.  An evaluation is a step that decides, by what was loaded, and `Commits` or
`EvaluationRaises`; a call is `Asks`, which looks at the status and removes the DAGMan,
and `Answers`, which writes.  All else may happen in between, so that each overwrites
what the other wrote: a session of SQLAlchemy keeps the rows it has loaded
(`expire_on_commit=False`), and a query does not refresh them.  `imported` has the
requests whose current DAG was submitted by `POST /import`, which asks for no place.

Abstractions: one DAG for each request (two at once are in `RequestLifecycle`); a call
for a request waits for the answer of the one before; a submission is not rolled back
(`EventRanges`); no crash of the process; requests created by `POST /requests` stay NEW
and are never looked at (`api/requests.py:77`), so that a request begins with its
import; restart and clone are left out, and of the timeouts those of QUEUED and ACTIVE
are here.

### RequestStateMachine and RequestRefinement

The abstract machine has five variables: status, counted events, planned rounds,
the rows that are active and those that are over.  An evaluation of an ACTIVE
request is one step: it may add events, end rows, start one row at most, and it
leaves ACTIVE for QUEUED or COMPLETED only without active rows.  The mapping shows
the rows committed last (`Committed`): `snap` while an evaluation runs, so that
polls, HTCondor's moves and a rollback are stuttering steps.

### EventRanges

State: the configuration, `round`, `offset` (`next_first_event` or
`file_offset`), `produced`, the latest tuning, and the rows with the items of each
job.  `PlanRound` is `plan_production_dag` with the GEN, file based and event based
splitting, effective fractions, work-unit sizes, the limit on work units, the
reservation of the range and the throwaway pilot; `PlanOrphaned` is a planning whose
DAGMan started and whose rows were rolled back.  `WorkUnitDone`, `RoundEnds` and
`TargetMet` are what the lifecycle manager counts and decides.  The splitters are given
by the sets of files that stay together (`Siblings`, `Openers`), as the loops of
`splitters.py` form them.  `FullBatch` says when a round takes as many files as the
planner counts for it; the planner and the splitter have defaults of their own, 1 and 5
files per job.  `GroupSizes` and the tuning are free choices among small sets.  Failed work units and rescues are
`RequestLifecycle`'s; all work units of a round end done.

### AdaptiveTuning

State: an unknown workload (cores a step keeps busy, output, memory), the rounds with
their resources and measurements, and the parameters stored last.  The operators
follow `adaptive.py`: normalization of efficiencies, effective cores, job split,
memory, throughput, instances of the first step, and the planner's sizing of work
units.  Floating point numbers are integers in parts of `Cores`, percentages or units
of the constants; the factors and thresholds keep their ratios, and `Nearest` rounds
half to even as Python does.  The metrics of a work unit may be lost (`unread`).  All
steps of a work unit have the same memory.

A step runs with the CPUs of its job as threads (`StepThreads`): `--ncpus` overwrites the
manifest of the sandbox.  The threads and instances that the optimization finds for each
step are stored (`perStep`, `instances`), but the manifest they are written to goes to the
merge job only (`core/dag_planner.py:1273`, `1828`), which takes the CMSSW release from
it; `TuningReachesJobs` below says so.  `manifest_tuned.json`, which the wrapper would
prefer, is written by `core/adaptive.py:1077` without a caller and by the runner of
`tests/matrix`.

`SplitRaises` is an exception of the code: with `split_tmpfs` and neither a tmpfs nor a
gridpack measured, a `min_request_cpus` above the request's cores makes the number of
jobs 0, and `compute_job_split` divides by it (`core/adaptive.py:812-817`).  The caller
catches it, and the parameters of the round before stay in force.

### WorkUnit

State: the inner DAG's nodes and retries, the files the scripts share (`elected`,
`desired` and `req` of `landing.sub`, `pin`, `excluded`, `post`), what the HTCondor
logs say, and where each output was staged.  A job ends with cmsRun's exit code, of
which the kernel keeps eight bits, with a wrapper failure, or removed.  The POST
script's collector, classification, decision to abort, and machine exclusion are one
step with the end of the job, as nothing else touches the node then.  The work unit's
retry cleans what `wu_post.sh` cleans; a rescue cleans nothing.  Two POST scripts
that write `excluded_machines.txt` at once are serialized.

### ProcJob

State: phase of the wrapper, the processes of the current step with their CPU time,
the watchdog and its samples, the outputs in the job's directory and in the unmerged
area.  Time advances in check intervals; `spent` is what a cgroup shows, the CPU time
of all processes so far.  The watchdog is modelled with what
`set -e` does to it.  A parallel first step splits the events among instances.
Outputs of a parallel first step stay in the directories of the instances and are
never staged out, and it has no check for zero events; the runs keep the output of
the last step.  Instances need `n_parallel` in the manifest of the sandbox, which nothing
in the package writes, only the runner of `tests/matrix` (see `AdaptiveTuning`): the
parallel branch is modelled as the wrapper has it.

### UnmergedFiles

State: the unmerged area at each site, the manifests, what a merge discovered and
merged, and the cleanup manifest in the spool directory that all work units of the
DAG share.  Stage-outs fail after some of the files, listings fail, merges and
cleanups fail and are run again, work units run again at another site.

The module is about the work units of one DAG.  Group indices and node names start at 0
in every round (`core/dag_planner.py:1152`, `984`), and an unmerged directory is
`{unmerged_lfn_base}/{group_index:06d}` (`core/dag_planner.py:3043`, `5140`, `5474`)
without the round, so that rounds that overlap at one site may share directories and file
names.  None of its properties says anything about that.

### SiteBans

State: the active rows of `site_bans`, the day, the operator's calls; for each
workflow its DAG, the work units with the site they landed at, the Requirements of
the landing jobs in the queue and of `landing.sub`, and the two entries that the
mid-DAG exclusion keeps in `node_counts`.  `against` (who has a case against a site)
and `lessons` (until when the site of a failed DAG should be avoided) are history.
`Plan` is the query of the bans; `NothingToEdit`, `Exclude` and `ExcludeRolledBack`
are `_check_mid_dag_site_exclusions` and its rollback; `Fails` and `FailsRolledBack`
are `handle_dag_completion` with `apply_site_exclusions`; `WithBan` is `ban_site` with
`_check_promotion`.

Abstractions: all work units have as many jobs, at least the three a problem site
needs, which all end in the same way; a work unit fails after DAGMan's own retry; a
workflow has one DAG at a time; sites are known (`ban_site` ignores others); the
operator bans with the usual duration and lifts the bans of a site altogether, as the
endpoints do.

### OutputBlocks

State: the `processing_blocks` rows (one for each output dataset), what is
attached in Rucio, the process-wide cache, and the evaluation in progress with
the database as committed last.  A call of the output manager is one step with a
set of outcomes: returned, refused (`RucioRegistrationError`, which holds the
request), or raised (any other exception, which is logged).

Abstractions: every work unit has a file in every dataset; DBS never fails (the
lifecycle manager always installs the mock); the backoff table is a free choice
between retrying and not, the three days are `late`; statuses other than ACTIVE,
HELD and COMPLETED are folded into them; blocks are visited in index order.  A
registration refused because of a missing account or an unparsable dataset name
is a configuration error and left out.

### Supervision

Tasks, the watchdog's callback and its 10 s timer, cancellation, and overlapping
calls of `POST /lifecycle/restart`.  A step is what the event loop runs between
two awaits.  Shutdown, the CRIC and monitoring tasks and a loop that dies by an
exception (`main_loop` catches them) are not modelled.

## 3. What the runs check

| run | question | states |
|---|---|---|
| `lifecycle_sequential` | rounds one by one; `condor_rm` fails, registrations are refused, evaluations roll back, the operator does anything: nothing counted twice, no DAGMan unmanaged or sharing a directory, rescues first | 1.4 M |
| `lifecycle_pipelined` | two rounds at once; failed submissions, unreadable spool files, lost DAGMans, timeouts: sound completion, bounded overlap and overproduction, quiet pause, and every commit is a step of `RequestStateMachine` | 2.5 M |
| `lifecycle_liveness` | stops end, a request left alone comes to rest | 29 k |
| `admission` | two requests share one or two places, the loop and the operator's calls overwrite each other, evaluations are rolled back, plans fail, registrations are refused: the limit is kept, places come back, nobody starves | 828 k |
| `event_ranges` | rounds do not share items, each work unit is counted once, COMPLETED means done, and every request completes | 93 k |
| `adaptive` | no round is thought to use more cores than it had, a measured round asks for no less memory than those before, work units merge to the target size | 688 k |
| `work_unit` | the merge is where the outputs are, a retry starts clean and avoids bad machines and sites, the work unit ends | 370 k |
| `proc_job` | exit code 0 means the whole output is staged out; only a job without progress is killed | 295 k |
| `unmerged_files` | nothing is deleted before it is merged, nothing skipped is deleted, nothing is merged twice | 1.1 M |
| `output_blocks` | blocks follow the DAGs; tape rules neither early nor forgotten | 1.1 M |
| `site_bans` | a ban for all is earned by several workflows, the site of a failed DAG stays out of the next one, and editing a landing job never opens it to a site | 1.3 M |
| `supervision` | a loop always comes back | 20 k |

The type invariants of the modules with proofs are proved and not run, but for that of
`ProcJob`, which like that of `Supervision` states the ranges of the variables and holds
in its instance.  That of `AdaptiveTuning` is run and proved.

### Disagreements, stated in the modules without a run

At these places the code does something else than its documents, comments or names
say.  TLC finds each of these violated; the instance is the configuration of the named run
with the constants given.

| definition | says | violated because | instance |
|---|---|---|---|
| `RequestLifecycle!OnlyPilotDiscarded` | only the output of the pilot, round 0, is discarded (`config.py:142`) | the rescue of a later round is created without `round_number` (`core/error_handler.py:210`), gets the column's default 0 (`db/tables.py:110`) and is taken for the pilot (`core/lifecycle_manager.py:237`) | `lifecycle_sequential` with `PilotThrowaway = TRUE`, `Faults = {}`, `Operations = {}` |
| `RequestLifecycle!FailIsHonoured` | a fail ends as FAILED | the timeout of a slow stop writes its own reason | `lifecycle_sequential` with `MaxDags = 2`, `Target = 2`, `WUsPerRound = 1`, `Faults = {"timeout"}`, `Operations = {"fail"}` |
| `RequestLifecycle!FailedIsQuiet` | a FAILED request runs nothing | only the head's DAGMan is removed when a HELD request is failed | `lifecycle_pipelined` with `Faults = {"rucio"}`, `Operations = {"fail"}` |
| `RequestLifecycle!RefusalHolds` | a refused registration holds the request | the end of the DAG in the same poll overwrites HELD | `lifecycle_sequential` with `MaxDags = 2`, `Target = 2`, `Faults = {"rucio"}`, `Operations = {}` |
| `RequestLifecycle!RescueFirst` with two rounds | a rescue row is submitted before the next round | the next plan replaces the pointer to it | `lifecycle_pipelined` with `MaxDags = 4`, `Faults = {}`, `Operations = {}` |
| `Admission!HeldFreesPlace` | a HELD request takes no place (`docs/error_handling.md:340`) | after a refused registration its DAG runs on, and nobody looks at its end | `admission` |
| `Admission!AbortIsFinal` | ABORTED is terminal (`docs/spec.md:749`) | an evaluation under way, or to come in the same cycle, goes by the status before and writes its own | `admission` |
| `Admission!LimitForAll` | `max_active_dags` bounds the active DAGs (`docs/spec.md:1309`) | an import submits without asking for a place | `admission` |
| `Supervision!SingleLoop` | one loop at a time | the cancelled loop returns normally and the watchdog starts another | `supervision` with `Callers = {c1}` |
| `OutputBlocks!EveryDatasetRecorded` | a work unit is recorded in every block | an exception of one registration skips the blocks after it | `output_blocks` with `Datasets = {1, 2}`, `WorkUnits = {1, 2}`, `Faults = {"rucio"}` |
| `EventRanges!EventsNeverShared` | no two jobs share an event range | the offset advances by the tuned events, the jobs have the nominal ones | `event_ranges` |
| `AdaptiveTuning!MemoryNeverRegresses` | the historical peak prevents a regression of memory (`core/adaptive.py:1463`, `1548`) | a round without readable metrics returns the default memory before the peak is looked at (`core/adaptive.py:1517`), and that replaces what was stored | `adaptive` |
| `AdaptiveTuning!TuningReachesJobs` | the tuning of the steps is applied (`core/dag_planner.py:1273`) | only the merge job gets that manifest, and `--ncpus` gives every step of a processing job the CPUs of the job | `adaptive` |
| `WorkUnit!DataFailureStops` | a data failure is not retried | 8021 arrives as 85 | `work_unit` |
| `ProcJob!StallIsKilled` | a job without progress is killed (`docs/spec.md:2716`) | the watchdog ends when it moves its window for the first time: `((oldest_idx++))` returns 1 under `set -e` (`core/dag_planner.py:2785`) | `proc_job` with `Modes = {"cmssw"}`, `NumSteps = 2`, `EventsPerJob = 2`, `MaxParallel = 1`, `Kept = {2}`, `Window = 3`, `Grace = 1`, `Accounting = "cgroup"`, `MaxTicks = 10`, `MaxFaults = 0` |
| `SiteBans!BadSiteIsPromoted` | enough workflow bans make a ban for all (`docs/error_handling.md:511`) | promotion is looked at when a workflow ban is made; the ban for all may expire before those of the workflows | `site_bans` |
| `SiteBans!RescueAvoidsBanned` | a rescue avoids the banned sites (`docs/error_handling.md:545`) | a rescue excludes the problem sites of its own DAG only | `site_bans` |
| `SiteBans!FailuresAreLookedAt` | every further failure is analyzed (`IMPLEMENTATION_LOG.md:450`) | the rescue's row takes over `node_counts` (`core/error_handler.py:218`): failures up to the old count are not looked at | `site_bans` with three work units for `w1`, `HoldPercent = 70`, `LastDay = 0`, `MaxCalls = 0`, no round of `w2` |
| `UnmergedFiles!NoPartialMerge` | a merge takes every output | a failed listing is replaced by what the manifests tell | `unmerged_files` with one work unit, `WuRetries = 0`, `MaxFaults = 0`, `MaxListFaults = 1` |

Five properties hold with a premise that the code does not ensure: `NeverMoreThanMeasured`
unless cores are kept for memory (`KeptForMemory`: with `split_tmpfs` and no measured
tmpfs, a job may get more cores than its steps kept busy), `WholeOutput` as
long as the first step, which may run in parallel instances, has no output dataset (with
`Kept = {1, 2}` a job succeeds without the files of that step), `NothingLost` as
long as no work unit runs again after its cleanup job started (with `"cleanup"` in
`RetriedIn` the shared cleanup manifest makes another work unit delete its files),
`KilledOnlyWhenStalled` with cgroup accounting (with `Accounting = "ps"` the CPU time
of processes that ended is forgotten), and `NobodyStarves` as long as no place is kept
by an abort or a refusal and no request is past its timeout: a QUEUED or ACTIVE request
that is too old is only reported, by a check that comes before its handler
(`core/lifecycle_manager.py:560`), so that those behind it in the queue wait too,
although `docs/spec.md:839` has every request evaluated in every cycle.  A
request released after a refusal may wait for the place of its own DAG, which is not
polled in QUEUED.

Seen while modelling and kept without a property: a block whose last work unit's
source rule was refused stays OPEN with all its work units; a retried source rule
clears the error without a rule for the work unit; a COMPLETED request may leave
blocks that are not ARCHIVED (`all_blocks_archived` has no caller); running DAGs are
removed when the target is met; a job that the watchdog kills exits 42, which DAGMan
does not retry although `docs/spec.md:2716` says it is retried elsewhere; a tuning that
raises an exception is logged as "using defaults" (`core/lifecycle_manager.py:213`), but
the parameters of the round before stay (`SplitRaises`); a merge attempt whose cmsRun or
hadd fails resorts to copies of its inputs (`core/dag_planner.py:5039`) and uploads all of
its output directory (`core/dag_planner.py:5429`), a partial merged file included, which is
not modelled, so that `MergedOnce` does not see it.

### Bounds

* `MaxDags` bounds the rows of a request.  Planning and rescues are disabled at
  the bound.  Three or four rows hold a round, its rescue, the rescue of the
  rescue or the next round, which is what the properties speak of.  In the
  liveness run `MaxDags = 4` is never reached, so the bound hides no cycle; in
  `event_ranges` a request completes with at most five rounds.
* `Target = 3`, two work units in the first round: a round is partly done, a
  second one is needed, and overlapping rounds overshoot.
* `MaxRescueAttempts = 1`, `HoldPercent = 60` (so that one failure of two is
  below and two of two above), `AdvancePercent = 50`.
* `admission`: two requests, the first with two rounds and before the second in the
  queue; one place and rounds one by one, or two places and overlapping rounds (a queued
  request joins its own running DAG only where a second place is free); one call of the
  operator, one fault, one rescue.  A call and an evaluation of either request meet in
  every order, which is all that one write can lose.
* `event_ranges`: 12 events in jobs of 4, a pilot of half the size, tuning to 2 or 8
  events per job; four files of two sites in jobs of two.  Batches are full or not,
  rounds overlap, the last job overshoots, and the limit on work units drops some.
* `adaptive`: two steps on eight cores, which keep 1 or 8 busy; jobs of at least 4 cores
  or of 16, which is more than the request has (`SplitRaises`); three rounds, of which
  two may overlap; one work unit without metrics; memory below and above the limits; the
  three kinds of cgroup measurements.
* `work_unit`: three processing nodes, the least number for a systemic failure and
  for a problem site; two machines at one site and one at another; one retry of each
  kind, one rescue and three faults, as many as an abort needs; one code of each
  class that matters, 8021 being taken for another.
* `proc_job`: two steps, two instances of three events (an uneven split), a window of
  three intervals, seven intervals, two faults.
* `unmerged_files`: two work units of two jobs and two tiers at two sites; three
  faults and two failed listings.
* `site_bans`: two workflows, as many as a promotion needs; the first has two work
  units and two rounds, so that one fails while the other waits in the queue and a
  later DAG meets the ban; two sites; bans of two days, within which all of two days
  and a third lie; one rescue, one fault, one call of the operator.
* `WorkUnits = {1, 2, 3}`, `TotalUnits = 2` in `output_blocks`: a block fills up and
  a later round adds to it.  Two datasets, because failures cut a loop over blocks
  short.  The sites: one with a _Temp RSE and one without.
* Faults differ between runs.  "lost" is left out of the sequential run: the
  monitor takes a removed DAGMan for ended while it may still shut down, and
  `OneDagmanPerDirectory` does not hold then.  It is left out of the liveness
  run: a DAGMan lost before its first node ended stays RUNNING for ever with
  0/0 counts.  The operator's stop is the only way out there.

Deadlock is not checked: requests, work units and jobs end or wait for the operator,
and the bounds stop a model that the code would let go on.

### Fairness

* Weak fairness of the handlers and of `Restart`: the loop evaluates every
  non-terminal request in every cycle.
* Strong fairness of `Finish` and of a `Poll` that HTCondor answers: the same DAG
  is polled in every cycle, and an unanswered query is a transient fault.
* Strong fairness of a `condor_rm` that succeeds: `_handle_stopping` calls it in
  each cycle.
* Crashes and rollbacks are finitely many.  A crash is a step of its own to
  `pc = "down"`, so that excluding it excludes no evaluation without effect.
* Weak fairness of DAGMan: a node that can run ends, a DAGMan with nothing to run
  exits, a removed one leaves the queue.
* `Admission`: the loop goes on, DAGs end, removed DAGMans leave the queue, and a call
  that looked at the status answers.  Nobody has to import or to call, and no evaluation
  has to be repeated more often than the cycle does.
* `EventRanges`: evaluations are repeated, a planning that may be done again and
  again is done without fault in the end, each DAG's work units end.
* `WorkUnit`: DAGMan submits what is ready; a submitted job runs or is removed by its
  `periodic_remove`; a running one ends by itself, by its watchdog or by
  `periodic_remove`; `wu_post.sh` runs when the inner DAGMan is over.  Nothing is
  assumed about success.  The rescue needs an operator or the lifecycle manager and
  has no fairness.
* `OutputBlocks`: evaluations are repeated; a rule asked for again and again is
  made; nothing is assumed of the operator nor of DAGs reporting.
* `Supervision`: tasks, timers and awaiting callers go on.  Callers need not call.

## 4. What is proved

All theorems hold for every value of the constants that satisfies the module's
assumption.

| theorem | inductive invariant |
|---|---|
| `TypeCorrect` | `TypeOK` |
| `CompletionCorrect` | `CompletionInv`: adds `EvaluationInv`, an evaluation in progress started ACTIVE and the request is ACTIVE or HELD since |
| `ManagedCorrect` | `ManagedIInv`: rows beyond `used` are absent, a DAGMan alive belongs to an active row, and the same holds of `snap` while an evaluation runs |
| `PausedCorrect` | `ManagedIInv` and: a paused request has no active row |
| `RoundsCorrect` | `RoundsIInv`: active rows, and rows that become active by submitting the rescue, stay within the limit; also in `snap` |
| `NotCountedTwice` | `CountInv`: of the rows that share a directory at most one may still be polled or rescued, and it lists all work units the others list; directories are named after rows that exist; the count is at most the work units recorded; also in `snap` |
| `OneDagmanCorrect` (no DAGMan is lost) | `SoleIInv`: `ManagedIInv`, `CountInv`, and while the request goes on a DAGMan shuts down only in a stop, with its row active |
| `OverproductionCorrect` | `OverInv`: what was produced and what live rows still owe, a row that is planned whole, stay within the allowance; row sizes, credits and started rows are what planning made them; also in `snap` |
| `RescueBeforeRound` (one round at a time) | `RescueIInv`: adds to `RoundsIInv` and `CountInv` that a pending rescue is alone, and that no evaluation started with one pending |
| `LifecycleRefinesStateMachine` | `RefinementInv`: `ManagedIInv`, and an evaluation only ends rows and adds events relative to `snap` |
| `NothingTakenBack` | the same |
| `WorkUnitTypes`, `RetryStartsFresh` | `ControlInv`: `TypeOK`, `FreshStart`, and which nodes may be in the queue |
| `MergeFollowsOutput` | adds `Placement`: outputs and pins are at the elected site, which changes only while no node is done or queued |
| `ExcludedSiteStaysOut` | adds `Kept`: an excluded site is not in +DESIRED_Sites |
| `RetryMovesOn` | adds `Recorded`: the machine of the last transient failure is on the list, and out of the node's pin unless the whole site is |
| `TypesKept`, `LimitKept`, `PlacesReturn` | `IInv`: `TypeOK`; the DAGs that were admitted and the one that an evaluation is about to admit fit in the limit (`Room`); for each request what its row, its DAGMan, the evaluation and the open call may be together (`Sound`) |
| `BlockTypes`, `TapeWaits`, `MissingFound` | `IInv`: every row is `Good`: closed just when no longer open, then full; a tape rule only when closed, an archived block with its rule; also in `committed` |
| `BlocksFollow` | adds `KeepsUp`: until a call fails, a row lists what was reported to its DAG less what is still to be registered, and is closed when full; also in `committed` |
| `OutputIsWhole` (first step without an output dataset) | `IInv`: the outputs of the later steps that are over hold what passed the filter; so do the files of the step before, unless one is missing, and then no process has succeeded |
| `UnmergedTypes` | `TypeOK` |
| `OutputsMergedOnce` | `Naming`: names of outputs depend on the job and not on the attempt, and one merge is at one site |
| `SkippedFilesKept` | `Keeping`: until its cleanup a work unit's outputs and manifests are where it staged them, and a directory in a cleanup manifest has been merged |
| `NoOutputLost` | adds `Complete`: without a failed listing a merge discovers, then merges, every output |
| `BansTypes`, `OnlyNarrowed` | `TypeOK` |
| `PromotionsEarned` | `Landed`, a work unit with a site is past its landing job, and `Grounded`: who bans or has a problem site has a case against it |
| `LessonsKept` | `Remembered`: a lesson is a ban that expires no earlier |
| `RangesTypes` | `TypeInv`: `TypeOK`, and every job has finitely many items |
| `NoItemTwice` | `DisjointInv`: as long as the premise of `RoundsDisjoint` holds, rounds that count have no item beyond the offset, nor one in common |
| `NoRangeShared` (the tuning never below the request's events per job) | that assumption makes `NeverShrunk` and with it the premise of `NoItemTwice` |
| `EventsCountedOnce` | `CountedOnce` is inductive with `TypeInv` |
| `CompletedIsDone` | `DoneInv`: rounds on files end with all work units done, and every file before the offset is in a round |
| `KilledStalled` (cgroup accounting) | `StallInv`: each sample is no later and no higher than now, and if the CPU time is still the same the job has been idle since |
| `TuningTypes` | `TuningTypeOK`: every operator from a measurement to the next round's resources stays in its range |
| `MemoryKept` (rounds whose metrics could be read, without a split) | `PeaksCovered`: what such rounds have asked for is at most what the historical peak asks for; `RunningUntuned`: a running round has not been tuned |
| `CoresAsMeasured` (the least number of cores leaves no room for a second job or is a power of two; no cores kept for an unmeasured tmpfs) | `CoresInv`: the cores of rounds and of the parameters are the request's, or a power of two and at least the least; no step was measured above the cores of its round |
| `SizedToTarget` | `SizesInv`: jobs have the events of the request, the pilot's its part, and their output is proportional; `AllNear` is the property for given rounds |

`RequestLifecycleProofs`: the snapshot has to be part of each invariant, because a
rollback brings its rows back; for `ManagedCorrect` it is sound only because no step of
an evaluation starts a DAGMan and is rolled back.  Each preservation lemma has one step
for each action; lemmas about `PlanRound`, `FailureHandling` and `CondorRm` carry what
several actions share.

The refinement, in the same module: a step inside an evaluation leaves `Committed` alone and is
a stutter; the step that ends one is compared with `snap`, for which `EvaluationAdds`
sums up all polls before it.  Every other handler is a step of its own.  The abstract
machine has no fairness and the theorem none either.

`WorkUnitProofs`: the type of a `post.json` already needs the structure of the inner
DAG (a job's site comes from the elected one), hence types and `FreshStart` are one
induction.  `EndType` is the arithmetic of exit codes: a failed job never returns 0,
which is why `CmsswCodes` holds no multiple of 256.

`AdmissionProofs`: the limit is kept because an evaluation admits by rows that only
other evaluations make active, one at a time, and a call only ends rows.  That a place
comes back needs to know what each write in progress will leave: an evaluation or a
call that is about to end a request without ending its DAG is only possible in the
states that `Sound` lists, whatever the other session writes meanwhile.

`OutputTuningProofs`, first part (`OutputBlocks`): each call of the output manager takes a good row to good rows,
whatever its outcome, so that a rollback and a retry meet only good rows.  That the
first of the work units and blocks to be visited exists is the least-number principle.
`BlocksFollow` looks at calls that return only: a call that failed is remembered.

`OutputTuningProofs`, second part (`AdaptiveTuning`): the means are folds over work units
and steps, and the library's induction cannot be used on them.  A fold visits finitely
many subsets; the least-number principle on their cardinality gives an induction over
them (`SubsetsInduct`), hence that the fold exists and unfolds (`FoldExists`,
`SumUnfolds`), and from that what the proofs need of sums: type, monotonicity, factors
(`SumType`, `SumGrows`, `SumTimes`).  That a maximum exists although no measurement is
bounded in advance is `FinitelyBounded`.

* `CoresAsMeasured`: an efficiency brought back to the request's threads is at most what
  the CPUs of the round allow, so is its weighted mean (`EffectiveCoresBound`), and
  rounding to a power of two does not leave the bound because the cores of a split
  round are a power of two.  This is what the premise is for (`FloorsFit`; the default
  `min_request_cpus` of 4 satisfies it).  The premise is necessary: with a least number
  of 3, a pilot whose short steps weigh as much as the long one has its jobs split to 3
  cores, a full round measures that it keeps all 3 busy, and the next jobs get the
  nearest power of two, 4.  TLC finds this in the instance of `adaptive` with
  `NumSteps = 4`, `Work` 200 for the first step and 1 for the others, `PilotPercent = 5`,
  `EventsPerJob = 100`, `MinRequestCpus = {3}`, `Tmpfs = {FALSE}`, `TargetWalls = {0}` and
  no cgroup measurements.
* `SizedToTarget`: the group is a quotient rounded to the nearest (`NearestIsNear`), of
  sizes multiplied by the work units and by the events of both rounds, factors that
  cancel (`NearWithout`) just when the recorded events are the real ones.
* `MemoryKept`: a higher peak asks for no less memory, the historical peak never goes
  down (`PeakRises`), and a measured round without a split asks for what it gives
  (`MemoryFromHistory`).  The theorem compares such rounds with each other.  The
  parameters in force may ask for less in between: a round without readable metrics falls
  back to the default memory (`MemoryNeverRegresses` in the table of disagreements), and
  a split job is sized from the mean of its own round.

`OneDagmanCorrect` assumes that nobody removes a DAGMan behind the service's back: with
"lost" the monitor takes a DAGMan for ended that may still shut down, and the rescue gets
its directory.  `OverproductionCorrect` follows the work units a row may still add.  A
rescue takes over its parent's, and what a directory's rows have recorded is not owed
again, so that the bound survives rescues, polls and rollbacks.

`EventRangesProofs`: what has to be proved about recursion is done with the
least-number principle, as the library's induction cannot be used: the eldest file of a
group.  The batches that the splitters make are therefore sets
and no folds.  The proof of `NoItemTwice` corrected the model: the
premise for files used to compare a round with the splitter's batches, which is too
weak when the planner counts with fewer files per job than the splitter takes; TLC
confirmed the overlap with the defaults 1 and 5, and the premise is now `FullBatch`.
`CompletedIsDone` needs the same premise for files and none for GEN workflows.

`ProcJobProofs`: that the instances of a parallel first step generate every event
(`EveryEventGenerated`) is Euclidean division: an event up to the share of the last
instance is in the share of instance `(e - 1) \div q + 1`, any other in the last one.
`KilledStalled` rests on what a sample stands for (`Witnessed`), whichever of the samples is
the first of the window.

`UnmergedFilesProofs`: `SkippedFilesKept` and `NoOutputLost` need that no work unit
runs again after its cleanup job started, a premise on `RetriedIn`; `OutputsMergedOnce`
holds without.

`SiteBansProofs`: `WithBans` adds rows and takes none, so that what a row stands for
is looked at when it is made (`Grounded`), and a lesson and its row expire together.

Only model-checked: the liveness properties (`StopEnds`, `RequestSettles`,
`LoopComesBack`, `TapeRuleFollows`, `RequestCompletes`, `WorkUnitEnds`, `NobodyStarves`),
as liveness under fairness is out of the prover's reach; the type invariants of `ProcJob`
and `Supervision`; and what the table of disagreements says.  Every safety property that
a run checks has a theorem, some with a premise that the table above names; that of
`RescueBeforeRound` is necessary, too: with two rounds the property fails (see the table
of disagreements).

## 5. Plan

1. `restart_request` of the lifecycle manager, which runs in the session of the running
   cycle, and the clone of a request.
2. The memory bump after an OOM and the rescue's memory, composed with
   `AdaptiveTuning`.
3. Local mode of the payload scripts.

## 6. Not modelled

* Adapters, monitoring, UI, CLI and generators of submit files, sandboxes and PSets
  are I/O or text.  Schedd selection is one name.
* The pilot runner is legacy: nothing calls it.  The pipeline mode of
  `dag_planner.py` and `adaptive.py:1009-1420` have no caller either.
* Restart, clone and delete of a request, and the memory bump: see the plan.
* The CRIC synchronization of `sites`, which touches no ban.
* Local mode of the merge and cleanup scripts: only grid and spool mode are in
  `UnmergedFiles`.

The reasons are beside each component in `PROJECT.json`.
