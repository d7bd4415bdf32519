------------------------------- MODULE WorkUnit -------------------------------
(***************************************************************************)
(* One work unit in spool mode: the inner DAG landing -> processing ->     *)
(* merge -> cleanup that _generate_group_dag (core/dag_planner.py) writes, *)
(* its PRE and POST scripts, the collector of core/post_classifier.py, the *)
(* wu_post.sh of the outer DAG and the rescue of the round.  DAGMan, the   *)
(* schedd and the jobs are the environment; a job ends in any of the ways  *)
(* cmsRun, the wrapper and its periodic_remove have.                       *)
(***************************************************************************)
EXTENDS Integers, FiniteSets

CONSTANTS
    Procs,            \* the processing nodes
    Machines, SiteOf, \* the worker nodes and the site of each
    Allowed,          \* allowed_sites of the request ({}: any)
    Banned,           \* banned_sites at planning time
    CmsswCodes,       \* exit codes cmsRun may fail with
    Tails,            \* what stderr may tell: "", "stalled", "stageout"
    Removals,         \* why a running job may be removed: "zombie", "wall", "other"
    LandingRetries, ProcRetries, MergeRetries, CleanupRetries,
    WuRetries,        \* wu_retry_count
    MaxRescues,       \* error_max_rescue_attempts
    MaxFaults         \* bound: jobs that fail

Sites == {SiteOf[m] : m \in Machines}
Nodes == Procs \cup {"landing", "merge", "cleanup"}
None == "none"

ASSUME WorkUnitAssumption ==
    /\ IsFiniteSet(Procs) /\ Procs # {} /\ Procs \cap {"landing", "merge", "cleanup"} = {}
    /\ None \notin Sites \cup Machines
    /\ Allowed \subseteq Sites /\ Banned \subseteq Sites
    /\ CmsswCodes \subseteq {code \in Nat : code % 256 # 0}
    /\ {LandingRetries, ProcRetries, MergeRetries, CleanupRetries, WuRetries,
        MaxRescues, MaxFaults} \subseteq Nat

VARIABLES
    wu,       \* the outer node of the work unit
    wuTries,  \* its retries
    rescues,  \* rescue DAGs of the round
    aborted,  \* the inner DAGMan was aborted by exit code 43
    node,     \* what the inner DAGMan knows of each node
    tries,    \* retries of each node
    elected,  \* the elected_site file
    desired,  \* landing.sub: +DESIRED_Sites
    req,      \* landing.sub: the sites its Requirements admit
    pin,      \* the machines the Requirements of a pinned node admit
    on,       \* the machine the job of a node last ran on in this attempt
    excluded, \* excluded_machines.txt
    log,      \* what the HTCondor log of a node says, over all its attempts
    post,     \* the node's post.json
    cause,    \* the code cmsRun failed with in the node's last attempt
    outAt,    \* the site a node's output was last staged out at
    blamed,   \* the sites wu_post.sh excluded
    faults

landingSub == <<desired, req>>
vars == <<wu, wuTries, rescues, aborted, node, tries, elected, landingSub, pin, on,
          excluded, log, post, cause, outAt, blamed, faults>>

Retries(n) == CASE n = "landing" -> LandingRetries [] n = "merge" -> MergeRetries
                [] n = "cleanup" -> CleanupRetries [] OTHER -> ProcRetries
Parents(n) == CASE n = "landing" -> {} [] n = "merge" -> Procs
                [] n = "cleanup" -> {"merge"} [] OTHER -> {"landing"}

NodeStates == {"ready", "idle", "running", "done", "failed"}
Categories == {"success", "permanent", "data", "infrastructure_memory", "infrastructure", "transient"}
PostJson == [exit : Int, final : BOOLEAN, category : Categories,
             site : Sites \cup {"unknown"}, machine : Machines \cup {None}]
LogFile == [site : Sites \cup {None}, machine : Machines \cup {None}, removal : Removals \cup {None}]
NoPost == [exit |-> 0, final |-> FALSE, category |-> "success", site |-> "unknown", machine |-> None]
HasPost(n) == post[n] # NoPost

TypeOK ==
    /\ wu \in {"running", "done", "failed"}
    /\ wuTries \in 0..WuRetries /\ rescues \in 0..MaxRescues /\ aborted \in BOOLEAN
    /\ node \in [Nodes -> NodeStates]
    /\ \A n \in Nodes : tries[n] \in 0..Retries(n)
    /\ elected \in Sites \cup {None}
    /\ desired \subseteq Sites /\ req \subseteq Sites /\ blamed \subseteq Sites
    /\ pin \in [Nodes -> SUBSET Machines] /\ on \in [Nodes -> Machines \cup {None}]
    /\ excluded \subseteq Machines
    /\ log \in [Nodes -> LogFile] /\ post \in [Nodes -> PostJson]
    /\ cause \in [Nodes -> CmsswCodes \cup {0}] /\ outAt \in [Nodes -> Sites \cup {None}]
    /\ faults \in 0..MaxFaults

\* _generate_group_dag: the landing job asks for the allowed sites, or for all
\* of them; the banned ones are in its Requirements only.
Init ==
    /\ wu = "running" /\ wuTries = 0 /\ rescues = 0 /\ aborted = FALSE
    /\ node = [n \in Nodes |-> "ready"] /\ tries = [n \in Nodes |-> 0]
    /\ elected = None
    /\ desired = (IF Allowed # {} THEN Allowed ELSE Sites)
    /\ req = (IF Allowed # {} THEN Allowed ELSE Sites) \ Banned
    /\ pin = [n \in Nodes |-> {}] /\ on = [n \in Nodes |-> None]
    /\ excluded = {}
    /\ log = [n \in Nodes |-> [site |-> None, machine |-> None, removal |-> None]]
    /\ post = [n \in Nodes |-> NoPost]
    /\ cause = [n \in Nodes |-> 0] /\ outAt = [n \in Nodes |-> None]
    /\ blamed = {} /\ faults = 0

-------------------------------------------------------------------------------
(* The inner DAGMan and the landing node. *)

InnerRuns == wu = "running" /\ ~aborted
MayRun(n) == node[n] = "ready" /\ \A p \in Parents(n) : node[p] = "done"

\* mutant: one retry more.
AfterExitOneMore(n, exit) ==
    CASE exit = 0 -> "done"
      [] exit = 42 /\ n # "cleanup" -> "failed"
      [] OTHER -> IF tries[n] <= Retries(n) THEN "ready" ELSE "failed"

\* What DAGMan does with the exit code of the POST script, or of the job: 0 is
\* done, UNLESS-EXIT 42 (not set for cleanup) and the last retry are failed.
AfterExit(n, exit) ==
    CASE exit = 0 -> "done"
      [] exit = 42 /\ n # "cleanup" -> "failed"
      [] OTHER -> IF tries[n] < Retries(n) THEN "ready" ELSE "failed"

NodeEnds(n, exit) ==
    /\ node' = [node EXCEPT ![n] = AfterExit(n, exit)]
    /\ tries' = [tries EXCEPT ![n] = IF AfterExit(n, exit) = "ready" THEN @ + 1 ELSE @]

\* elect_site.sh writes the site the landing job matched.
LandingElects ==
    /\ InnerRuns /\ MayRun("landing")
    /\ \E s \in desired \cap req : elected' = s
    /\ NodeEnds("landing", 0)
    /\ UNCHANGED <<wu, wuTries, rescues, aborted, landingSub, pin, on, excluded, log, post,
                   cause, outAt, blamed, faults>>

\* The stage-out validation, the site's name or a match is missing: in the
\* global pool the POST script exits 1.
LandingFails ==
    /\ InnerRuns /\ MayRun("landing")
    /\ \/ desired \cap req = {} /\ UNCHANGED faults
       \/ faults < MaxFaults /\ faults' = faults + 1
    /\ NodeEnds("landing", 1)
    /\ UNCHANGED <<wu, wuTries, rescues, aborted, elected, landingSub, pin, on, excluded, log,
                   post, cause, outAt, blamed>>

Pool == {m \in Machines : SiteOf[m] = elected}

\* mutant: no exclusions when condor_status does not answer.
PinnedToKnown(known) == IF ~known \/ Pool \subseteq excluded THEN Pool ELSE Pool \ excluded

\* pin_site.sh.  Excluding is skipped when it would leave no machine; when
\* condor_status does not answer it is not.
PinnedTo(known) == IF known /\ Pool \subseteq excluded THEN Pool ELSE Pool \ excluded

Submit(n) ==
    /\ n # "landing" /\ InnerRuns /\ MayRun(n)
    /\ \E known \in BOOLEAN :
          /\ pin' = [pin EXCEPT ![n] = PinnedTo(known)]
          /\ known \/ faults < MaxFaults
          /\ faults' = IF known THEN faults ELSE faults + 1
    /\ node' = [node EXCEPT ![n] = "idle"]
    /\ on' = [on EXCEPT ![n] = None]
    /\ UNCHANGED <<wu, wuTries, rescues, aborted, tries, elected, landingSub, excluded, log,
                   post, cause, outAt, blamed>>

\* The job runs: the log keeps the first site it names and the last machine.
Start(n) ==
    /\ node[n] = "idle"
    /\ \E m \in pin[n] :
          /\ on' = [on EXCEPT ![n] = m]
          /\ log' = [log EXCEPT ![n].site = IF @ = None THEN SiteOf[m] ELSE @,
                                ![n].machine = m]
    /\ node' = [node EXCEPT ![n] = "running"]
    /\ UNCHANGED <<wu, wuTries, rescues, aborted, tries, elected, landingSub, pin, excluded,
                   post, cause, outAt, blamed, faults>>

-------------------------------------------------------------------------------
(* The end of a job: condora_post_collect.py and post_script.sh. *)

PermanentCodes == {70, 73, 7000, 7001, 7002, 8001, 8006, 8009, 8023, 8026, 8501,
                   50110, 50113, 50664, 71102, 71104, 71105}
DataCodes == {8016, 8021, 8027, 8028, 8034}
MemoryCodes == {50660, 50661, 8004, 8030, 8031}
InfrastructureCodes == {50, 71, 72, 74, 81, 8020, 8033, 8035, 10003, 10004, 10005, 10006,
                        10007, 10008, 10009, 10018, 10032, 10042, 10043,
                        60311, 60315, 60316, 60321}

RemovedExit == -1002 \* what DAGMan reports for a removed job

\* How a job ends: cmsRun fails, stderr tells of a stall or a stage-out
\* failure, or the job is removed.  The wrapper exits with cmsRun's code, of
\* which the kernel keeps eight bits.
CmsRunFails == [code : CmsswCodes, tail : {""}, removal : {None}]
WrapperFails == [code : {1}, tail : Tails, removal : {None}]
Removed == [code : {RemovedExit}, tail : {""}, removal : Removals]
Success == [code |-> 0, tail |-> "", removal |-> None]
Failure == CmsRunFails \cup WrapperFails \cup Removed

\* The exit code DAGMan passes to the POST script as $RETURN.
Return(end) == IF end.code > 0 THEN end.code % 256 ELSE end.code

ByCode(code) ==
    CASE code = 80 \/ code \in PermanentCodes -> "permanent"
      [] code \in DataCodes -> "data"
      [] code \in MemoryCodes -> "infrastructure_memory"
      [] code \in InfrastructureCodes -> "infrastructure"
      [] OTHER -> "transient"

\* classify_error: the removal the log tells of comes before the exit code,
\* and what stderr tells refines what would be transient.
Classify(code, tail, removal) ==
    CASE removal = "zombie" -> "infrastructure"
      [] removal = "wall" -> "permanent"
      [] removal \notin {"zombie", "wall"} /\ code = 0 -> "success"
      [] removal \notin {"zombie", "wall"} /\ code # 0 ->
            IF ByCode(code) = "transient" /\ tail # "" THEN "infrastructure" ELSE ByCode(code)

Retryable(category, removal) ==
    removal \notin {"zombie", "wall"} /\ category \notin {"success", "permanent", "data"}

\* parse_condor_log takes the first removal of the file it has a name for.
LoggedRemoval(n, end) == IF log[n].removal # None THEN log[n].removal
                         ELSE IF end.removal \in {"zombie", "wall"} THEN end.removal ELSE None

PostData(n, end) ==
    LET code == Return(end)
        category == Classify(code, end.tail, LoggedRemoval(n, end))
    IN  [exit |-> code, category |-> category,
         final |-> \/ code = 0 \/ tries[n] >= Retries(n)
                   \/ ~Retryable(category, LoggedRemoval(n, end)),
         site |-> IF log[n].site # None THEN log[n].site ELSE elected,
         machine |-> log[n].machine]

Least(a, b) == IF a < b THEN a ELSE b

\* post_script.sh: the same exit code exhausted the retries of as many nodes
\* as make it systemic, or more than half of the jobs failed.
Systemic(posts, exit) ==
    Cardinality({p \in Procs : posts[p] # NoPost /\ posts[p].final /\ posts[p].exit = exit})
        >= Least(Cardinality(Procs), 3)
SiteBroken(posts) ==
    LET failed == Cardinality({p \in Procs : posts[p] # NoPost /\ posts[p].exit # 0})
    IN  failed > Cardinality(Procs) \div 2 /\ failed >= 3

PostExit(n, posts) ==
    CASE posts[n].exit = 0 -> 0
      [] posts[n].exit # 0 /\ (Systemic(posts, posts[n].exit) \/ SiteBroken(posts)) -> 43
      [] OTHER -> IF posts[n].category \in {"permanent", "data", "infrastructure"} THEN 42 ELSE 1

\* A job leaves the queue, and the POST script follows.  An abort removes the
\* jobs of the other nodes; a rescue would run them again.
JobEnds(n, end) ==
    LET posts == [post EXCEPT ![n] = PostData(n, end)]
        exit == PostExit(n, posts)
    IN  /\ log' = [log EXCEPT ![n].removal = LoggedRemoval(n, end)]
        /\ cause' = [cause EXCEPT ![n] = IF end \in CmsRunFails THEN end.code ELSE 0]
        /\ outAt' = [outAt EXCEPT ![n] = IF end = Success THEN elected ELSE @]
        /\ post' = posts
        /\ aborted' = (exit = 43)
        /\ IF exit = 43
           THEN /\ node' = [m \in Nodes |-> IF node[m] \in {"idle", "running"} THEN "ready" ELSE node[m]]
                /\ UNCHANGED <<tries, excluded>>
           ELSE /\ NodeEnds(n, exit)
                /\ excluded' = IF /\ exit # 0 /\ posts[n].category = "transient"
                                  /\ posts[n].machine # None
                               THEN excluded \cup {posts[n].machine} ELSE excluded
        /\ UNCHANGED <<wu, wuTries, rescues, elected, landingSub, pin, on, blamed>>

\* The cleanup node has no POST script.
CleanupEnds(end) ==
    /\ NodeEnds("cleanup", Return(end))
    /\ UNCHANGED <<wu, wuTries, rescues, aborted, elected, landingSub, pin, on, excluded, log,
                   post, cause, outAt, blamed>>

Ends(n, end) == IF n = "cleanup" THEN CleanupEnds(end) ELSE JobEnds(n, end)

JobSucceeds(n) == node[n] = "running" /\ Ends(n, Success) /\ UNCHANGED faults

JobFails(n) ==
    /\ node[n] = "running"
    /\ faults < MaxFaults /\ faults' = faults + 1
    /\ \E end \in Failure : Ends(n, end)

\* periodic_remove of an idle job: no machine matches it in time.
JobExpires(n) ==
    /\ node[n] = "idle"
    /\ \/ pin[n] = {} /\ UNCHANGED faults
       \/ faults < MaxFaults /\ faults' = faults + 1
    /\ Ends(n, [code |-> RemovedExit, tail |-> "", removal |-> "other"])

-------------------------------------------------------------------------------
(* The outer DAG: wu_post.sh and the rescue of the round. *)

\* mutant: the abort is not an end.
InnerOverUnaborted == \A n \in Nodes : node[n] \notin {"idle", "running"} /\ ~MayRun(n)

InnerOver == \/ aborted
             \/ \A n \in Nodes : node[n] \notin {"idle", "running"} /\ ~MayRun(n)

InnerDone == node["cleanup"] = "done"

Infra(s) == {p \in Procs : /\ HasPost(p) /\ post[p].site = s
                           /\ post[p].category \in {"infrastructure", "infrastructure_memory"}}
Total(s) == {p \in Procs : HasPost(p) /\ post[p].site = s}
Dominant == {s \in Sites : /\ Cardinality(Infra(s)) >= 2
                           /\ Cardinality(Infra(s)) * 100 >= 80 * Cardinality(Total(s))}
BestSites == {s \in Dominant : \A t \in Dominant : Cardinality(Infra(t)) <= Cardinality(Infra(s))}

\* Only the processing nodes' files are read.
NonRetryable == \E p \in Procs : HasPost(p) /\ post[p].category \in {"permanent", "data"}
NoPostData == \A p \in Procs : ~HasPost(p)

\* mutant: the post.json files stay.
CleanedButPost ==
    /\ node' = [n \in Nodes |-> "ready"]
    /\ elected' = None
    /\ excluded' = {}
    /\ UNCHANGED post

\* What is removed before a work unit runs again; the logs, the submit files
\* and the staged outputs stay.
Cleaned ==
    /\ node' = [n \in Nodes |-> "ready"]
    /\ post' = [n \in Nodes |-> NoPost]
    /\ elected' = None
    /\ excluded' = {}

WuSucceeds ==
    /\ wu = "running" /\ InnerDone
    /\ wu' = "done"
    /\ UNCHANGED <<wuTries, rescues, aborted, node, tries, elected, landingSub, pin, on, excluded,
                   log, post, cause, outAt, blamed, faults>>

\* Exit 42: the inner DAG keeps its rescue file and all that belongs to it.
WuFailsForGood ==
    /\ wu = "running" /\ InnerOver /\ ~InnerDone
    /\ NonRetryable \/ (~NoPostData /\ BestSites = {})
    /\ wu' = "failed"
    /\ UNCHANGED <<wuTries, rescues, aborted, node, tries, elected, landingSub, pin, on, excluded,
                   log, post, cause, outAt, blamed, faults>>

\* mutant: only the Requirements are rewritten.
ExcludedByRequirements(s) == UNCHANGED desired /\ req' = Sites

\* The site is taken out of landing.sub, where the new Requirements end up
\* comparing with an empty name, so that they admit every site.
Excluded(s) == desired' = desired \ {s} /\ req' = Sites

\* Exit 1: the work unit runs again from its landing node.
WuRetry ==
    /\ wu = "running" /\ InnerOver /\ ~InnerDone /\ ~NonRetryable
    /\ \/ /\ NoPostData /\ UNCHANGED <<landingSub, blamed>>
       \/ \E s \in BestSites : /\ Excluded(s)
                               /\ blamed' = blamed \cup {s}
    /\ Cleaned
    /\ tries' = [n \in Nodes |-> 0] /\ aborted' = FALSE
    /\ IF wuTries < WuRetries
       THEN wuTries' = wuTries + 1 /\ UNCHANGED wu
       ELSE wu' = "failed" /\ UNCHANGED wuTries
    /\ UNCHANGED <<rescues, pin, on, log, cause, outAt, faults>>

\* analyze_site_failures over every post.json there is.
ProblemSites ==
    {s \in Sites :
        LET all == {n \in Nodes : HasPost(n) /\ post[n].site = s}
            bad == {n \in all : post[n].category \in {"infrastructure", "infrastructure_memory", "data"}}
        IN  Cardinality(bad) >= 3 /\ 2 * Cardinality(bad) > Cardinality(all)}

\* mutant: the landing node runs again, to elect another site.
ResumedElsewhere ==
    node' = [n \in Nodes |-> IF node[n] = "done" /\ n # "landing" THEN "done" ELSE "ready"]

\* The inner DAGMan takes up its rescue file: what was done stays done, the
\* landing node with its elected site included.
Resumed == node' = [n \in Nodes |-> IF node[n] = "done" THEN "done" ELSE "ready"]

\* The rescue DAG of the round runs the failed work unit again.  The problem
\* sites replace the Requirements, unless landing.sub cannot be written (the
\* spool is a read-only mount).
Rescue ==
    /\ wu = "failed" /\ rescues < MaxRescues
    /\ wu' = "running" /\ wuTries' = 0 /\ rescues' = rescues + 1 /\ aborted' = FALSE
    /\ Resumed
    /\ tries' = [n \in Nodes |-> 0]
    /\ req' = req \/ (ProblemSites # {} /\ req' = Sites \ ProblemSites)
    /\ UNCHANGED <<elected, desired, pin, on, excluded, log, post, cause, outAt, blamed, faults>>

-------------------------------------------------------------------------------

Leaves(n) == JobSucceeds(n) \/ JobFails(n) \/ JobExpires(n)

Next ==
    \/ LandingElects \/ LandingFails
    \/ \E n \in Nodes : Submit(n) \/ Start(n) \/ Leaves(n)
    \/ WuSucceeds \/ WuFailsForGood \/ WuRetry
    \/ Rescue

Spec == Init /\ [][Next]_vars

\* DAGMan goes on, a job that may run runs or is removed, and a running job
\* ends: by itself, by its watchdog or by periodic_remove.
Fairness ==
    /\ WF_vars(LandingElects \/ LandingFails)
    /\ \A n \in Nodes : /\ WF_vars(Submit(n))
                         /\ WF_vars(Start(n) \/ JobExpires(n))
                         /\ WF_vars(JobSucceeds(n) \/ JobFails(n))
    /\ WF_vars(WuSucceeds \/ WuFailsForGood \/ WuRetry)

LiveSpec == Spec /\ Fairness

-------------------------------------------------------------------------------
(* Properties. *)

\* When the merge job may run, every input of it is at the site it is pinned to
\* (it resolves its files through that site's storage.json), through retries
\* of the work unit at another site, aborts and rescues.
MergeWhereTheOutputIs ==
    node["merge"] \in {"idle", "running"} =>
        /\ \A p \in Procs : outAt[p] = elected
        /\ \A m \in pin["merge"] : SiteOf[m] = elected

\* A work unit that is run again from its landing node starts without the
\* evidence of earlier runs: no post.json counts towards an abort or a site
\* failure, no exclusion and no elected site is left.
FreshStart ==
    node["landing"] # "done" =>
        /\ NoPostData /\ excluded = {} /\ elected = None
        /\ \A n \in Nodes \ {"landing"} : node[n] = "ready"

\* A site that wu_post.sh excluded is not elected again, whatever rewrites the
\* Requirements of the landing job later.
BlamedNotElected == elected \notin blamed

\* DAGMan's retry of a node does not run on the machine where the node failed
\* with a transient error, unless every machine of the site is recorded.
AvoidsBadMachines ==
    \A n \in Procs \cup {"merge"} :
        node[n] = "running" /\ tries[n] > 0 /\ ~(Pool \subseteq excluded)
            /\ post[n].category = "transient"
            => on[n] # post[n].machine

\* A work unit ends: no failure of a landing job, no exclusion of machines or
\* sites and no abort leaves it waiting.
WorkUnitEnds == wu = "running" ~> wu # "running"

-------------------------------------------------------------------------------
(* What a document says and the code does not do. *)

\* "Stop retrying; record bad file" (docs/error_handling.md:161): a cmsRun that
\* failed on its input is not run again.  Of its code only eight bits are seen.
DataFailureStops ==
    \A p \in Procs : node[p] = "ready" /\ tries[p] > 0 => cause[p] \notin DataCodes

===============================================================================
