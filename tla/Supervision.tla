------------------------------ MODULE Supervision ------------------------------
(***************************************************************************)
(* Who runs the lifecycle loop: the asyncio task of main.py, the watchdog  *)
(* that restarts it when it ends, and POST /lifecycle/restart              *)
(* (api/lifecycle.py), which cancels it and creates another one.           *)
(*                                                                         *)
(* A step is what the event loop runs between two awaits.  The loop itself *)
(* is reduced to where a cancellation finds it: in the body of its try     *)
(* statement, or in the sleep of its except clause.                        *)
(***************************************************************************)
EXTENDS Naturals, FiniteSets

CONSTANTS
    Callers,   \* calls of the restart endpoint, each made once
    MaxTasks   \* bound: lifecycle tasks ever created

ASSUME SupervisionAssumption ==
    /\ MaxTasks \in Nat \ {0}
    /\ IsFiniteSet(Callers)

Task == 1..MaxTasks

Done == {"returned", "cancelled"}

VARIABLES
    task,       \* each lifecycle task: "none", "created", "cycle", "errorSleep" or Done
    cancelling, \* tasks whose cancel() was called and that still run
    current,    \* app.state.lifecycle_task
    timers,     \* restarts the watchdog has scheduled
    call,       \* each call of the restart endpoint: "todo", "waiting" or "done"
    awaited     \* the old task it awaits

vars == <<task, cancelling, current, timers, call, awaited>>

Init ==
    /\ task = [t \in Task |-> IF t = 1 THEN "created" ELSE "none"]
    /\ cancelling = {}
    /\ current = 1
    /\ timers = 0
    /\ call = [c \in Callers |-> "todo"]
    /\ awaited = [c \in Callers |-> 1]

\* Tasks that evaluate requests, now or after a pause.
Loops == {t \in Task : task[t] \in {"created", "cycle", "errorSleep"}}

\* asyncio.create_task(run_lifecycle()) with a watchdog, made the current one.
CreateTask ==
    \E t \in Task :
        /\ task[t] = "none" /\ \A u \in Task : u < t => task[u] # "none"
        /\ task' = [task EXCEPT ![t] = "created"]
        /\ current' = t

\* The watchdog's done callback: a task that was cancelled stays down, any
\* other end schedules a restart.
WatchdogRestarts(outcome) == outcome # "cancelled"

Ends(t, outcome) ==
    /\ task' = [task EXCEPT ![t] = outcome]
    /\ cancelling' = cancelling \ {t}
    /\ timers' = IF WatchdogRestarts(outcome) THEN timers + 1 ELSE timers
    /\ UNCHANGED <<current, call, awaited>>

-------------------------------------------------------------------------------
(* The loop. *)

Moves(t, from, to) ==
    /\ task[t] = from /\ t \notin cancelling
    /\ task' = [task EXCEPT ![t] = to]
    /\ UNCHANGED <<cancelling, current, timers, call, awaited>>

Starts(t) == Moves(t, "created", "cycle")
CycleFails(t) == Moves(t, "cycle", "errorSleep")
NextCycle(t) == Moves(t, "errorSleep", "cycle")

\* What a cancelled task ends as.  main_loop catches the CancelledError of its
\* try statement and breaks, so run_lifecycle returns; raised before the first
\* step, or in the sleep of the except clause, it ends the task as cancelled.
CancelOutcome(t) == IF task[t] = "cycle" THEN "returned" ELSE "cancelled"

CancelTakesEffect(t) ==
    /\ t \in cancelling
    /\ Ends(t, CancelOutcome(t))

\* The timer of the watchdog: whatever runs by now, another task is created.
TimerFires ==
    /\ timers > 0
    /\ CreateTask
    /\ timers' = timers - 1
    /\ UNCHANGED <<cancelling, call, awaited>>

-------------------------------------------------------------------------------
(* POST /lifecycle/restart *)

RestartCancels(c) ==
    /\ call[c] = "todo"
    /\ task[current] \notin Done
    /\ cancelling' = cancelling \cup {current}
    /\ call' = [call EXCEPT ![c] = "waiting"]
    /\ awaited' = [awaited EXCEPT ![c] = current]
    /\ UNCHANGED <<task, current, timers>>

\* The current task is over already: nothing to await.
RestartAtOnce(c) ==
    /\ call[c] = "todo"
    /\ task[current] \in Done
    /\ CreateTask
    /\ call' = [call EXCEPT ![c] = "done"]
    /\ UNCHANGED <<cancelling, timers, awaited>>

\* mutant: the CancelledError of the old task ends the call.
ResumesAfterReturn(outcome) == outcome = "returned"

\* await old_task returns or raises CancelledError; both go on.
Resumes(outcome) == outcome \in Done

RestartCreates(c) ==
    /\ call[c] = "waiting"
    /\ Resumes(task[awaited[c]])
    /\ CreateTask
    /\ call' = [call EXCEPT ![c] = "done"]
    /\ UNCHANGED <<cancelling, timers, awaited>>

-------------------------------------------------------------------------------

LoopStep(t) == Starts(t) \/ CycleFails(t) \/ NextCycle(t) \/ CancelTakesEffect(t)

Call(c) == RestartCancels(c) \/ RestartAtOnce(c) \/ RestartCreates(c)

Next == (\E t \in Task : LoopStep(t)) \/ TimerFires \/ \E c \in Callers : Call(c)

\* The event loop runs whatever is ready; a cycle need not fail, and nobody
\* has to call the endpoint.
Fairness ==
    /\ \A t \in Task : WF_vars(Starts(t)) /\ WF_vars(NextCycle(t)) /\ WF_vars(CancelTakesEffect(t))
    /\ WF_vars(TimerFires)
    /\ \A c \in Callers : WF_vars(RestartCreates(c))

Spec == Init /\ [][Next]_vars /\ Fairness

-------------------------------------------------------------------------------
(* Properties. *)

\* Whatever restarts are called and wherever they find the loop, a lifecycle
\* loop evaluates requests again and again.
LoopComesBack == []<>(\E t \in Task : task[t] = "cycle")

-------------------------------------------------------------------------------
(* What a comment says and the code does not do (see the README). *)

\* "don't restart on intentional cancellation" (main.py:45):
\* an intentional cancellation is not followed by a restart of the cancelled
\* task: at any time at most one task runs the lifecycle loop.
SingleLoop == Cardinality(Loops \ cancelling) <= 1

===============================================================================
