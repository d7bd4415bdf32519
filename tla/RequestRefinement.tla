-------------------------- MODULE RequestRefinement ---------------------------
(***************************************************************************)
(* RequestLifecycle implements RequestStateMachine.  While an evaluation   *)
(* runs, clients see the rows as they were committed last; the polls in    *)
(* it, a rollback and everything HTCondor does are stuttering steps.       *)
(***************************************************************************)
EXTENDS RequestLifecycle

\* The row statuses of a DAG that has ended.
Ended == {"completed", "partial", "failed", "stopped"}

\* The database as other sessions read it.
Committed ==
    IF Evaluating THEN snap
    ELSE [status |-> status, head |-> head, round |-> round, produced |-> produced,
          dags |-> dags, used |-> used]

SM == INSTANCE RequestStateMachine WITH
          Rows <- DagId,
          status <- Committed.status,
          counted <- Committed.produced,
          rounds <- Committed.round,
          active <- ActiveDags(Committed.dags),
          over <- {d \in DagId : Committed.dags[d].st \in Ended}

\* What clients see is the abstract machine, whatever is polled, rolled back,
\* removed, stopped, rescued or planned: every commit is one of its steps.
ImplementsStateMachine == SM!Spec

===============================================================================
