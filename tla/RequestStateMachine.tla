------------------------- MODULE RequestStateMachine --------------------------
(***************************************************************************)
(* What a client of the API sees of one request: its status, the events    *)
(* counted, how many rounds were planned, and which rows of the dags table *)
(* are submitted or running (active) or have ended (over).  An evaluation  *)
(* is one transition, whatever it polled, and one that is rolled back is   *)
(* none.  RequestRefinement says how RequestLifecycle implements it.       *)
(***************************************************************************)
EXTENDS Naturals

CONSTANTS
    Rows,   \* rows the dags table may get for the request
    Target  \* target_events

VARIABLES
    status,
    counted,  \* events_produced
    rounds,   \* current_round
    active,   \* rows submitted or running
    over      \* rows that have ended

public == <<status, counted, rounds, active, over>>

Terminal == {"completed", "failed", "aborted"}

Init ==
    /\ status = "submitted" /\ counted = 0 /\ rounds = 0
    /\ active = {} /\ over = {}

Moves(from, to) == status \in from /\ status' \in to

\* Rows that are no longer active have ended, and what has ended stays so.
RowsEnd == active' \subseteq active /\ (active \ active') \cup over \subseteq over'

\* A row becomes active that was neither active nor over.
RowStarts ==
    \E r \in Rows \ (active \cup over) :
        /\ active' \subseteq active \cup {r} /\ r \in active' /\ r \notin over'
        /\ (active \ active') \cup over \subseteq over'

\* A new round, planned because the target is not reached.
RoundStarts == RowStarts /\ rounds' = rounds + 1 /\ counted' < Target

RowsStay == UNCHANGED <<active, over>>

-------------------------------------------------------------------------------

\* SUBMITTED and RESUBMITTING requests are queued.
Enqueued ==
    /\ Moves({"submitted", "resubmitting"}, {"queued"})
    /\ RowsStay /\ UNCHANGED <<counted, rounds>>

\* A queued request finds its rows running, submits its rescue or a new round.
Admitted ==
    /\ Moves({"queued"}, {"active"})
    /\ \/ active # {} /\ RowsStay /\ UNCHANGED rounds
       \/ active = {} /\ RowStarts /\ UNCHANGED rounds
       \/ active = {} /\ RoundStarts
    /\ UNCHANGED counted

NothingLeft ==
    /\ Moves({"queued"}, {"completed"})
    /\ active = {} /\ counted >= Target
    /\ RowsEnd /\ UNCHANGED <<counted, rounds>>

\* One evaluation of an ACTIVE request: it never forgets events, starts one row
\* at most, and leaves ACTIVE for QUEUED or COMPLETED only without any.
Evaluated ==
    /\ status = "active" /\ counted' >= counted
    /\ \/ status' = "active" /\ RoundStarts
       \/ status' \in {"active", "held", "resubmitting"} /\ RowsEnd /\ UNCHANGED rounds
       \/ /\ status' = "queued" /\ active' = {} /\ counted' < Target
          /\ RowsEnd /\ UNCHANGED rounds
       \/ /\ status' = "completed" /\ active' = {} /\ counted' >= Target
          /\ RowsEnd /\ UNCHANGED rounds

\* The operator stops or fails a running request; it has stopped.
StopAsked ==
    /\ Moves({"active", "stopping"}, {"stopping"})
    /\ RowsStay /\ UNCHANGED <<counted, rounds>>

Stopped ==
    /\ Moves({"stopping"}, {"paused", "failed"})
    /\ active' = {} /\ RowsEnd /\ UNCHANGED <<counted, rounds>>

Released ==
    /\ Moves({"held"}, {"queued"}) \/ Moves({"paused"}, {"resubmitting"})
    /\ RowsStay /\ UNCHANGED <<counted, rounds>>

Failed ==
    /\ Moves({"held", "paused"}, {"failed"})
    /\ active' = {} /\ RowsEnd /\ UNCHANGED <<counted, rounds>>

TimedOut ==
    /\ Moves({"submitted", "resubmitting"}, {"failed"})
    /\ RowsStay /\ UNCHANGED <<counted, rounds>>

Aborted ==
    /\ status \notin Terminal /\ status' = "aborted"
    /\ RowsStay /\ UNCHANGED <<counted, rounds>>

Next ==
    \/ Enqueued \/ Admitted \/ NothingLeft \/ Evaluated
    \/ StopAsked \/ Stopped \/ Released \/ Failed \/ TimedOut \/ Aborted

Spec == Init /\ [][Next]_public

===============================================================================
