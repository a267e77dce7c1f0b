----------------------------- MODULE TicketBoard -----------------------------
(***************************************************************************)
(* What the ticket store promises its callers: tickets whose status moves  *)
(* atomically along the transition table, and a dead-letter row that is    *)
(* marked in the very step that parks the ticket and cleared in the very   *)
(* step that releases it.  TicketStore, where a caller reads the ticket in *)
(* one step and writes it in another, implements this board.               *)
(***************************************************************************)
EXTENDS Naturals, TicketStates

CONSTANT Tickets

VARIABLES
    ticket,     \* tickets.status
    dlq,        \* the oshal_queue_dlq row of each ticket
    chatTask    \* the chat task linked to each ticket

boardVars == <<ticket, dlq, chatTask>>

DlqRow == [attempts : Nat, quarantined : BOOLEAN]

\* No row and a row with no attempts are told apart by no operation.
NoRow == [attempts |-> 0, quarantined |-> FALSE]

TypeOK ==
    /\ ticket \in [Tickets -> OshalTicketState]
    /\ dlq \in [Tickets -> DlqRow]
    /\ chatTask \in [Tickets -> ChatTaskState]

Init ==
    /\ ticket \in [Tickets -> {"backlog", "approved"}]
    /\ dlq = [t \in Tickets |-> NoRow]
    /\ chatTask = [t \in Tickets |-> "none"]

\* The part every status write shares: the status and the linked task.
Write(t, to) ==
    /\ to \in VALID_TRANSITIONS[ticket[t]]
    /\ ticket' = [ticket EXCEPT ![t] = to]
    /\ chatTask' = [chatTask EXCEPT ![t] = linkedChatTaskStatus(to, @)]

Move(t, to) ==
    /\ Write(t, to)
    /\ UNCHANGED dlq

Quarantine(t) ==
    /\ Write(t, "dead_letter")
    /\ dlq'[t].quarantined
    /\ dlq'[t].attempts \in Nat \ {0}
    /\ dlq' = [dlq EXCEPT ![t] = dlq'[t]]

Requeue(t) ==
    /\ ticket[t] = "dead_letter"
    /\ dlq[t].quarantined
    /\ Write(t, "approved")
    /\ dlq' = [dlq EXCEPT ![t] = NoRow]

CountFailure(t) ==
    /\ ~dlq[t].quarantined
    /\ dlq' = [dlq EXCEPT ![t].attempts = @ + 1]
    /\ UNCHANGED <<ticket, chatTask>>

LinkTask(t) ==
    /\ chatTask[t] # "open"
    /\ chatTask' = [chatTask EXCEPT ![t] = "open"]
    /\ UNCHANGED <<ticket, dlq>>

Next ==
    \E t \in Tickets :
        \/ \E to \in OshalTicketState : Move(t, to)
        \/ Quarantine(t)
        \/ Requeue(t)
        \/ CountFailure(t)
        \/ LinkTask(t)

Spec == Init /\ [][Next]_boardVars
=============================================================================
