----------------------------- MODULE TicketStore -----------------------------
(***************************************************************************)
(* TicketService over PostgresTicketStore, with the DeadLetterService that *)
(* writes through it.  A caller (a request handler, the queue manager, a   *)
(* sweep, the escalation listener) reads the ticket in one step and writes *)
(* it in a later one; between them every other caller may run.  The write  *)
(* is one transaction: row lock, compare-and-set against the status that   *)
(* was read, linked chat task, history row and dead-letter row.            *)
(***************************************************************************)
EXTENDS Naturals, TicketStates

CONSTANTS
    Tickets,
    Callers,        \* calls that can be in flight at once
    Requested,      \* the statuses callers of updateStatus(As) ask for
    QmMaxAttempts,  \* QM_MAX_ATTEMPTS: failed cycles before quarantine
    Refusable,      \* tickets whose dispatch a policy refuses outright
    AttemptBound    \* bound of the model on the persisted attempt counter

ASSUME QmMaxAttemptsAssumption == QmMaxAttempts \in Nat \ {0}
ASSUME AttemptBoundAssumption == AttemptBound \in Nat
ASSUME RefusableAssumption == Refusable \subseteq Tickets
ASSUME RequestedAssumption == Requested \subseteq OshalTicketState

VARIABLES
    ticket,     \* tickets.status
    dlq,        \* the oshal_queue_dlq row of each ticket
    chatTask,   \* the chat task linked to each ticket
    call        \* what each caller has read and not yet written

vars == <<ticket, dlq, chatTask, call>>

DlqRow == [attempts : Nat, quarantined : BOOLEAN]

NoRow == [attempts |-> 0, quarantined |-> FALSE]

\* changedBy: the escalation listener counts only what "system" escalates; an
\* operator's or a bot's identity is one to it.
Actors == {"system", "operator"}

(***************************************************************************)
(* A call in flight.  "read" is a quarantine that has its attempt count    *)
(* and has not read the ticket yet; "seen" is the status that was read.    *)
(***************************************************************************)
Idle == [op |-> "idle"]

StatusCall == [op : {"status"}, ticket : Tickets, seen : OshalTicketState,
               to : OshalTicketState, actor : Actors]
CountCall  == [op : {"count"}, ticket : Tickets]
ReadCall   == [op : {"read"}, ticket : Tickets, attempts : Nat \ {0}]
ParkCall   == [op : {"park"}, ticket : Tickets, seen : OshalTicketState,
               attempts : Nat \ {0}]
RequeueCall == [op : {"requeue"}, ticket : Tickets]

Call == StatusCall \cup CountCall \cup ReadCall \cup ParkCall \cup RequeueCall

TypeOK ==
    /\ ticket \in [Tickets -> OshalTicketState]
    /\ dlq \in [Tickets -> DlqRow]
    /\ chatTask \in [Tickets -> ChatTaskState]
    /\ call \in [Callers -> Call \cup {Idle}]

Init ==
    /\ ticket \in [Tickets -> {"backlog", "approved"}]
    /\ dlq = [t \in Tickets |-> NoRow]
    /\ chatTask = [t \in Tickets |-> "none"]
    /\ call = [c \in Callers |-> Idle]

Continue(c, next) == call' = [call EXCEPT ![c] = next]

\* The call returns, or throws to a caller that only logs.
Return(c) == Continue(c, Idle)

InFlight(c, op) == call[c] \in Call /\ call[c].op = op

(***************************************************************************)
(* The transaction of PostgresTicketStore.updateStatus.                    *)
(***************************************************************************)
\* Mutant of ExpectedStatus: the locked row is not compared with what was read.
ExpectedStatusUnchecked(c) == TRUE

ExpectedStatus(c) == ticket[call[c].ticket] = call[c].seen

WriteStatus(t, to) ==
    /\ ticket' = [ticket EXCEPT ![t] = to]
    /\ chatTask' = [chatTask EXCEPT ![t] = linkedChatTaskStatus(to, @)]

\* TicketStatusConflictError: the row moved since it was read.
Conflict(c) ==
    /\ call[c] \in StatusCall \cup ParkCall
    /\ ~ExpectedStatus(c)
    /\ Return(c)
    /\ UNCHANGED <<ticket, dlq, chatTask>>

(***************************************************************************)
(* TicketService.updateStatus and updateStatusAs.  A move to the same      *)
(* status returns and a move outside the table throws: neither is a step.  *)
(***************************************************************************)
UpdateStatus(c, t, to, actor) ==
    /\ call[c] = Idle
    /\ to # ticket[t]
    /\ isTicketStatusTransitionAllowed(ticket[t], to)
    /\ Continue(c, [op |-> "status", ticket |-> t, seen |-> ticket[t],
                    to |-> to, actor |-> actor])
    /\ UNCHANGED <<ticket, dlq, chatTask>>

(***************************************************************************)
(* The commit, and the status event emitted after it.  The dead-letter     *)
(* listener answers a system escalation by recording a failed cycle        *)
(* without being awaited: that continues in this caller's place.           *)
(***************************************************************************)
CommitStatus(c) ==
    /\ InFlight(c, "status")
    /\ ExpectedStatus(c)
    /\ WriteStatus(call[c].ticket, call[c].to)
    /\ IF call[c].to = "escalated" /\ call[c].actor = "system"
         THEN Continue(c, [op |-> "count", ticket |-> call[c].ticket])
         ELSE Return(c)
    /\ UNCHANGED dlq

(***************************************************************************)
(* DeadLetterService.recordFailureCycle: the upsert counts the failure on  *)
(* a row that is not quarantined; on a quarantined one it returns at once. *)
(***************************************************************************)
\* Mutant of Counted: recordFailureCycle without WHERE quarantined_at IS NULL.
CountedAlsoQuarantined(c, t) ==
    /\ dlq[t].attempts < AttemptBound
    /\ dlq' = [dlq EXCEPT ![t].attempts = @ + 1]
    /\ IF dlq[t].attempts + 1 < QmMaxAttempts
         THEN Return(c)
         ELSE Continue(c, [op |-> "read", ticket |-> t,
                           attempts |-> dlq[t].attempts + 1])
    /\ UNCHANGED <<ticket, chatTask>>

Counted(c, t) ==
    /\ dlq[t].attempts < AttemptBound
    /\ ~dlq[t].quarantined
    /\ dlq' = [dlq EXCEPT ![t].attempts = @ + 1]
    /\ IF dlq[t].attempts + 1 < QmMaxAttempts
         THEN Return(c)
         ELSE Continue(c, [op |-> "read", ticket |-> t,
                           attempts |-> dlq[t].attempts + 1])
    /\ UNCHANGED <<ticket, chatTask>>

DispatchFailure(c, t) ==
    /\ call[c] = Idle
    /\ Counted(c, t)

EscalationCycle(c) ==
    /\ InFlight(c, "count")
    /\ Counted(c, call[c].ticket)

\* The row is quarantined already, or the store cannot be written (fail open).
EscalationCycleUncounted(c) ==
    /\ InFlight(c, "count")
    /\ Return(c)
    /\ UNCHANGED <<ticket, dlq, chatTask>>

(***************************************************************************)
(* TicketService.quarantineToDeadLetter, for an exhausted counter and for  *)
(* a deterministic refusal, which records one attempt.                     *)
(***************************************************************************)
\* Mutant of ReadTicket: the table is not consulted.
ReadTicketUnchecked(c, t, attempts) ==
    /\ Continue(c, [op |-> "park", ticket |-> t, seen |-> ticket[t],
                    attempts |-> attempts])
    /\ UNCHANGED <<ticket, dlq, chatTask>>

ReadTicket(c, t, attempts) ==
    /\ "dead_letter" \in VALID_TRANSITIONS[ticket[t]]
    /\ Continue(c, [op |-> "park", ticket |-> t, seen |-> ticket[t],
                    attempts |-> attempts])
    /\ UNCHANGED <<ticket, dlq, chatTask>>

QuarantineExhausted(c) ==
    /\ InFlight(c, "read")
    /\ ReadTicket(c, call[c].ticket, call[c].attempts)

QuarantineNotAllowed(c) ==
    /\ InFlight(c, "read")
    /\ "dead_letter" \notin VALID_TRANSITIONS[ticket[call[c].ticket]]
    /\ Return(c)
    /\ UNCHANGED <<ticket, dlq, chatTask>>

QuarantineRefusal(c, t) ==
    /\ t \in Refusable
    /\ call[c] = Idle
    /\ ReadTicket(c, t, 1)

CommitQuarantine(c) ==
    /\ InFlight(c, "park")
    /\ ExpectedStatus(c)
    /\ WriteStatus(call[c].ticket, "dead_letter")
    /\ dlq' = [dlq EXCEPT ![call[c].ticket] =
                 [attempts |-> call[c].attempts, quarantined |-> TRUE]]
    /\ Return(c)

(***************************************************************************)
(* DeadLetterService.requeue reads the row, then requeueFromDeadLetter     *)
(* reads the ticket and commits; the reset must hit a quarantined row.     *)
(***************************************************************************)
Requeue(c, t) ==
    /\ call[c] = Idle
    /\ dlq[t].quarantined
    /\ ticket[t] = "dead_letter"
    /\ Continue(c, [op |-> "requeue", ticket |-> t])
    /\ UNCHANGED <<ticket, dlq, chatTask>>

\* Mutant of CommitRequeue: the row is reset first, and the ticket moved in a
\* second write.
CommitRequeueSplit(c) ==
    /\ InFlight(c, "requeue")
    /\ dlq[call[c].ticket].quarantined
    /\ dlq' = [dlq EXCEPT ![call[c].ticket] = NoRow]
    /\ Continue(c, [op |-> "status", ticket |-> call[c].ticket,
                    seen |-> "dead_letter", to |-> "approved",
                    actor |-> "operator"])
    /\ UNCHANGED <<ticket, chatTask>>

CommitRequeue(c) ==
    /\ InFlight(c, "requeue")
    /\ ticket[call[c].ticket] = "dead_letter"
    /\ dlq[call[c].ticket].quarantined
    /\ WriteStatus(call[c].ticket, "approved")
    /\ dlq' = [dlq EXCEPT ![call[c].ticket] = NoRow]
    /\ Return(c)

RequeueRolledBack(c) ==
    /\ InFlight(c, "requeue")
    /\ \/ ticket[call[c].ticket] # "dead_letter"
       \/ ~dlq[call[c].ticket].quarantined
    /\ Return(c)
    /\ UNCHANGED <<ticket, dlq, chatTask>>

\* linkTask inserts whatever the ticket's status is.
LinkTask(t) ==
    /\ chatTask[t] # "open"
    /\ chatTask' = [chatTask EXCEPT ![t] = "open"]
    /\ UNCHANGED <<ticket, dlq, call>>

Next ==
    \/ \E t \in Tickets : LinkTask(t)
    \/ \E c \in Callers :
         \/ Conflict(c) \/ CommitStatus(c)
         \/ EscalationCycle(c) \/ EscalationCycleUncounted(c)
         \/ QuarantineExhausted(c) \/ QuarantineNotAllowed(c)
         \/ CommitQuarantine(c) \/ CommitRequeue(c) \/ RequeueRolledBack(c)
         \/ \E t \in Tickets :
              \/ DispatchFailure(c, t) \/ QuarantineRefusal(c, t)
              \/ Requeue(c, t)
              \/ \E to \in Requested, actor \in Actors :
                   UpdateStatus(c, t, to, actor)

Spec == Init /\ [][Next]_vars
-----------------------------------------------------------------------------
(***************************************************************************)
(* Properties.                                                             *)
(***************************************************************************)

\* Every write under way is one the table offers from the status its caller
\* read, however long ago that was and whichever handler started it.
InFlightMovesAreInTable ==
    \A c \in Callers :
        /\ InFlight(c, "status")
              => call[c].to \in VALID_TRANSITIONS[call[c].seen]
        /\ InFlight(c, "park")
              => "dead_letter" \in VALID_TRANSITIONS[call[c].seen]

\* A ticket moves only along the table, although the status a caller checked
\* the table with was read one step earlier and other callers wrote since
\* (the expectedStatus compare-and-set under the row lock).
OnlyTableTransitions ==
    [][\A t \in Tickets :
          ticket'[t] # ticket[t] => ticket'[t] \in VALID_TRANSITIONS[ticket[t]]
      ]_vars

\* A dead-letter row is marked quarantined in the very step that parks its
\* ticket, and a marked row is cleared only in the very step that releases it,
\* so that no crash and no concurrent write comes between the two.  That every
\* release clears the row is not said: a plain status write leaves it marked.
QuarantineIsAtomic ==
    [][\A t \in Tickets :
          /\ ~dlq[t].quarantined /\ dlq'[t].quarantined
                => ticket[t] # "dead_letter" /\ ticket'[t] = "dead_letter"
          /\ dlq[t].quarantined /\ ~dlq'[t].quarantined
                => ticket[t] = "dead_letter" /\ ticket'[t] = "approved"
      ]_vars

\* Failure signals that trail a quarantine leave its evidence alone for as
\* long as the ticket stays parked: nothing recounts or replaces the row.
ParkedEvidenceIsFrozen ==
    [][\A t \in Tickets :
          dlq[t].quarantined /\ ticket[t] = "dead_letter"
             /\ ticket'[t] = "dead_letter" => dlq'[t] = dlq[t]
      ]_vars

\* The read-then-write callers together behave like the board whose every
\* operation is one atomic step.
Board == INSTANCE TicketBoard WITH
            Tickets <- Tickets,
            ticket <- ticket,
            dlq <- dlq,
            chatTask <- chatTask

ImplementsBoard == Board!Spec
=============================================================================
