-------------------------- MODULE TicketStoreProofs --------------------------
(***************************************************************************)
(* What TicketStore guarantees for every set of tickets and callers, every *)
(* QM_MAX_ATTEMPTS and whatever statuses the callers ask for.              *)
(*                                                                         *)
(* The argument is one inductive invariant: a call in flight carries a     *)
(* status the ticket had when the call read it, and a target the table     *)
(* offers from that status.  The compare-and-set then makes the target one *)
(* the table offers from the status the ticket has when the write commits. *)
(***************************************************************************)
EXTENDS TicketStore, TLAPS

\* The inductive invariant.
IInv == TypeOK /\ InFlightMovesAreInTable

(***************************************************************************)
(* The table and the linked task.                                          *)
(***************************************************************************)

\* The requeue's move is in the table, and no ticket is parked twice.
LEMMA DeadLetterMoves ==
    /\ "approved" \in VALID_TRANSITIONS["dead_letter"]
    /\ "dead_letter" \notin VALID_TRANSITIONS["dead_letter"]
BY DEF VALID_TRANSITIONS, Fail, Park

\* Closing a linked task leaves a task state.
LEMMA LinkedTaskType ==
    ASSUME NEW status, NEW task \in ChatTaskState
    PROVE  linkedChatTaskStatus(status, task) \in ChatTaskState
BY DEF linkedChatTaskStatus, ChatTaskState, Fail

\* The operation names the kind of a call in flight.
LEMMA CallKinds ==
    ASSUME NEW c \in Callers
    PROVE  /\ InFlight(c, "status") => call[c] \in StatusCall
           /\ InFlight(c, "count") => call[c] \in CountCall
           /\ InFlight(c, "read") => call[c] \in ReadCall
           /\ InFlight(c, "park") => call[c] \in ParkCall
           /\ InFlight(c, "requeue") => call[c] \in RequeueCall
BY DEF InFlight, Call, StatusCall, CountCall, ReadCall, ParkCall, RequeueCall, Actors, OshalTicketState

\* The kinds of call are disjoint from one another and from no call at all.
LEMMA KindsDisjoint ==
    /\ Idle \notin Call
    /\ \A x \in StatusCall : x \in Call /\ x.op = "status"
    /\ \A x \in CountCall : x \in Call /\ x.op = "count"
    /\ \A x \in ReadCall : x \in Call /\ x.op = "read"
    /\ \A x \in ParkCall : x \in Call /\ x.op = "park"
    /\ \A x \in RequeueCall : x \in Call /\ x.op = "requeue"
BY DEF Idle, Call, StatusCall, CountCall, ReadCall, ParkCall, RequeueCall, Actors, OshalTicketState

(***************************************************************************)
(* Type correctness.                                                       *)
(***************************************************************************)

\* A write of a legal status keeps the tickets and their tasks well typed.
LEMMA WriteStatusType ==
    ASSUME TypeOK, NEW t \in Tickets, NEW to \in OshalTicketState,
           WriteStatus(t, to)
    PROVE  /\ ticket' \in [Tickets -> OshalTicketState]
           /\ chatTask' \in [Tickets -> ChatTaskState]
<1>1. linkedChatTaskStatus(to, chatTask[t]) \in ChatTaskState
  BY LinkedTaskType DEF TypeOK
<1> QED BY <1>1 DEF TypeOK, WriteStatus

\* What a caller does next is a call again.
LEMMA ContinueType ==
    ASSUME TypeOK, NEW c \in Callers, NEW next \in Call \cup {Idle},
           Continue(c, next)
    PROVE  call' \in [Callers -> Call \cup {Idle}]
BY DEF TypeOK, Continue

LEMMA ReturnType ==
    ASSUME TypeOK, NEW c \in Callers, Return(c)
    PROVE  call' \in [Callers -> Call \cup {Idle}]
BY ContinueType DEF Return

\* Counting a failure, for a dispatch or for an escalation.
LEMMA CountedType ==
    ASSUME TypeOK, NEW c \in Callers, NEW t \in Tickets, Counted(c, t)
    PROVE  TypeOK'
<1>1. dlq[t] \in DlqRow /\ dlq[t].attempts + 1 \in Nat \ {0}
  BY DEF TypeOK, DlqRow
<1>2. dlq' \in [Tickets -> DlqRow]
  BY <1>1 DEF TypeOK, DlqRow, Counted
<1>3. [op |-> "read", ticket |-> t, attempts |-> dlq[t].attempts + 1] \in Call
  BY <1>1 DEF Call, ReadCall
<1>4. call' \in [Callers -> Call \cup {Idle}]
  BY <1>3, ContinueType, ReturnType DEF Counted
<1> QED BY <1>2, <1>4 DEF TypeOK, Counted

\* Reading the ticket for a quarantine.
LEMMA ReadTicketType ==
    ASSUME TypeOK, NEW c \in Callers, NEW t \in Tickets,
           NEW attempts \in Nat \ {0}, ReadTicket(c, t, attempts)
    PROVE  TypeOK'
<1>1. [op |-> "park", ticket |-> t, seen |-> ticket[t],
       attempts |-> attempts] \in Call
  BY DEF Call, ParkCall, TypeOK
<1>2. call' \in [Callers -> Call \cup {Idle}]
  BY <1>1, ContinueType DEF ReadTicket
<1> QED BY <1>2 DEF TypeOK, ReadTicket

LEMMA TypeStep ==
    ASSUME TypeOK, [Next]_vars
    PROVE  TypeOK'
<1>1. ASSUME NEW t \in Tickets, LinkTask(t) PROVE TypeOK'
  BY <1>1 DEF TypeOK, LinkTask, ChatTaskState
<1>2. ASSUME NEW c \in Callers, Conflict(c) PROVE TypeOK'
  BY <1>2, ReturnType DEF TypeOK, Conflict
<1>3. ASSUME NEW c \in Callers, CommitStatus(c) PROVE TypeOK'
  <2>1. call[c] \in StatusCall
    BY <1>3, CallKinds DEF CommitStatus
  <2>2. call[c].ticket \in Tickets /\ call[c].to \in OshalTicketState
    BY <2>1 DEF StatusCall
  <2>3. [op |-> "count", ticket |-> call[c].ticket] \in Call
    BY <2>2 DEF Call, CountCall
  <2>4. call' \in [Callers -> Call \cup {Idle}]
    BY <1>3, <2>3, ContinueType, ReturnType DEF CommitStatus
  <2> QED BY <1>3, <2>2, <2>4, WriteStatusType DEF TypeOK, CommitStatus
<1>4. ASSUME NEW c \in Callers, EscalationCycle(c) PROVE TypeOK'
  <2>1. call[c].ticket \in Tickets
    BY <1>4, CallKinds DEF EscalationCycle, CountCall
  <2> QED BY <1>4, <2>1, CountedType DEF EscalationCycle
<1>5. ASSUME NEW c \in Callers, EscalationCycleUncounted(c) PROVE TypeOK'
  BY <1>5, ReturnType DEF TypeOK, EscalationCycleUncounted
<1>6. ASSUME NEW c \in Callers, QuarantineExhausted(c) PROVE TypeOK'
  <2>1. call[c] \in ReadCall
    BY <1>6, CallKinds DEF QuarantineExhausted
  <2> QED BY <1>6, <2>1, ReadTicketType DEF QuarantineExhausted, ReadCall
<1>7. ASSUME NEW c \in Callers, QuarantineNotAllowed(c) PROVE TypeOK'
  BY <1>7, ReturnType DEF TypeOK, QuarantineNotAllowed
<1>8. ASSUME NEW c \in Callers, CommitQuarantine(c) PROVE TypeOK'
  <2>1. call[c] \in ParkCall
    BY <1>8, CallKinds DEF CommitQuarantine
  <2>2. call[c].ticket \in Tickets /\ call[c].attempts \in Nat
    BY <2>1 DEF ParkCall
  <2>3. "dead_letter" \in OshalTicketState
    BY DEF OshalTicketState
  <2>4. dlq' \in [Tickets -> DlqRow]
    BY <1>8, <2>2 DEF TypeOK, CommitQuarantine, DlqRow
  <2> QED BY <1>8, <2>2, <2>3, <2>4, WriteStatusType, ReturnType
          DEF TypeOK, CommitQuarantine
<1>9. ASSUME NEW c \in Callers, CommitRequeue(c) PROVE TypeOK'
  <2>1. call[c].ticket \in Tickets
    BY <1>9, CallKinds DEF CommitRequeue, RequeueCall
  <2>2. "approved" \in OshalTicketState
    BY DEF OshalTicketState
  <2>3. dlq' \in [Tickets -> DlqRow]
    BY <1>9, <2>1 DEF TypeOK, CommitRequeue, DlqRow, NoRow
  <2> QED BY <1>9, <2>1, <2>2, <2>3, WriteStatusType, ReturnType
          DEF TypeOK, CommitRequeue
<1>10. ASSUME NEW c \in Callers, RequeueRolledBack(c) PROVE TypeOK'
  BY <1>10, ReturnType DEF TypeOK, RequeueRolledBack
<1>11. ASSUME NEW c \in Callers, NEW t \in Tickets, DispatchFailure(c, t)
       PROVE  TypeOK'
  BY <1>11, CountedType DEF DispatchFailure
<1>12. ASSUME NEW c \in Callers, NEW t \in Tickets, QuarantineRefusal(c, t)
       PROVE  TypeOK'
  BY <1>12, ReadTicketType DEF QuarantineRefusal
<1>13. ASSUME NEW c \in Callers, NEW t \in Tickets, Requeue(c, t)
       PROVE  TypeOK'
  <2>1. [op |-> "requeue", ticket |-> t] \in Call
    BY DEF Call, RequeueCall
  <2> QED BY <1>13, <2>1, ContinueType DEF TypeOK, Requeue
<1>14. ASSUME NEW c \in Callers, NEW t \in Tickets, NEW to \in Requested,
              NEW actor \in Actors, UpdateStatus(c, t, to, actor)
       PROVE  TypeOK'
  <2>1. [op |-> "status", ticket |-> t, seen |-> ticket[t], to |-> to,
         actor |-> actor] \in Call
    BY RequestedAssumption DEF Call, StatusCall, TypeOK
  <2> QED BY <1>14, <2>1, ContinueType DEF TypeOK, UpdateStatus
<1>15. CASE UNCHANGED vars
  BY <1>15 DEF TypeOK, vars
<1> QED BY <1>1, <1>2, <1>3, <1>4, <1>5, <1>6, <1>7, <1>8, <1>9, <1>10,
           <1>11, <1>12, <1>13, <1>14, <1>15 DEF Next

LEMMA TypeInit == Init => TypeOK
BY DEF Init, TypeOK, NoRow, DlqRow, ChatTaskState, OshalTicketState

\* The variables keep their types in every behaviour.
THEOREM TypeCorrect == Spec => []TypeOK
BY TypeInit, TypeStep, PTL DEF Spec

(***************************************************************************)
(* The inductive invariant.                                                *)
(***************************************************************************)

\* A call that goes on with an operation checked against the table, or with
\* one that is not a checked write, keeps the invariant.
LEMMA ContinueInTable ==
    ASSUME IInv, NEW c \in Callers, NEW next \in Call \cup {Idle},
           Continue(c, next),
           next \in StatusCall => next.to \in VALID_TRANSITIONS[next.seen],
           next \in ParkCall
              => "dead_letter" \in VALID_TRANSITIONS[next.seen]
    PROVE  InFlightMovesAreInTable'
<1> SUFFICES ASSUME NEW d \in Callers
             PROVE  /\ InFlight(d, "status")'
                          => (call'[d].to \in VALID_TRANSITIONS[call'[d].seen])
                    /\ InFlight(d, "park")'
                          => ("dead_letter"
                                \in VALID_TRANSITIONS[call'[d].seen])
  BY DEF InFlightMovesAreInTable
<1>1. CASE d = c
  <2>1. call'[d] = next
    BY <1>1 DEF Continue, IInv, TypeOK
  <2>2. InFlight(d, "status")' => next \in StatusCall
    BY <2>1 DEF InFlight, Call, StatusCall, CountCall, ReadCall, ParkCall,
                RequeueCall
  <2>3. InFlight(d, "park")' => next \in ParkCall
    BY <2>1 DEF InFlight, Call, StatusCall, CountCall, ReadCall, ParkCall,
                RequeueCall
  <2> QED BY <2>1, <2>2, <2>3
<1>2. CASE d # c
  <2>1. call'[d] = call[d]
    BY <1>2 DEF Continue, IInv, TypeOK
  <2> QED BY <2>1 DEF IInv, InFlightMovesAreInTable, InFlight
<1> QED BY <1>1, <1>2

LEMMA ReturnInTable ==
    ASSUME IInv, NEW c \in Callers, Return(c)
    PROVE  InFlightMovesAreInTable'
BY ContinueInTable, KindsDisjoint DEF Return

LEMMA CountedInTable ==
    ASSUME IInv, NEW c \in Callers, NEW t \in Tickets, Counted(c, t)
    PROVE  InFlightMovesAreInTable'
<1> DEFINE next == [op |-> "read", ticket |-> t,
                    attempts |-> dlq[t].attempts + 1]
<1>1. next \in ReadCall
  BY DEF ReadCall, IInv, TypeOK, DlqRow
<1>2. next \in Call /\ next \notin StatusCall /\ next \notin ParkCall
  BY <1>1, KindsDisjoint
<1>3. CASE Continue(c, next)
  BY <1>2, <1>3, ContinueInTable
<1>4. CASE Return(c)
  BY <1>4, ReturnInTable
<1> QED BY <1>3, <1>4 DEF Counted

LEMMA ReadTicketInTable ==
    ASSUME IInv, NEW c \in Callers, NEW t \in Tickets,
           NEW attempts \in Nat \ {0}, ReadTicket(c, t, attempts)
    PROVE  InFlightMovesAreInTable'
<1> DEFINE next == [op |-> "park", ticket |-> t, seen |-> ticket[t],
                    attempts |-> attempts]
<1>1. next \in ParkCall
  BY DEF ParkCall, IInv, TypeOK
<1>2. next \in Call /\ next \notin StatusCall
  BY <1>1, KindsDisjoint
<1>3. "dead_letter" \in VALID_TRANSITIONS[next.seen]
  BY DEF ReadTicket
<1>4. Continue(c, next)
  BY DEF ReadTicket
<1> HIDE DEF next
<1> QED BY <1>1, <1>2, <1>3, <1>4, ContinueInTable

LEMMA InvariantStep ==
    ASSUME IInv, [Next]_vars
    PROVE  IInv'
<1> SUFFICES InFlightMovesAreInTable'
  BY TypeStep DEF IInv
<1>1. ASSUME NEW t \in Tickets, LinkTask(t)
      PROVE  InFlightMovesAreInTable'
  BY <1>1 DEF IInv, InFlightMovesAreInTable, LinkTask, InFlight
<1>2. ASSUME NEW c \in Callers, Return(c)
      PROVE  InFlightMovesAreInTable'
  BY <1>2, ReturnInTable
<1>3. ASSUME NEW c \in Callers, CommitStatus(c)
      PROVE  InFlightMovesAreInTable'
  <2>1. call[c].ticket \in Tickets
    BY <1>3, CallKinds DEF CommitStatus, StatusCall
  <2> DEFINE next == [op |-> "count", ticket |-> call[c].ticket]
  <2>2. next \in CountCall
    BY <2>1 DEF CountCall
  <2>3. next \in Call /\ next \notin StatusCall /\ next \notin ParkCall
    BY <2>2, KindsDisjoint
  <2>4. Continue(c, next) \/ Return(c)
    BY <1>3 DEF CommitStatus
  <2> HIDE DEF next
  <2> QED BY <2>3, <2>4, <1>2, ContinueInTable
<1>4. ASSUME NEW c \in Callers, EscalationCycle(c)
      PROVE  InFlightMovesAreInTable'
  BY <1>4, CallKinds, CountedInTable DEF EscalationCycle, CountCall
<1>5. ASSUME NEW c \in Callers, QuarantineExhausted(c)
      PROVE  InFlightMovesAreInTable'
  BY <1>5, CallKinds, ReadTicketInTable DEF QuarantineExhausted, ReadCall
<1>6. ASSUME NEW c \in Callers, NEW t \in Tickets, DispatchFailure(c, t)
      PROVE  InFlightMovesAreInTable'
  BY <1>6, CountedInTable DEF DispatchFailure
<1>7. ASSUME NEW c \in Callers, NEW t \in Tickets, QuarantineRefusal(c, t)
      PROVE  InFlightMovesAreInTable'
  BY <1>7, ReadTicketInTable DEF QuarantineRefusal
<1>8. ASSUME NEW c \in Callers, NEW t \in Tickets, Requeue(c, t)
      PROVE  InFlightMovesAreInTable'
  <2> DEFINE next == [op |-> "requeue", ticket |-> t]
  <2>1. next \in RequeueCall
    BY DEF RequeueCall
  <2>2. next \in Call /\ next \notin StatusCall /\ next \notin ParkCall
    BY <2>1, KindsDisjoint
  <2>3. Continue(c, next)
    BY <1>8 DEF Requeue
  <2> HIDE DEF next
  <2> QED BY <2>2, <2>3, ContinueInTable
<1>9. ASSUME NEW c \in Callers, NEW t \in Tickets, NEW to \in Requested,
             NEW actor \in Actors, UpdateStatus(c, t, to, actor)
      PROVE  InFlightMovesAreInTable'
  <2> DEFINE next == [op |-> "status", ticket |-> t, seen |-> ticket[t],
                      to |-> to, actor |-> actor]
  <2>1. next \in StatusCall
    BY RequestedAssumption DEF StatusCall, IInv, TypeOK
  <2>2. next \in Call /\ next \notin ParkCall
    BY <2>1, KindsDisjoint
  <2>3. next.to \in VALID_TRANSITIONS[next.seen]
    BY <1>9 DEF UpdateStatus, isTicketStatusTransitionAllowed
  <2>4. Continue(c, next)
    BY <1>9 DEF UpdateStatus
  <2> HIDE DEF next
  <2> QED BY <2>1, <2>2, <2>3, <2>4, ContinueInTable
<1>10. ASSUME NEW c \in Callers,
              \/ Conflict(c) \/ EscalationCycleUncounted(c)
              \/ QuarantineNotAllowed(c) \/ CommitQuarantine(c)
              \/ CommitRequeue(c) \/ RequeueRolledBack(c)
       PROVE  InFlightMovesAreInTable'
  BY <1>2, <1>10
  DEF Conflict, EscalationCycleUncounted, QuarantineNotAllowed,
      CommitQuarantine, CommitRequeue, RequeueRolledBack
<1>11. CASE UNCHANGED vars
  BY <1>11 DEF IInv, InFlightMovesAreInTable, vars, InFlight
<1> QED
  BY <1>1, <1>3, <1>4, <1>5, <1>6, <1>7, <1>8, <1>9, <1>10, <1>11 DEF Next

LEMMA InvariantInit == Init => IInv
<1> SUFFICES ASSUME Init PROVE IInv
  OBVIOUS
<1>1. \A c \in Callers : call[c] = Idle
  BY DEF Init
<1> QED BY <1>1, TypeInit, KindsDisjoint
        DEF IInv, InFlightMovesAreInTable, InFlight

\* A call in flight carries a move the table offered from what it read, in
\* every behaviour.
THEOREM WritesAreInTable == Spec => []InFlightMovesAreInTable
<1>1. IInv => InFlightMovesAreInTable
  BY DEF IInv
<1> QED BY <1>1, InvariantInit, InvariantStep, PTL DEF Spec

(***************************************************************************)
(* Refinement: each commit is one step of the board, each other step of a  *)
(* caller is a count on the dead-letter row or nothing.                    *)
(***************************************************************************)

\* The board speaks of the same states, table and tasks.
LEMMA BoardVocabulary ==
    /\ Board!OshalTicketState = OshalTicketState
    /\ Board!VALID_TRANSITIONS = VALID_TRANSITIONS
    /\ \A status, task : Board!linkedChatTaskStatus(status, task)
                            = linkedChatTaskStatus(status, task)
<1>1. Board!Park = Park /\ Board!Fail = Fail
  BY DEF Board!Park, Park, Board!Fail, Fail
<1>2. Board!OshalTicketState = OshalTicketState
  BY DEF Board!OshalTicketState, OshalTicketState
<1>3. Board!VALID_TRANSITIONS = VALID_TRANSITIONS
  BY <1>1, Zenon DEF Board!VALID_TRANSITIONS, VALID_TRANSITIONS
<1>4. ASSUME NEW status, NEW task
      PROVE  Board!linkedChatTaskStatus(status, task)
               = linkedChatTaskStatus(status, task)
  BY <1>1, Zenon DEF Board!linkedChatTaskStatus, linkedChatTaskStatus
<1> QED BY <1>2, <1>3, <1>4

LEMMA WriteIsBoardWrite ==
    ASSUME NEW t, NEW to, WriteStatus(t, to),
           to \in VALID_TRANSITIONS[ticket[t]]
    PROVE  Board!Write(t, to)
<1>1. to \in Board!VALID_TRANSITIONS[ticket[t]]
  BY BoardVocabulary
<1>2. Board!linkedChatTaskStatus(to, chatTask[t])
         = linkedChatTaskStatus(to, chatTask[t])
  BY BoardVocabulary
<1> QED BY <1>1, <1>2 DEF WriteStatus, Board!Write

LEMMA CountIsBoardStep ==
    ASSUME IInv, NEW c \in Callers, NEW t \in Tickets, Counted(c, t)
    PROVE  Board!CountFailure(t)
BY DEF Counted, Board!CountFailure

LEMMA CommitStatusIsBoardStep ==
    ASSUME IInv, NEW c \in Callers, CommitStatus(c)
    PROVE  \E t \in Tickets, to \in OshalTicketState : Board!Move(t, to)
<1>1. call[c] \in StatusCall
  BY CallKinds DEF CommitStatus
<1>2. call[c].ticket \in Tickets /\ call[c].to \in OshalTicketState
  BY <1>1 DEF StatusCall
<1>3. call[c].to \in VALID_TRANSITIONS[ticket[call[c].ticket]]
  BY DEF CommitStatus, ExpectedStatus, IInv, InFlightMovesAreInTable
<1>4. Board!Move(call[c].ticket, call[c].to)
  BY <1>3, WriteIsBoardWrite DEF CommitStatus, Board!Move
<1> QED BY <1>2, <1>4

LEMMA CommitQuarantineIsBoardStep ==
    ASSUME IInv, NEW c \in Callers, CommitQuarantine(c)
    PROVE  \E t \in Tickets : Board!Quarantine(t)
<1>1. call[c] \in ParkCall
  BY CallKinds DEF CommitQuarantine
<1>2. call[c].ticket \in Tickets /\ call[c].attempts \in Nat \ {0}
  BY <1>1 DEF ParkCall
<1>3. "dead_letter" \in VALID_TRANSITIONS[ticket[call[c].ticket]]
  BY DEF CommitQuarantine, ExpectedStatus, IInv, InFlightMovesAreInTable
<1>4. Board!Write(call[c].ticket, "dead_letter")
  BY <1>3, WriteIsBoardWrite DEF CommitQuarantine
<1>5. dlq'[call[c].ticket]
         = [attempts |-> call[c].attempts, quarantined |-> TRUE]
  BY <1>2 DEF CommitQuarantine, IInv, TypeOK
<1>6. dlq' = [dlq EXCEPT ![call[c].ticket] = dlq'[call[c].ticket]]
  BY <1>5 DEF CommitQuarantine
<1>7. Board!Quarantine(call[c].ticket)
  BY <1>2, <1>4, <1>5, <1>6 DEF Board!Quarantine
<1> QED BY <1>2, <1>7

LEMMA CommitRequeueIsBoardStep ==
    ASSUME IInv, NEW c \in Callers, CommitRequeue(c)
    PROVE  \E t \in Tickets : Board!Requeue(t)
<1>1. call[c].ticket \in Tickets
  BY CallKinds DEF CommitRequeue, RequeueCall
<1>2. Board!Write(call[c].ticket, "approved")
  BY DeadLetterMoves, WriteIsBoardWrite DEF CommitRequeue
<1> QED BY <1>1, <1>2 DEF CommitRequeue, Board!Requeue, NoRow, Board!NoRow

LEMMA BoardStep ==
    ASSUME IInv, [Next]_vars
    PROVE  [Board!Next]_Board!boardVars
<1>1. ASSUME NEW t \in Tickets, LinkTask(t)
      PROVE  Board!LinkTask(t)
  BY <1>1 DEF LinkTask, Board!LinkTask
<1>2. ASSUME NEW c \in Callers, CommitStatus(c)
      PROVE  Board!Next
  BY <1>2, CommitStatusIsBoardStep, BoardVocabulary DEF Board!Next
<1>3. ASSUME NEW c \in Callers, CommitQuarantine(c)
      PROVE  Board!Next
  BY <1>3, CommitQuarantineIsBoardStep DEF Board!Next
<1>4. ASSUME NEW c \in Callers, CommitRequeue(c)
      PROVE  Board!Next
  BY <1>4, CommitRequeueIsBoardStep DEF Board!Next
<1>5. ASSUME NEW c \in Callers, EscalationCycle(c)
      PROVE  Board!Next
  BY <1>5, CallKinds, CountIsBoardStep
  DEF EscalationCycle, CountCall, Board!Next
<1>6. ASSUME NEW c \in Callers, NEW t \in Tickets, DispatchFailure(c, t)
      PROVE  Board!Next
  BY <1>6, CountIsBoardStep DEF DispatchFailure, Board!Next
<1>7. ASSUME NEW c \in Callers,
             \/ Conflict(c) \/ EscalationCycleUncounted(c)
             \/ QuarantineExhausted(c) \/ QuarantineNotAllowed(c)
             \/ RequeueRolledBack(c)
      PROVE  UNCHANGED Board!boardVars
  BY <1>7 DEF Conflict, EscalationCycleUncounted, QuarantineExhausted,
              ReadTicket, QuarantineNotAllowed, RequeueRolledBack,
              Board!boardVars
<1>8. ASSUME NEW c \in Callers, NEW t \in Tickets,
             QuarantineRefusal(c, t) \/ Requeue(c, t)
      PROVE  UNCHANGED Board!boardVars
  BY <1>8 DEF QuarantineRefusal, ReadTicket, Requeue, Board!boardVars
<1>9. ASSUME NEW c \in Callers, NEW t \in Tickets, NEW to \in Requested,
             NEW actor \in Actors, UpdateStatus(c, t, to, actor)
      PROVE  UNCHANGED Board!boardVars
  BY <1>9 DEF UpdateStatus, Board!boardVars
<1>10. CASE UNCHANGED vars
  BY <1>10 DEF vars, Board!boardVars
<1>11. ASSUME NEW t \in Tickets, LinkTask(t)
       PROVE  Board!Next
  BY <1>1, <1>11 DEF Board!Next
<1> QED
  BY <1>2, <1>3, <1>4, <1>5, <1>6, <1>7, <1>8, <1>9, <1>10, <1>11 DEF Next

\* Whatever the callers interleave, the store behaves like the board whose
\* every operation is one atomic step.
THEOREM StoreImplementsBoard == Spec => ImplementsBoard
<1>1. Init => Board!Init
  BY DEF Init, Board!Init, NoRow, Board!NoRow
<1> QED
  BY <1>1, InvariantInit, InvariantStep, BoardStep, PTL
  DEF Spec, ImplementsBoard, Board!Spec

(***************************************************************************)
(* The action properties, read off the one board step each step is.        *)
(***************************************************************************)

\* A write of the board moves one ticket, along the table.
LEMMA BoardWriteMoves ==
    ASSUME TypeOK, NEW t \in Tickets, NEW to, Board!Write(t, to),
           NEW u \in Tickets
    PROVE  /\ u = t => /\ ticket'[u] = to
                       /\ to \in VALID_TRANSITIONS[ticket[u]]
           /\ u # t => ticket'[u] = ticket[u]
BY BoardVocabulary DEF Board!Write, TypeOK

LEMMA StepOnTable ==
    ASSUME TypeOK, [Board!Next]_Board!boardVars, NEW u \in Tickets,
           ticket'[u] # ticket[u]
    PROVE  ticket'[u] \in VALID_TRANSITIONS[ticket[u]]
<1>1. ASSUME NEW t \in Tickets, NEW to, Board!Write(t, to)
      PROVE  ticket'[u] \in VALID_TRANSITIONS[ticket[u]]
  BY <1>1, BoardWriteMoves
<1>2. ASSUME UNCHANGED ticket PROVE FALSE
  BY <1>2
<1> QED
  BY <1>1, <1>2
  DEF Board!Next, Board!Move, Board!Quarantine, Board!Requeue,
      Board!CountFailure, Board!LinkTask, Board!boardVars

\* No interleaving of callers takes a ticket off the transition table.
THEOREM TableRespected == Spec => OnlyTableTransitions
<1>1. IInv /\ [Next]_vars =>
        [\A t \in Tickets :
            ticket'[t] # ticket[t]
               => ticket'[t] \in VALID_TRANSITIONS[ticket[t]]]_vars
  BY BoardStep, StepOnTable DEF IInv
<1> QED
  BY <1>1, InvariantInit, InvariantStep, PTL DEF Spec, OnlyTableTransitions

\* What one step does to the dead-letter row of one ticket.
LEMMA StepOnRow ==
    ASSUME TypeOK, [Board!Next]_Board!boardVars, NEW u \in Tickets
    PROVE  \/ dlq'[u] = dlq[u]
           \/ /\ ticket[u] # "dead_letter" /\ ticket'[u] = "dead_letter"
              /\ dlq'[u].quarantined
           \/ /\ ticket[u] = "dead_letter" /\ ticket'[u] = "approved"
              /\ ~dlq'[u].quarantined
           \/ ~dlq[u].quarantined /\ ~dlq'[u].quarantined
<1> DEFINE Goal == \/ dlq'[u] = dlq[u]
                   \/ /\ ticket[u] # "dead_letter"
                      /\ ticket'[u] = "dead_letter"
                      /\ dlq'[u].quarantined
                   \/ /\ ticket[u] = "dead_letter"
                      /\ ticket'[u] = "approved"
                      /\ ~dlq'[u].quarantined
                   \/ ~dlq[u].quarantined /\ ~dlq'[u].quarantined
<1>1. ASSUME NEW t \in Tickets, Board!Quarantine(t) PROVE Goal
  <2>1. CASE u = t
    <3>1. ticket'[u] = "dead_letter" /\ ticket[u] # "dead_letter"
      BY <1>1, <2>1, BoardWriteMoves, DeadLetterMoves DEF Board!Quarantine
    <3> QED BY <1>1, <2>1, <3>1 DEF Board!Quarantine
  <2>2. CASE u # t
    BY <1>1, <2>2 DEF Board!Quarantine, TypeOK
  <2> QED BY <2>1, <2>2
<1>2. ASSUME NEW t \in Tickets, Board!Requeue(t) PROVE Goal
  <2>1. CASE u = t
    <3>1. ticket'[u] = "approved"
      BY <1>2, <2>1, BoardWriteMoves DEF Board!Requeue
    <3> QED BY <1>2, <2>1, <3>1 DEF Board!Requeue, Board!NoRow, TypeOK
  <2>2. CASE u # t
    BY <1>2, <2>2 DEF Board!Requeue, TypeOK
  <2> QED BY <2>1, <2>2
<1>3. ASSUME NEW t \in Tickets, Board!CountFailure(t) PROVE Goal
  <2>1. CASE u = t
    <3>1. dlq[u] \in DlqRow
      BY DEF TypeOK
    <3>2. dlq'[u] = [dlq[u] EXCEPT !.attempts = @ + 1]
      BY <1>3, <2>1 DEF Board!CountFailure, TypeOK
    <3> QED BY <1>3, <2>1, <3>1, <3>2 DEF Board!CountFailure, DlqRow
  <2>2. CASE u # t
    BY <1>3, <2>2 DEF Board!CountFailure, TypeOK
  <2> QED BY <2>1, <2>2
<1>4. ASSUME UNCHANGED dlq PROVE Goal
  BY <1>4
<1> QED
  BY <1>1, <1>2, <1>3, <1>4
  DEF Board!Next, Board!Move, Board!LinkTask, Board!boardVars

\* A row is marked in the step that parks its ticket and cleared in the step
\* that releases it.
THEOREM QuarantineAtomic == Spec => QuarantineIsAtomic
<1>1. IInv /\ [Next]_vars =>
        [\A t \in Tickets :
            /\ ~dlq[t].quarantined /\ dlq'[t].quarantined
                  => ticket[t] # "dead_letter" /\ ticket'[t] = "dead_letter"
            /\ dlq[t].quarantined /\ ~dlq'[t].quarantined
                  => ticket[t] = "dead_letter" /\ ticket'[t] = "approved"
        ]_vars
  BY BoardStep, StepOnRow DEF IInv
<1> QED
  BY <1>1, InvariantInit, InvariantStep, PTL DEF Spec, QuarantineIsAtomic

\* While a ticket stays parked its evidence does not change.
THEOREM EvidenceFrozen == Spec => ParkedEvidenceIsFrozen
<1>1. IInv /\ [Next]_vars =>
        [\A t \in Tickets :
            dlq[t].quarantined /\ ticket[t] = "dead_letter"
               /\ ticket'[t] = "dead_letter" => dlq'[t] = dlq[t]]_vars
  BY BoardStep, StepOnRow DEF IInv
<1> QED
  BY <1>1, InvariantInit, InvariantStep, PTL DEF Spec, ParkedEvidenceIsFrozen
=============================================================================
