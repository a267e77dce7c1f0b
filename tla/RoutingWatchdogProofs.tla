------------------------ MODULE RoutingWatchdogProofs ------------------------
(***************************************************************************)
(* The watchdog keeps to its limit, for any number of items, retries and   *)
(* failures and whatever the other writers of the items do.                *)
(*                                                                         *)
(* The limit is checked when an item's turn in the list comes and used two *)
(* writes later.  That is sound because nobody else writes the count: the  *)
(* decision to reset still holds when the reset is done and counted        *)
(* (Decided), so that every reset is in the count, is being counted, or is *)
(* one of those whose count was lost (CountsResets).                       *)
(***************************************************************************)
EXTENDS RoutingWatchdog, TLAPS

InHandSteps == {"suppress", "exhaust", "escalate", "reset", "count", "approve"}

\* The item in hand was taken off the list; what is left of the list has not
\* been suppressed since it was made.
Listed ==
    /\ sweep.pc \in InHandSteps => sweep.item \in Items /\ sweep.item \notin sweep.todo
    /\ sweep.pc \in {"list"} \cup InHandSteps =>
            \A i \in sweep.todo : "suppressed" \notin marks[i]

\* What was decided when the item was taken is still so when it is done.
Decided ==
    /\ sweep.pc \in {"reset", "count"} => retries[sweep.item] < MaxRetries
    /\ sweep.pc = "reset" => "suppressed" \notin marks[sweep.item]

\* Resets are counted, all but the one in hand and those whose count failed.
BeingCounted(i) == IF sweep.pc = "count" /\ sweep.item = i THEN 1 ELSE 0
CountsResets ==
    \A i \in Items : resets[i] <= retries[i] + uncounted[i] + BeingCounted(i)

\* The inductive invariant.
IInv == TypeOK /\ Listed /\ Decided /\ CountsResets

LEMMA InvInit ==
    ASSUME Init
    PROVE  IInv
<1> USE MaxRetriesAssumption, BoundsAssumption
<1>1. TypeOK
  BY DEF Init, TypeOK, Idle, OshalTicketState, WorkItemStatus
<1>2. Listed /\ Decided
  BY DEF Init, Listed, Decided, Idle, InHandSteps
<1>3. CountsResets
  BY DEF Init, CountsResets, BeingCounted, Idle
<1> QED BY <1>1, <1>2, <1>3 DEF IInv

(***************************************************************************)
(* Everybody but the sweep: the items and the ticket change under it, its  *)
(* list, its counts and its marks do not.                                  *)
(***************************************************************************)

LEMMA LostTypes ==
    ASSUME TypeOK, CountIsLost
    PROVE  uncounted' \in [Items -> Nat]
<1>1. uncounted \in [Items -> Nat]
  BY DEF TypeOK
<1>2. CASE sweep.pc = "count"
  <2>1. uncounted' = [uncounted EXCEPT ![sweep.item] = @ + 1]
    BY <1>2 DEF CountIsLost
  <2>2. \A i \in Items : uncounted'[i] \in Nat
    BY <1>1, <2>1
  <2>3. uncounted' = [i \in Items |-> uncounted'[i]]
    BY <1>1, <2>1
  <2> QED BY <2>2, <2>3
<1> QED BY <1>1, <1>2 DEF CountIsLost

\* A count that is lost goes from one side to the other.
LEMMA LostIsUncounted ==
    ASSUME IInv, CountIsLost, UNCHANGED <<retries, resets>>, sweep'.pc # "count"
    PROVE  CountsResets'
<1>1. CASE sweep.pc = "count"
  <2>1. sweep.item \in Items
    BY <1>1 DEF IInv, Listed, InHandSteps
  <2> QED BY <1>1, <2>1 DEF IInv, TypeOK, CountIsLost, CountsResets, BeingCounted
<1>2. CASE sweep.pc # "count"
  BY <1>2 DEF IInv, TypeOK, CountIsLost, CountsResets, BeingCounted
<1> QED BY <1>1, <1>2

LEMMA OutsideSafe ==
    ASSUME IInv, TypeOK', UNCHANGED <<marks, retries, resets>>,
           \/ UNCHANGED <<sweep, uncounted>>
           \/ sweep' = Idle /\ CountIsLost
    PROVE  IInv'
<1> USE DEF IInv
<1>1. CASE UNCHANGED <<sweep, uncounted>>
  <2>1. Listed' /\ Decided'
    BY <1>1 DEF Listed, Decided
  <2>2. CountsResets'
    BY <1>1 DEF CountsResets, BeingCounted, TypeOK
  <2> QED BY <2>1, <2>2
<1>2. CASE sweep' = Idle /\ CountIsLost
  <2>1. Listed' /\ Decided'
    BY <1>2 DEF Listed, Decided, Idle, InHandSteps
  <2>2. CountsResets'
    BY <1>2, LostIsUncounted DEF Idle
  <2> QED BY <2>1, <2>2
<1> QED BY <1>1, <1>2

\* The items change as the other writers change them.
LEMMA ItemTypes ==
    ASSUME TypeOK, NEW i \in Items, NEW to \in WorkItemStatus, updateStatus(i, to)
    PROVE  /\ status' \in [Items -> WorkItemStatus]
           /\ age' \in [Items -> {"fresh", "due", "stale"}]
           /\ buried' \subseteq Items
BY DEF TypeOK, updateStatus

LEMMA TicketTypes ==
    ASSUME TypeOK, NEW to \in OshalTicketState, updateTicket(to)
    PROVE  ticket' \in OshalTicketState
BY DEF TypeOK, updateTicket

BotStep ==
    \E i \in Items :
        \/ TakeEnvelope(i) \/ shouldRejectForPhaseViolation(i) \/ RejectItem(i)
        \/ findAlreadyCompletedWorkItem(i) \/ markAssigned(i)
        \/ HandlerReturns(i) \/ recordResult(i) \/ StoreResult(i)
        \/ updateTicketTerminalState(i) \/ BotCrashes(i)

DispatchStep ==
    \/ dispatchTicket \/ PersistFails \/ Publish
    \/ \E i \in Items : persistWorkItems(i) \/ AssignItem(i)

OtherStep ==
    \/ markTicketRoutingFailures
    \/ \E to \in Moves : OthersMove(to)
    \/ \E i \in Items : BreakerMarks(i) \/ TimePasses(i) \/ NewerItems(i)

LEMMA BotTypes ==
    ASSUME TypeOK, BotStep
    PROVE  TypeOK'
<1> USE BoundsAssumption DEF meta, bots, items, history, bounds
<1>1. PICK i \in Items :
        \/ TakeEnvelope(i) \/ shouldRejectForPhaseViolation(i) \/ RejectItem(i)
        \/ findAlreadyCompletedWorkItem(i) \/ markAssigned(i)
        \/ HandlerReturns(i) \/ recordResult(i) \/ StoreResult(i)
        \/ updateTicketTerminalState(i) \/ BotCrashes(i)
  BY DEF BotStep
<1>2. CASE TakeEnvelope(i)
  BY <1>2 DEF TypeOK, TakeEnvelope, BotGoes, MayFail
<1>3. CASE shouldRejectForPhaseViolation(i)
  BY <1>3 DEF TypeOK, shouldRejectForPhaseViolation, BotGoes, Active
<1>4. CASE findAlreadyCompletedWorkItem(i)
  BY <1>4 DEF TypeOK, findAlreadyCompletedWorkItem, BotGoes, MayFail
<1>5. CASE RejectItem(i)
  <2>1. PICK j \in rejects[i] :
          /\ updateStatus(j, "routing_failed")
          /\ rejects' = [rejects EXCEPT ![i] = @ \ {j}]
          /\ BotGoes(i, IF rejects[i] = {j} THEN "idle" ELSE "reject")
    BY <1>5 DEF RejectItem
  <2>2. j \in Items /\ "routing_failed" \in WorkItemStatus
    BY DEF TypeOK, WorkItemStatus
  <2> QED BY <1>5, <2>1, <2>2, ItemTypes DEF TypeOK, RejectItem, BotGoes
<1>9. CASE markAssigned(i)
  <2>1. PICK failed \in BOOLEAN :
          /\ MayFail(failed)
          /\ IF failed THEN UNCHANGED items ELSE updateStatus(i, "assigned")
    BY <1>9 DEF markAssigned
  <2>2. /\ status' \in [Items -> WorkItemStatus]
        /\ age' \in [Items -> {"fresh", "due", "stale"}]
        /\ buried' \subseteq Items
    BY <2>1, ItemTypes DEF TypeOK, WorkItemStatus, ROUTING_ACTIVE_STATUSES
  <2>3. failures' \in 0 .. FailureBound
    BY <2>1 DEF TypeOK, MayFail
  <2> QED BY <1>9, <2>2, <2>3 DEF TypeOK, markAssigned, BotGoes
<1>10. CASE HandlerReturns(i) \/ recordResult(i)
  BY <1>10 DEF TypeOK, HandlerReturns, recordResult, BotGoes
<1>6. CASE StoreResult(i)
  <2>1. PICK verdict \in Ended, to \in {"complete", "escalated"} :
            updateStatus(i, verdict) /\ BotGoes(i, to)
    BY <1>6 DEF StoreResult
  <2> QED BY <1>6, <2>1, ItemTypes DEF TypeOK, StoreResult, BotGoes, WorkItemStatus
<1>7. CASE updateTicketTerminalState(i)
  <2>1. bot[i] \in OshalTicketState
    BY <1>7 DEF updateTicketTerminalState, OshalTicketState
  <2> QED BY <1>7, <2>1, TicketTypes DEF TypeOK, updateTicketTerminalState, BotGoes
<1>8. CASE BotCrashes(i)
  BY <1>8 DEF TypeOK, BotCrashes, BotGoes
<1> QED
  BY <1>1, <1>2, <1>3, <1>4, <1>5, <1>6, <1>7, <1>8, <1>9, <1>10

LEMMA DispatchTypes ==
    ASSUME TypeOK, DispatchStep
    PROVE  TypeOK'
<1> USE BoundsAssumption DEF meta, bots, items, history, bounds
<1>1. CASE dispatchTicket
  BY <1>1 DEF TypeOK, dispatchTicket, OshalTicketState
<1>2. CASE PersistFails \/ Publish
  BY <1>2 DEF TypeOK, PersistFails, Publish
<1>3. ASSUME NEW i \in Items, persistWorkItems(i) PROVE TypeOK'
  <2>1. /\ status' \in [Items -> WorkItemStatus]
        /\ age' \in [Items -> {"fresh", "due", "stale"}]
        /\ buried' \subseteq Items
    BY <1>3, ItemTypes DEF TypeOK, persistWorkItems, WorkItemStatus, ROUTING_ACTIVE_STATUSES
  <2> QED BY <1>3, <2>1 DEF TypeOK, persistWorkItems
<1>4. ASSUME NEW i \in Items, AssignItem(i) PROVE TypeOK'
  <2>1. /\ status' \in [Items -> WorkItemStatus]
        /\ age' \in [Items -> {"fresh", "due", "stale"}]
        /\ buried' \subseteq Items
    BY <1>4, ItemTypes DEF AssignItem, WorkItemStatus, ROUTING_ACTIVE_STATUSES
  <2> QED BY <1>4, <2>1 DEF TypeOK, AssignItem
<1> QED BY <1>1, <1>2, <1>3, <1>4 DEF DispatchStep

LEMMA OtherTypes ==
    ASSUME TypeOK, OtherStep
    PROVE  TypeOK'
<1> USE BoundsAssumption, MovesAssumption DEF meta, bots, items, history, bounds
<1>1. CASE markTicketRoutingFailures
  BY <1>1 DEF TypeOK, markTicketRoutingFailures, Moved, Active
<1>2. ASSUME NEW to \in Moves, OthersMove(to) PROVE TypeOK'
  BY <1>2 DEF TypeOK, OthersMove, Moved
<1>3. ASSUME NEW i \in Items, BreakerMarks(i) PROVE TypeOK'
  <2>1. /\ status' \in [Items -> WorkItemStatus]
        /\ age' \in [Items -> {"fresh", "due", "stale"}]
        /\ buried' \subseteq Items
    BY <1>3, ItemTypes DEF BreakerMarks, WorkItemStatus
  <2> QED BY <1>3, <2>1 DEF TypeOK, BreakerMarks
<1>4. ASSUME NEW i \in Items, TimePasses(i) PROVE TypeOK'
  BY <1>4 DEF TypeOK, TimePasses
<1>5. ASSUME NEW i \in Items, NewerItems(i) PROVE TypeOK'
  BY <1>5 DEF TypeOK, NewerItems
<1> QED BY <1>1, <1>2, <1>3, <1>4, <1>5 DEF OtherStep

LEMMA OutsideStep ==
    ASSUME IInv, BotStep \/ DispatchStep \/ OtherStep
    PROVE  IInv'
<1>1. TypeOK'
  BY BotTypes, DispatchTypes, OtherTypes DEF IInv
<1>2. CASE BotStep
  <2>1. /\ UNCHANGED <<marks, retries, resets>>
        /\ UNCHANGED <<sweep, uncounted>>
    BY <1>2 DEF BotStep, TakeEnvelope, shouldRejectForPhaseViolation, RejectItem,
       findAlreadyCompletedWorkItem, markAssigned, HandlerReturns, recordResult,
       StoreResult, updateTicketTerminalState, BotCrashes, meta, history
  <2> QED BY <1>1, <2>1, OutsideSafe
<1>3. CASE DispatchStep
  <2>1. /\ UNCHANGED <<marks, retries, resets>>
        /\ UNCHANGED <<sweep, uncounted>>
    BY <1>3 DEF DispatchStep, dispatchTicket, PersistFails, Publish, persistWorkItems,
       AssignItem, meta, history
  <2> QED BY <1>1, <2>1, OutsideSafe
<1>4. CASE OtherStep
  <2>1. /\ UNCHANGED <<marks, retries, resets>>
        /\ UNCHANGED <<sweep, uncounted>>
    BY <1>4 DEF OtherStep, markTicketRoutingFailures, OthersMove, BreakerMarks,
       TimePasses, NewerItems, meta, history
  <2> QED BY <1>1, <2>1, OutsideSafe
<1> QED BY <1>2, <1>3, <1>4

(***************************************************************************)
(* The sweep.                                                              *)
(***************************************************************************)

SweepStates ==
    [pc : {"idle", "stale", "list"} \cup InHandSteps,
     todo : SUBSET Items, due : SUBSET Items, item : Items \cup {None}]

LEMMA SweepIsTyped == TypeOK => sweep \in SweepStates
BY DEF TypeOK, SweepStates, InHandSteps

\* The sweep's next state, after a step of its own.
LEMMA ThenState ==
    ASSUME sweep \in SweepStates, NEW pc, Then(pc)
    PROVE  /\ sweep'.pc = pc /\ sweep'.todo = sweep.todo
           /\ sweep'.item = sweep.item /\ sweep'.due = sweep.due
           /\ pc \in {"idle", "stale", "list"} \cup InHandSteps => sweep' \in SweepStates
BY DEF SweepStates, Then

\* Steps that take up the list or put it down.
ListStep ==
    \/ sweepRecentWorkItems \/ retryRoutingFailedItems \/ SweepEnds
    \/ \E i \in Items : MarkStale(i)

LEMMA ListStepSafe ==
    ASSUME IInv, ListStep
    PROVE  IInv'
<1> USE DEF IInv, meta, bots, items, history, bounds
<1>0. sweep \in SweepStates
  BY SweepIsTyped
<1>1. CASE sweepRecentWorkItems \/ retryRoutingFailedItems \/ SweepEnds
  <2>1. /\ UNCHANGED <<ticket, status, age, buried, retries, marks, breaker, dispatch,
                       queued, bot, rejects, history, moves, failures>>
        /\ sweep' \in SweepStates
        /\ sweep'.pc \in {"idle", "stale", "list"}
        /\ sweep'.pc = "list" => \A i \in sweep'.todo : "suppressed" \notin marks[i]
    <3>1. CASE sweepRecentWorkItems
      BY <3>1 DEF sweepRecentWorkItems, Idle, Active, SweepStates
    <3>2. CASE retryRoutingFailedItems
      BY <3>2 DEF retryRoutingFailedItems, Idle, Retryable, SweepStates
    <3>3. CASE SweepEnds
      BY <3>3 DEF SweepEnds, Idle, SweepStates
    <3> QED BY <1>1, <3>1, <3>2, <3>3
  <2>2. sweep.pc \in {"idle", "stale", "list"}
    BY <1>1 DEF sweepRecentWorkItems, retryRoutingFailedItems, SweepEnds
  <2>3. TypeOK'
    BY <2>1 DEF TypeOK, SweepStates, InHandSteps
  <2>4. Listed' /\ Decided'
    BY <2>1 DEF Listed, Decided, InHandSteps
  <2>5. CountsResets'
    BY <2>1, <2>2 DEF CountsResets, BeingCounted
  <2> QED BY <2>3, <2>4, <2>5
<1>2. ASSUME NEW i \in Items, MarkStale(i) PROVE IInv'
  <2>1. /\ sweep.pc = "stale" /\ sweep'.pc = "stale"
        /\ sweep' \in SweepStates
        /\ UNCHANGED <<ticket, retries, marks, breaker, dispatch, queued, bot, rejects,
                       history, moves, failures>>
    BY <1>0, <1>2 DEF MarkStale, SweepStates
  <2>2. /\ status' \in [Items -> WorkItemStatus]
        /\ age' \in [Items -> {"fresh", "due", "stale"}]
        /\ buried' \subseteq Items
    BY <1>2, ItemTypes DEF MarkStale, WorkItemStatus
  <2>3. TypeOK'
    BY <2>1, <2>2 DEF TypeOK, SweepStates, InHandSteps
  <2>4. Listed' /\ Decided'
    BY <2>1 DEF Listed, Decided, InHandSteps
  <2>5. CountsResets'
    BY <2>1 DEF CountsResets, BeingCounted
  <2> QED BY <2>3, <2>4, <2>5
<1> QED BY <1>1, <1>2 DEF ListStep

\* An item's turn comes: what is decided is what its count and marks say.
LEMMA ReadTicketSafe ==
    ASSUME IInv, NEW i \in Items, ReadTicket(i)
    PROVE  IInv'
<1> USE BoundsAssumption DEF IInv, meta, bots, items, history, bounds
<1>0. sweep \in SweepStates
  BY SweepIsTyped
<1>1. PICK terminal \in BOOLEAN :
        sweep' = [sweep EXCEPT !.todo = @ \ {i}, !.item = i, !.pc = Decision(i, terminal)]
  <2>1. PICK failed \in BOOLEAN : sweep' = [sweep EXCEPT
            !.todo = @ \ {i}, !.item = i,
            !.pc = Decision(i, /\ ~failed
                               /\ ticket \in ROUTING_RETRY_TERMINAL_TICKET_STATUSES)]
    BY DEF ReadTicket
  <2> QED BY <2>1
<1>2. /\ Decision(i, terminal) \in {"list", "suppress", "exhaust", "reset"}
      /\ Decision(i, terminal) = "reset" => retries[i] < MaxRetries
  BY MaxRetriesAssumption DEF Decision, TypeOK
<1>3. /\ sweep.pc = "list" /\ i \in sweep.todo
      /\ failures' \in 0 .. FailureBound /\ failures' \in {failures, failures + 1}
      /\ UNCHANGED <<ticket, status, age, buried, retries, marks, breaker, dispatch,
                     queued, bot, rejects, history, moves>>
  BY DEF ReadTicket, TypeOK, MayFail
<1> DEFINE d == Decision(i, terminal)
<1>4. /\ sweep'.pc = d /\ sweep'.item = i /\ sweep'.todo = sweep.todo \ {i}
      /\ sweep' \in SweepStates
  BY <1>0, <1>1, <1>2 DEF SweepStates, InHandSteps
<1> HIDE DEF d
<1>5. TypeOK'
  BY <1>3, <1>4 DEF TypeOK, SweepStates, InHandSteps
<1>6. d \in {"list", "suppress", "exhaust", "reset"} /\ (d = "reset" => retries[i] < MaxRetries)
  BY <1>2 DEF d
<1>7. \A j \in sweep.todo : "suppressed" \notin marks[j]
  BY <1>3 DEF Listed
<1>8. Listed' /\ Decided'
  BY <1>3, <1>4, <1>6, <1>7 DEF Listed, Decided
<1>9. CountsResets'
  BY <1>3, <1>4, <1>6 DEF CountsResets, BeingCounted, TypeOK
<1> QED BY <1>5, <1>8, <1>9

\* Marks are set on the item in hand, which is on no list any more.
LEMMA MarkSafe ==
    ASSUME IInv, NEW m \in {"exhausted", "suppressed"}, NEW pc \in {"list", "escalate"},
           sweep.pc \in {"suppress", "exhaust"}, Mark(m), Then(pc),
           UNCHANGED <<ticket, retries, breaker, dispatch, bots, history, bounds>>
    PROVE  IInv'
<1> USE DEF IInv, bots, history, bounds
<1>1. /\ sweep'.pc = pc /\ sweep'.todo = sweep.todo /\ sweep'.item = sweep.item
      /\ sweep' \in SweepStates
  BY SweepIsTyped, ThenState DEF InHandSteps
<1>2. sweep.item \in Items /\ sweep.item \notin sweep.todo
  BY DEF Listed, InHandSteps
<1>3. \A j \in sweep.todo : marks'[j] = marks[j]
  BY <1>2 DEF Mark, TypeOK, SweepStates
<1>4. /\ marks' \in [Items -> SUBSET {"exhausted", "suppressed"}]
      /\ age' \in [Items -> {"fresh", "due", "stale"}]
      /\ buried' \subseteq Items
      /\ UNCHANGED status
  BY <1>2 DEF Mark, updateMetadata, TypeOK
<1>5. TypeOK'
  BY <1>1, <1>4 DEF TypeOK, SweepStates, InHandSteps
<1>6. \A j \in sweep.todo : "suppressed" \notin marks[j]
  BY DEF Listed, InHandSteps
<1>7. Listed' /\ Decided'
  BY <1>1, <1>2, <1>3, <1>6 DEF Listed, Decided
<1>8. CountsResets'
  BY <1>1 DEF CountsResets, BeingCounted
<1> QED BY <1>5, <1>7, <1>8

\* Steps that write the ticket, or fail: the list and the counts stay.
LEMMA BackToListSafe ==
    ASSUME IInv, TypeOK', sweep.pc \in InHandSteps, Then("list"),
           UNCHANGED <<marks, retries, resets>>,
           CountIsLost
    PROVE  IInv'
<1> USE DEF IInv
<1>1. /\ sweep'.pc = "list" /\ sweep'.todo = sweep.todo /\ sweep'.item = sweep.item
  BY SweepIsTyped, ThenState
<1>2. Listed' /\ Decided'
  BY <1>1 DEF Listed, Decided, InHandSteps
<1>3. CountsResets'
  BY <1>1, LostIsUncounted
<1> QED BY <1>2, <1>3

TicketStep ==
    \/ updateTicketFromRoutingExhaustion
    \/ updateTicketFromRoutingRetry
    \/ WriteFails

LEMMA TicketStepSafe ==
    ASSUME IInv, TicketStep
    PROVE  IInv'
<1> USE BoundsAssumption DEF IInv, meta, bots, items, history, bounds
<1>1. sweep.pc \in InHandSteps /\ Then("list")
  BY DEF TicketStep, updateTicketFromRoutingExhaustion, updateTicketFromRoutingRetry,
     WriteFails, InHand, InHandSteps
<1>2. sweep' \in SweepStates
  BY <1>1, SweepIsTyped, ThenState
<1>3. CASE WriteFails
  <2>1. uncounted' \in [Items -> Nat]
    BY <1>3, LostTypes DEF WriteFails
  <2>2. TypeOK'
    BY <1>2, <1>3, <2>1 DEF WriteFails, TypeOK, SweepStates, InHandSteps
  <2> QED BY <1>1, <1>3, <2>2, BackToListSafe DEF WriteFails
<1>4. CASE updateTicketFromRoutingExhaustion \/ updateTicketFromRoutingRetry
  <2>1. /\ sweep.pc # "count"
        /\ UNCHANGED <<status, age, buried, retries, marks, breaker, dispatch,
                       queued, bot, rejects, history, moves, failures>>
    BY <1>4 DEF updateTicketFromRoutingExhaustion, updateTicketFromRoutingRetry, InHand
  <2>2. ticket' \in OshalTicketState
    BY <1>4, TicketTypes DEF updateTicketFromRoutingExhaustion,
       updateTicketFromRoutingRetry, OshalTicketState
  <2>3. TypeOK'
    BY <1>2, <2>1, <2>2 DEF TypeOK, SweepStates, InHandSteps
  <2> QED BY <1>1, <2>1, <2>3, BackToListSafe DEF CountIsLost
<1> QED BY <1>3, <1>4 DEF TicketStep

\* The reset opens the gap between reset and count that the count closes.
LEMMA ResetSafe ==
    ASSUME IInv, ResetToPending
    PROVE  IInv'
<1> USE DEF IInv, meta, bots, history, bounds
<1>1. /\ sweep.pc = "reset"
      /\ sweep'.pc = "count" /\ sweep'.todo = sweep.todo /\ sweep'.item = sweep.item
      /\ sweep' \in SweepStates
  BY SweepIsTyped, ThenState DEF ResetToPending, InHand, InHandSteps
<1>2. sweep.item \in Items
  BY <1>1 DEF Listed, InHandSteps
<1>3. /\ UNCHANGED <<ticket, retries, marks, breaker, dispatch, queued, bot,
                     rejects, uncounted, moves, failures>>
      /\ resets' = [resets EXCEPT ![sweep.item] = @ + 1]
      /\ resets' \in [Items -> Nat]
      /\ status' \in [Items -> WorkItemStatus]
      /\ age' \in [Items -> {"fresh", "due", "stale"}]
      /\ buried' \subseteq Items
  BY <1>2, ItemTypes DEF ResetToPending, TypeOK, WorkItemStatus, ROUTING_ACTIVE_STATUSES
<1>4. TypeOK'
  BY <1>1, <1>3 DEF TypeOK, SweepStates, InHandSteps
<1>5. Listed' /\ Decided'
  BY <1>1, <1>3 DEF Listed, Decided, InHandSteps
<1>6. CountsResets'
  BY <1>1, <1>2, <1>3 DEF CountsResets, BeingCounted, TypeOK
<1> QED BY <1>4, <1>5, <1>6

LEMMA CountSafe ==
    ASSUME IInv, updateRetryMetadata
    PROVE  IInv'
<1> USE MaxRetriesAssumption DEF IInv, bots, history, bounds
<1>1. /\ sweep.pc = "count"
      /\ sweep'.pc = "approve" /\ sweep'.todo = sweep.todo /\ sweep'.item = sweep.item
      /\ sweep' \in SweepStates
  BY SweepIsTyped, ThenState DEF updateRetryMetadata, InHand, InHandSteps
<1>2. sweep.item \in Items /\ retries[sweep.item] < MaxRetries
  BY <1>1 DEF Listed, Decided, InHandSteps
<1>3. /\ UNCHANGED <<ticket, status, buried, marks, breaker, dispatch, queued,
                     bot, rejects, history, moves, failures>>
      /\ retries' = [retries EXCEPT ![sweep.item] = @ + 1]
      /\ retries' \in [Items -> 0 .. MaxRetries]
      /\ age' \in [Items -> {"fresh", "due", "stale"}]
      /\ buried' \subseteq Items
  BY <1>2 DEF updateRetryMetadata, updateMetadata, TypeOK
<1>4. TypeOK'
  BY <1>1, <1>3 DEF TypeOK, SweepStates, InHandSteps
<1>5. Listed' /\ Decided'
  BY <1>1, <1>3 DEF Listed, Decided, InHandSteps
<1>6. CountsResets'
  BY <1>1, <1>2, <1>3 DEF CountsResets, BeingCounted, TypeOK
<1> QED BY <1>4, <1>5, <1>6

LEMMA InvStep ==
    ASSUME IInv, [Next]_vars
    PROVE  IInv'
<1> USE BoundsAssumption
<1>1. CASE BotStep \/ DispatchStep \/ OtherStep
  BY <1>1, OutsideStep
<1>2. CASE ListStep \/ TicketStep \/ ResetToPending \/ updateRetryMetadata
  BY <1>2, ListStepSafe, TicketStepSafe, ResetSafe, CountSafe
<1>3. ASSUME NEW i \in Items, ReadTicket(i) PROVE IInv'
  BY <1>3, ReadTicketSafe
<1>4. CASE suppressRetryIfTerminalTicket
  BY <1>4, MarkSafe DEF suppressRetryIfTerminalTicket, InHand
<1>5. CASE markRetryExhausted
  BY <1>5, MarkSafe DEF markRetryExhausted, InHand
<1>6. CASE SweepAborts \/ ApiRestarts
  <2>1. /\ sweep' = Idle /\ failures' = failures + 1
        /\ failures < FailureBound
        /\ UNCHANGED <<ticket, status, age, buried, retries, marks, queued,
                       bot, rejects, resets, moves>>
        /\ breaker' \subseteq Items
        /\ dispatch' \in [Items -> {"idle", "create", "assign", "send"}]
    BY <1>6 DEF SweepAborts, ApiRestarts, items, meta, bots, history, IInv,
       TypeOK
  <2>2. CountIsLost
    BY <1>6 DEF SweepAborts, ApiRestarts, CountIsLost, history
  <2>3. TypeOK'
    <3>1. uncounted' \in [Items -> Nat]
      BY <2>2, LostTypes DEF IInv
    <3> QED BY <2>1, <3>1 DEF IInv, TypeOK, Idle
  <2> QED BY <2>1, <2>2, <2>3, OutsideSafe
<1>7. CASE UNCHANGED vars
  <2>1. TypeOK'
    BY <1>7 DEF vars, items, meta, bots, history, bounds, IInv, TypeOK
  <2> QED BY <1>7, <2>1, OutsideSafe DEF vars, meta, history
<1> QED
  BY <1>1, <1>2, <1>3, <1>4, <1>5, <1>6, <1>7
  DEF Next, Sweep, BotStep, DispatchStep, OtherStep, ListStep, TicketStep

LEMMA InvHolds == Spec => []IInv
<1>1. Init => IInv
  BY InvInit
<1>2. IInv /\ [Next]_vars => IInv'
  BY InvStep
<1> QED BY <1>1, <1>2, PTL DEF Spec

(***************************************************************************)
(* The theorems.                                                           *)
(***************************************************************************)

\* The items, the sweep and the bots keep their types; the count of retries
\* never passes its limit.
THEOREM TypeCorrect == Spec => []TypeOK
BY InvHolds, PTL DEF IInv

\* The watchdog resets no item more often than it may, whoever else writes it.
THEOREM ResetsLimited == Spec => []ResetsWithinLimit
<1>1. IInv => ResetsWithinLimit
  <2> SUFFICES ASSUME IInv, NEW i \in Items PROVE resets[i] <= MaxRetries + uncounted[i]
    BY DEF ResetsWithinLimit
  <2>1. resets[i] <= retries[i] + uncounted[i] + BeingCounted(i)
    BY DEF IInv, CountsResets
  <2>2. BeingCounted(i) = 1 => retries[i] < MaxRetries
    BY DEF BeingCounted, IInv, Decided
  <2>3. /\ BeingCounted(i) \in {0, 1} /\ retries[i] \in 0 .. MaxRetries
        /\ uncounted[i] \in Nat /\ resets[i] \in Nat
    BY DEF BeingCounted, IInv, TypeOK
  <2> QED BY <2>1, <2>2, <2>3, MaxRetriesAssumption
<1> QED BY <1>1, InvHolds, PTL

LEMMA OnlyResetsReset ==
    ASSUME IInv, [Next]_vars, resets' # resets
    PROVE  ResetToPending
BY DEF Next, Sweep, vars, history, sweepRecentWorkItems,
   retryRoutingFailedItems, SweepEnds, MarkStale, ReadTicket,
   suppressRetryIfTerminalTicket, markRetryExhausted, updateTicketFromRoutingExhaustion,
   updateRetryMetadata, updateTicketFromRoutingRetry, WriteFails, SweepAborts,
   markTicketRoutingFailures, OthersMove, dispatchTicket, PersistFails, Publish,
   BreakerMarks, persistWorkItems, AssignItem, TakeEnvelope,
   shouldRejectForPhaseViolation, RejectItem, findAlreadyCompletedWorkItem,
   markAssigned, HandlerReturns, recordResult, StoreResult, updateTicketTerminalState,
   BotCrashes, TimePasses, NewerItems, ApiRestarts

\* A suppressed item is never reset again.
THEOREM SuppressedForGood == Spec => SuppressionIsFinal
<1>1. ASSUME IInv, [Next]_vars, NEW i \in Items, "suppressed" \in marks[i]
      PROVE  resets'[i] = resets[i]
  <2>1. CASE ResetToPending
    <3>1. sweep.item # i
      BY <1>1, <2>1 DEF ResetToPending, InHand, IInv, Decided
    <3> QED BY <1>1, <2>1, <3>1 DEF ResetToPending, IInv, TypeOK
  <2> QED BY <1>1, <2>1, OnlyResetsReset
<1>2. IInv /\ [Next]_vars =>
        [\A i \in Items : "suppressed" \in marks[i] => resets'[i] = resets[i]]_vars
  BY <1>1
<1> QED BY <1>2, InvHolds, PTL DEF Spec, SuppressionIsFinal
=============================================================================
