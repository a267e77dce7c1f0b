---------------------------- MODULE QueueManager ----------------------------
(***************************************************************************)
(* QueueManagerService: the poll cycle, the swarm dispatches it starts,    *)
(* the stuck-slot watchdog, the circuit breaker, the deferred sweep and    *)
(* the status listener, over tickets other actors move at any moment.      *)
(*                                                                         *)
(* JavaScript runs one callback at a time, so an action is the code from   *)
(* one await to the next.  The tickets are roots without children.  A      *)
(* status write whose caller goes on afterwards is a read and a            *)
(* compare-and-set (TicketStore); other actors' writes are the atomic      *)
(* steps of TicketBoard.                                                   *)
(***************************************************************************)
EXTENDS Integers, FiniteSets, TicketStates

CONSTANTS
    Tickets,
    Direct,              \* tickets whose intake bypasses planning
    AutoStarted,         \* tickets of an auto-start workflow
    Polls,               \* timer ticks that can be running a cycle at once
    Dispatches,          \* dispatchTicket calls that can be running at once
    MaxConcurrent,
    MaxDispatchAttempts, \* MAX_DISPATCH_ATTEMPTS
    Hangs,               \* tickets whose dispatch can outlast the watchdog
    Requested,           \* statuses other actors ask for: operators, bots and
                         \* the routing watchdog
    StoreFails,          \* whether the store may fail a sweep's write
    MoveBound,           \* bound of the model on what other actors and the
                         \* stuck-slot watchdog do
    RestartBound         \* bound of the model on process restarts

ASSUME TicketsAssumption == IsFiniteSet(Tickets)
ASSUME DirectAssumption == Direct \subseteq Tickets
ASSUME AutoStartedAssumption == AutoStarted \subseteq Tickets
ASSUME HangsAssumption == Hangs \subseteq Tickets
ASSUME LimitsAssumption ==
    /\ MaxConcurrent \in Nat
    /\ MaxDispatchAttempts \in Nat
    /\ MoveBound \in Nat
    /\ RestartBound \in Nat
ASSUME StoreFailsAssumption == StoreFails \in BOOLEAN
ASSUME RequestedAssumption == Requested \subseteq OshalTicketState

VARIABLES
    ticket,     \* tickets.status
    dlq,        \* tickets whose dead-letter row is marked quarantined
    qm,         \* the queue manager's in-memory tracking
    poll,       \* the poll cycles
    dispatch,   \* the dispatchTicket calls
    escalating, \* un-awaited escalations: ticket and the status read, if any
    orphans,    \* what startup recovery has listed and not yet re-queued
    starting,   \* startup recovery has not listed yet
    moves,      \* moves other actors have made
    restarts

vars == <<ticket, dlq, qm, poll, dispatch, escalating, orphans, starting,
          moves, restarts>>

recoveryVars == <<orphans, starting, restarts>>

None == "none"

Tracking == [active : SUBSET Tickets,      \* activeTicketIds
             clocked : SUBSET Tickets,     \* keys of dispatchStartTimes
             aborted : SUBSET Tickets,     \* abortedTicketIds
             recovered : SUBSET Tickets,   \* recoveredTicketIds
             count : [Tickets -> Nat]]     \* dispatchCounts

NoTracking == [active |-> {}, clocked |-> {}, aborted |-> {},
               recovered |-> {}, count |-> [t \in Tickets |-> 0]]

Cycle == [pc : {"rerouting", "listing", "deferred", "recovering", "batching",
                "launching"},
          room : Nat, candidates : SUBSET Tickets, stale : SUBSET Tickets,
          batch : SUBSET Tickets]

NoCycle == [pc |-> "idle"]

\* Awaiting a ticket write: the step says which.
Writing == {"claiming", "completing", "items_failed", "no_work",
            "escalating", "rolling_back", "breaking"}

Step == {"entering", "claimed", "preparing", "submitted", "failed", "closing"}
            \cup Writing

Call == [pc : Step, ticket : Tickets, seen : OshalTicketState \cup {None}]

NoCall == [pc |-> "idle"]

TypeOK ==
    /\ ticket \in [Tickets -> OshalTicketState]
    /\ dlq \in SUBSET Tickets
    /\ qm \in Tracking
    /\ poll \in [Polls -> Cycle \cup {NoCycle}]
    /\ dispatch \in [Dispatches -> Call \cup {NoCall}]
    /\ escalating \in SUBSET (Tickets \X (OshalTicketState \cup {None}))
    /\ orphans \in SUBSET Tickets
    /\ starting \in BOOLEAN
    /\ moves \in 0 .. MoveBound
    /\ restarts \in 0 .. RestartBound

Init ==
    /\ ticket \in [Tickets -> {"backlog", "approved"}]
    /\ dlq = {}
    /\ qm = NoTracking
    /\ poll = [p \in Polls |-> NoCycle]
    /\ dispatch = [d \in Dispatches |-> NoCall]
    /\ escalating = {}
    /\ orphans = {}
    /\ starting = FALSE
    /\ moves = 0
    /\ restarts = 0

(***************************************************************************)
(* The in-memory tracking.                                                 *)
(***************************************************************************)
Freed(q, t) == [q EXCEPT !.active = @ \ {t}, !.clocked = @ \ {t}]

\* Mutant of Forgotten: one attempt is given back instead of all of them.
ForgottenOne(q, t) == [q EXCEPT !.count[t] = @ - 1]

Forgotten(q, t) == [q EXCEPT !.count[t] = 0]

\* Mutant of Released: the slot is freed but an abort flag stays up.
ReleasedKeepsFlag(q, t) == Freed(q, t)

\* Mutant of Released: a finished dispatch forgets its attempts, so the
\* breaker never trips.
ReleasedForgetsCount(q, t) ==
    Forgotten([Freed(q, t) EXCEPT !.aborted = @ \ {t}], t)

\* The finally block of dispatchTicket.
Released(q, t) == [Freed(q, t) EXCEPT !.aborted = @ \ {t}]

\* The status listener, run inside the write that changed the status.
Observed(q, t, from, to) ==
    IF to \in {"escalated", "cancelled"} /\ t \in q.active
      THEN [Freed(q, t) EXCEPT !.aborted = @ \cup {t}]
    ELSE IF from = "dead_letter" /\ to = "approved"
      THEN [Forgotten(q, t) EXCEPT !.recovered = @ \ {t}, !.aborted = @ \ {t}]
    ELSE q

Allowed(t, to) == to \in VALID_TRANSITIONS[ticket[t]]

Moves(t) == ticket'[t] # ticket[t]

Move(t, to) == ticket' = [ticket EXCEPT ![t] = to]

ObservedMove(t, to) ==
    /\ Move(t, to)
    /\ qm' = Observed(qm, t, ticket[t], to)

(***************************************************************************)
(* dispatchTicket.                                                         *)
(***************************************************************************)
Running(d) == dispatch[d] # NoCall

At(d, pc) == Running(d) /\ dispatch[d].pc = pc

Continue(d, pc, q) ==
    /\ dispatch' = [dispatch EXCEPT ![d].pc = pc, ![d].seen = None]
    /\ qm' = q

\* Mutant of Finish: governance's refusal returns before the try block.
FinishLeaksSlot(d, q) ==
    /\ dispatch' = [dispatch EXCEPT ![d] = NoCall]
    /\ qm' = IF At(d, "entering") THEN q ELSE Released(q, dispatch[d].ticket)

Finish(d, q) ==
    /\ dispatch' = [dispatch EXCEPT ![d] = NoCall]
    /\ qm' = Released(q, dispatch[d].ticket)

resolveDispatchEntryState(t) ==
    IF t \in Direct THEN "in_process_build" ELSE "in_process_discovery"

Target(d) ==
    IF dispatch[d].pc = "claiming"
      THEN resolveDispatchEntryState(dispatch[d].ticket)
    ELSE IF dispatch[d].pc = "completing" THEN "complete"
    ELSE IF dispatch[d].pc = "rolling_back" THEN "approved"
    ELSE "escalated"

\* The child listing has answered.  Each entry counts as an attempt, also one
\* governance then refuses.
Enter(d) ==
    /\ At(d, "entering")
    /\ LET t == dispatch[d].ticket
           counted == [qm EXCEPT !.count[t] = @ + 1]
       IN \/ Continue(d, "claiming", counted)
          \/ Finish(d, counted)
          \/ Continue(d, "failed", counted)
    /\ UNCHANGED <<ticket, escalating>>

\* What follows a status write that went through: q is what the listener left.
\* A ticket whose work items failed, and a completed one, start over at zero.
Written(d, q) ==
    LET t == dispatch[d].ticket
    IN \/ At(d, "claiming") /\ Continue(d, "claimed", q)
       \/ At(d, "completing") /\ Continue(d, "closing", Forgotten(q, t))
       \/ At(d, "items_failed") /\ Finish(d, Forgotten(q, t))
       \/ /\ dispatch[d].pc \in {"no_work", "escalating", "rolling_back",
                                 "breaking"}
          /\ Finish(d, q)

\* A write that throws anything but a conflict: within the try it reaches the
\* catch, within the catch it is logged.
WriteFailed(d) ==
    \/ /\ dispatch[d].pc \in {"claiming", "completing", "items_failed",
                              "no_work"}
       /\ Continue(d, "failed", qm)
    \/ /\ dispatch[d].pc \in {"escalating", "rolling_back", "breaking"}
       /\ Finish(d, qm)

\* updateStatus reads: the same status returns at once, a move outside the
\* table throws.
ReadForWrite(d) ==
    /\ Running(d)
    /\ dispatch[d].pc \in Writing
    /\ dispatch[d].seen = None
    /\ LET t == dispatch[d].ticket
       IN \/ ticket[t] = Target(d) /\ Written(d, qm)
          \/ ~isTicketStatusTransitionAllowed(ticket[t], Target(d))
                /\ WriteFailed(d)
          \/ /\ Allowed(t, Target(d))
             /\ dispatch' = [dispatch EXCEPT ![d].seen = ticket[t]]
             /\ UNCHANGED qm
    /\ UNCHANGED <<ticket, escalating>>

CommitWrite(d) ==
    /\ Running(d)
    /\ dispatch[d].seen = ticket[dispatch[d].ticket]
    /\ LET t == dispatch[d].ticket
       IN /\ Move(t, Target(d))
          /\ Written(d, Observed(qm, t, ticket[t], Target(d)))
    /\ UNCHANGED escalating

\* TicketStatusConflictError: the claim, or a later write, lost to another
\* actor's transition and nothing is rolled back.
LoseWrite(d) ==
    /\ Running(d)
    /\ dispatch[d].seen \notin {None, ticket[dispatch[d].ticket]}
    /\ Finish(d, qm)
    /\ UNCHANGED <<ticket, escalating>>

\* The abort checks: after the claim, after the readiness probe, and after
\* the pipeline.
Proceed(d, pc) ==
    IF dispatch[d].ticket \in qm.aborted THEN Finish(d, qm)
                                         ELSE Continue(d, pc, qm)

Prepare(d) ==
    /\ At(d, "claimed")
    /\ Proceed(d, "preparing")
    /\ UNCHANGED <<ticket, escalating>>

Submit(d) ==
    /\ At(d, "preparing")
    /\ Proceed(d, "submitted")
    /\ UNCHANGED <<ticket, escalating>>

PipelineReturns(d) ==
    /\ At(d, "submitted")
    /\ \E pc \in {"completing", "items_failed", "no_work"} : Proceed(d, pc)
    /\ UNCHANGED <<ticket, escalating>>

\* The runtime is not ready, or is lost while the pipeline runs: the ticket
\* stays in its dispatch state for the deferred sweep.
Defer(d) ==
    /\ Running(d)
    /\ dispatch[d].pc \in {"preparing", "submitted"}
    /\ Finish(d, qm)
    /\ UNCHANGED <<ticket, escalating>>

\* A call before the pipeline throws, or the pipeline fails retryably.
Throw(d) ==
    /\ Running(d)
    /\ dispatch[d].pc \in {"claimed", "preparing", "submitted"}
    /\ Continue(d, "failed", qm)
    /\ UNCHANGED <<ticket, escalating>>

\* Planning output that cannot be parsed, a pipeline timeout: the escalation
\* is reached only when marking the work items routing_failed does not throw.
FailForGood(d) ==
    /\ At(d, "submitted")
    /\ \/ Continue(d, "escalating", qm)
       \/ Finish(d, qm)
    /\ UNCHANGED <<ticket, escalating>>

(***************************************************************************)
(* rollbackTicket.  Below the breaker's limit the dead-letter policy may   *)
(* quarantine the ticket instead, or find its row quarantined already: its *)
(* attempt counter is TicketStore's.  When the policy cannot be asked, the *)
(* ticket is rolled back, also out of dead_letter.  At the limit the       *)
(* escalation needs the work items marked routing_failed first, which may  *)
(* throw.                                                                  *)
(***************************************************************************)
Rollback(d) ==
    LET t == dispatch[d].ticket
    IN /\ At(d, "failed")
       /\ \/ /\ qm.count[t] < MaxDispatchAttempts
             /\ \/ /\ t \in dlq
                   /\ Finish(d, Forgotten(qm, t))
                   /\ UNCHANGED <<ticket, dlq>>
                \/ /\ t \notin dlq
                   /\ Allowed(t, "dead_letter")
                   /\ Move(t, "dead_letter")
                   /\ dlq' = dlq \cup {t}
                   /\ Finish(d, Forgotten(qm, t))
                \/ /\ Continue(d, "rolling_back", qm)
                   /\ UNCHANGED <<ticket, dlq>>
          \/ /\ qm.count[t] >= MaxDispatchAttempts
             /\ Continue(d, "breaking", qm) \/ Finish(d, qm)
             /\ UNCHANGED <<ticket, dlq>>
       /\ UNCHANGED escalating

Close(d) ==
    /\ At(d, "closing")
    /\ Finish(d, qm)
    /\ UNCHANGED <<ticket, escalating>>

DispatchStep(d) ==
    /\ \/ Rollback(d)
       \/ /\ \/ Enter(d) \/ ReadForWrite(d) \/ CommitWrite(d) \/ LoseWrite(d)
             \/ Prepare(d) \/ Submit(d) \/ PipelineReturns(d) \/ Defer(d)
             \/ Throw(d) \/ FailForGood(d) \/ Close(d)
          /\ UNCHANGED dlq
    /\ UNCHANGED <<poll, moves, recoveryVars>>

(***************************************************************************)
(* The poll cycle.                                                         *)
(***************************************************************************)
Polling(p, pc) == poll[p] # NoCycle /\ poll[p].pc = pc

\* Mutant of pollCycleInProgress: ticks are not kept from overlapping.
NeverInProgress(p) == poll[p] # NoCycle

pollCycleInProgress(p) == \E other \in Polls : poll[other] # NoCycle

Advance(p, cycle) == poll' = [poll EXCEPT ![p] = cycle]

\* The stuck-slot watchdog opens the cycle: slots held too long are freed and
\* their tickets escalated without waiting for the write.
PollStart(p) ==
    /\ poll[p] = NoCycle
    /\ ~pollCycleInProgress(p)
    /\ \E stuck \in SUBSET (qm.clocked \cap Hangs) :
         /\ qm' = [qm EXCEPT !.active = @ \ stuck, !.clocked = @ \ stuck]
         /\ escalating' = escalating \cup (stuck \X {None})
         /\ moves + Cardinality(stuck) <= MoveBound
         /\ moves' = moves + Cardinality(stuck)
    /\ Advance(p, [pc |-> "rerouting", room |-> 0, candidates |-> {},
                   stale |-> {}, batch |-> {}])
    /\ UNCHANGED <<ticket, dlq, dispatch, recoveryVars>>

\* The routing watchdog re-approves the ticket of a work item it retries, or
\* escalates it when the retries are used up, dispatched or not.
Reroute(p, t) ==
    /\ Polling(p, "rerouting")
    /\ moves < MoveBound
    /\ moves' = moves + 1
    /\ ticket[t] \notin {"complete", "cancelled", "escalated", "dead_letter"}
    /\ \E to \in Requested \cap {"approved", "escalated"} :
         Allowed(t, to) /\ ObservedMove(t, to)
    /\ UNCHANGED <<dlq, poll, dispatch, escalating, recoveryVars>>

PollCapacity(p) ==
    /\ Polling(p, "rerouting")
    /\ LET room == MaxConcurrent - Cardinality(qm.active)
       IN IF Cardinality(qm.active) >= MaxConcurrent
            THEN Advance(p, NoCycle)
            ELSE Advance(p, [poll[p] EXCEPT !.pc = "listing", !.room = room])
    /\ UNCHANGED <<ticket, qm, dispatch, escalating>>

\* Backlog tickets that run on arrival are promoted; a write that fails is
\* logged, and the sweep may be cut short.
sweepAutoStartTickets(p, t) ==
    /\ Polling(p, "listing")
    /\ t \in AutoStarted
    /\ ticket[t] = "backlog"
    /\ ObservedMove(t, "approved")
    /\ UNCHANGED <<poll, dispatch, escalating>>

\* Mutant of PollList: the breaker lets one attempt too many through.
PollListOffByOne(p) ==
    /\ Polling(p, "listing")
    /\ LET waiting == {t \in Tickets \ qm.active : ticket[t] = "approved"}
           broken == {t \in waiting : qm.count[t] > MaxDispatchAttempts}
       IN /\ Advance(p, [poll[p] EXCEPT !.pc = "deferred",
                                        !.candidates = waiting \ broken])
          /\ escalating' = escalating \cup (broken \X {None})
    /\ UNCHANGED <<ticket, qm, dispatch>>

\* The circuit breaker escalates in the background what it takes off the list.
PollList(p) ==
    /\ Polling(p, "listing")
    /\ LET waiting == {t \in Tickets \ qm.active : ticket[t] = "approved"}
           broken == {t \in waiting : qm.count[t] >= MaxDispatchAttempts}
       IN /\ Advance(p, [poll[p] EXCEPT !.pc = "deferred",
                                        !.candidates = waiting \ broken])
          /\ escalating' = escalating \cup (broken \X {None})
    /\ UNCHANGED <<ticket, qm, dispatch>>

\* The routing watchdog, the ticket query or the budget check throws.
PollFails(p) ==
    /\ Polling(p, "rerouting") \/ Polling(p, "listing")
          \/ Polling(p, "launching")
    /\ Advance(p, NoCycle)
    /\ UNCHANGED <<ticket, qm, dispatch, escalating>>

(***************************************************************************)
(* sweepDeferredTickets: lists tickets in a dispatch state whose last      *)
(* change is older than the grace period (any may be), then recovers them  *)
(* one by one.  A write that fails ends the sweep.                         *)
(***************************************************************************)
PollDeferred(p) ==
    /\ Polling(p, "deferred")
    /\ \E stale \in SUBSET {t \in Tickets :
                              ticket[t] \in {"in_process_discovery",
                                             "in_process_design",
                                             "in_process_build"}} :
         Advance(p, [poll[p] EXCEPT !.pc = "recovering", !.stale = stale])
    /\ UNCHANGED <<ticket, qm, dispatch, escalating>>

Recover(p, t) ==
    LET to == IF qm.count[t] >= MaxDispatchAttempts THEN "escalated"
                                                    ELSE "approved"
        tried == IF to = "approved" THEN [qm EXCEPT !.recovered = @ \cup {t}]
                                    ELSE qm
    IN /\ Polling(p, "recovering")
       /\ t \in poll[p].stale
       /\ \/ /\ t \in qm.active \cup qm.recovered
             /\ Advance(p, [poll[p] EXCEPT !.stale = @ \ {t}])
             /\ UNCHANGED <<ticket, qm>>
          \/ /\ t \notin qm.active \cup qm.recovered
             /\ Allowed(t, to)
             /\ Move(t, to)
             /\ qm' = Observed(tried, t, ticket[t], to)
             /\ Advance(p, [poll[p] EXCEPT !.stale = @ \ {t}])
          \/ /\ t \notin qm.active \cup qm.recovered
             /\ StoreFails \/ ~Allowed(t, to)
             /\ qm' = tried
             /\ Advance(p, [poll[p] EXCEPT !.stale = {}])
             /\ UNCHANGED ticket
       /\ UNCHANGED <<dispatch, escalating>>

PollRecovered(p) ==
    /\ Polling(p, "recovering")
    /\ poll[p].stale = {}
    /\ Advance(p, [poll[p] EXCEPT !.pc = "batching"])
    /\ UNCHANGED <<ticket, qm, dispatch, escalating>>

\* The status is read again: the sweeps took time.
Consider(p, t) ==
    /\ Polling(p, "batching")
    /\ Cardinality(poll[p].batch) < poll[p].room
    /\ t \in poll[p].candidates
    /\ Advance(p, [poll[p] EXCEPT !.candidates = @ \ {t},
                     !.batch = IF ticket[t] = "approved" THEN @ \cup {t}
                                                         ELSE @])
    /\ UNCHANGED <<ticket, qm, dispatch, escalating>>

PollBatched(p) ==
    /\ Polling(p, "batching")
    /\ \/ poll[p].candidates = {}
       \/ Cardinality(poll[p].batch) >= poll[p].room
    /\ Advance(p, [poll[p] EXCEPT !.pc = "launching", !.candidates = {}])
    /\ UNCHANGED <<ticket, qm, dispatch, escalating>>

\* Mutant of Launch: the slot is taken after the first await only.
LaunchWithoutSlot(p, t) ==
    /\ Polling(p, "launching")
    /\ t \in poll[p].batch
    /\ Advance(p, [poll[p] EXCEPT !.batch = @ \ {t}])
    /\ UNCHANGED qm
    /\ \E d \in Dispatches :
         /\ ~Running(d)
         /\ dispatch' = [dispatch EXCEPT ![d] =
              [pc |-> "entering", ticket |-> t, seen |-> None]]
    /\ UNCHANGED <<ticket, escalating>>

\* dispatchTicket up to its first await: the slot is taken synchronously.
Launch(p, t) ==
    /\ Polling(p, "launching")
    /\ t \in poll[p].batch \ qm.active
    /\ Advance(p, [poll[p] EXCEPT !.batch = @ \ {t}])
    /\ qm' = [qm EXCEPT !.active = @ \cup {t}, !.clocked = @ \cup {t}]
    /\ \E d \in Dispatches :
         /\ ~Running(d)
         /\ dispatch' = [dispatch EXCEPT ![d] =
              [pc |-> "entering", ticket |-> t, seen |-> None]]
    /\ UNCHANGED <<ticket, escalating>>

\* Budget governance blocks this cycle only, another claim has the slot, or
\* the write that records a refusal is not allowed and is logged.
Skip(p, t) ==
    /\ Polling(p, "launching")
    /\ t \in poll[p].batch
    /\ Advance(p, [poll[p] EXCEPT !.batch = @ \ {t}])
    /\ UNCHANGED <<ticket, qm, dispatch, escalating>>

\* A privileged worker its owner may not reach: the refusal is recorded as an
\* escalation, whatever happened to the ticket since it was listed.
Refuse(p, t) ==
    /\ Polling(p, "launching")
    /\ t \in poll[p].batch
    /\ Advance(p, [poll[p] EXCEPT !.batch = @ \ {t}])
    /\ Allowed(t, "escalated")
    /\ ObservedMove(t, "escalated")
    /\ UNCHANGED <<dispatch, escalating>>

PollEnd(p) ==
    /\ Polling(p, "launching")
    /\ poll[p].batch = {}
    /\ Advance(p, NoCycle)
    /\ UNCHANGED <<ticket, qm, dispatch, escalating>>

PollOnly == UNCHANGED <<dlq, moves, recoveryVars>>

PollPhase(p) ==
    /\ \/ PollCapacity(p) \/ PollList(p) \/ PollFails(p) \/ PollDeferred(p)
       \/ PollRecovered(p) \/ PollBatched(p) \/ PollEnd(p)
       \/ \E t \in Tickets : \/ sweepAutoStartTickets(p, t)
                             \/ Recover(p, t) \/ Consider(p, t)
                             \/ Launch(p, t) \/ Skip(p, t)
                             \/ Refuse(p, t)
    /\ PollOnly

PollStep(p) == PollStart(p) \/ PollPhase(p)

(***************************************************************************)
(* The escalations nobody awaits, in a read and a write.                   *)
(***************************************************************************)
ReadForEscalation(t) ==
    /\ <<t, None>> \in escalating
    /\ escalating' = (escalating \ {<<t, None>>})
         \cup (IF Allowed(t, "escalated") THEN {<<t, ticket[t]>>} ELSE {})
    /\ UNCHANGED <<ticket, qm>>

CommitEscalation(t, seen) ==
    /\ seen # None
    /\ <<t, seen>> \in escalating
    /\ escalating' = escalating \ {<<t, seen>>}
    /\ IF ticket[t] = seen THEN ObservedMove(t, "escalated")
                           ELSE UNCHANGED <<ticket, qm>>

EscalationOnly == UNCHANGED <<dlq, poll, dispatch, moves, recoveryVars>>

EscalationStep(t) ==
    /\ \/ ReadForEscalation(t)
       \/ \E seen \in OshalTicketState : CommitEscalation(t, seen)
    /\ EscalationOnly

(***************************************************************************)
(* Other actors: operators and bots through the cockpit routes, and the    *)
(* dead-letter policy answering an escalation.                             *)
(***************************************************************************)
OperatorMove(t) ==
    /\ \E to \in Requested : Allowed(t, to) /\ ObservedMove(t, to)
    /\ UNCHANGED dlq

QuarantineEscalated(t) ==
    /\ ticket[t] = "escalated"
    /\ t \notin dlq
    /\ ObservedMove(t, "dead_letter")
    /\ dlq' = dlq \cup {t}

RequeueDeadLetter(t) ==
    /\ ticket[t] = "dead_letter"
    /\ t \in dlq
    /\ ObservedMove(t, "approved")
    /\ dlq' = dlq \ {t}

OtherActor(t) ==
    /\ moves < MoveBound
    /\ moves' = moves + 1
    /\ OperatorMove(t) \/ QuarantineEscalated(t) \/ RequeueDeadLetter(t)
    /\ UNCHANGED <<poll, dispatch, escalating, recoveryVars>>

(***************************************************************************)
(* The process dies and starts again: memory is lost, and startup recovery *)
(* (the listing, then one write each; a failure ends it) runs beside the   *)
(* first poll and what it dispatches.                                      *)
(***************************************************************************)
Restart ==
    /\ restarts < RestartBound
    /\ restarts' = restarts + 1
    /\ qm' = NoTracking
    /\ poll' = [p \in Polls |-> NoCycle]
    /\ dispatch' = [d \in Dispatches |-> NoCall]
    /\ escalating' = {}
    /\ orphans' = {}
    /\ starting' = TRUE
    /\ UNCHANGED <<ticket, dlq, moves>>

ListOrphans ==
    /\ starting
    /\ starting' = FALSE
    /\ orphans' = {t \in Tickets : ticket[t] \in {"in_process_discovery",
                                                 "in_process_design"}}
    /\ UNCHANGED <<ticket, dlq, qm, poll, dispatch, escalating, moves,
                   restarts>>

recoverOrphanedTickets(t) ==
    /\ t \in orphans
    /\ IF Allowed(t, "approved")
         THEN ObservedMove(t, "approved") /\ orphans' = orphans \ {t}
         ELSE orphans' = {} /\ UNCHANGED <<ticket, qm>>
    /\ UNCHANGED <<dlq, poll, dispatch, escalating, starting, moves, restarts>>

StartStep ==
    Restart \/ ListOrphans \/ \E t \in Tickets : recoverOrphanedTickets(t)

RunStep ==
    \/ \E d \in Dispatches : DispatchStep(d)
    \/ \E p \in Polls : PollStep(p) \/ \E t \in Tickets : Reroute(p, t)
    \/ \E t \in Tickets : EscalationStep(t) \/ OtherActor(t)

Next == RunStep \/ StartStep

Spec == Init /\ [][Next]_vars

(***************************************************************************)
(* Every await settles (the pipeline has a timeout), the poll timer keeps  *)
(* ticking, and what may fail or block a cycle does not do so for ever:    *)
(* there is a free slot, the ticket query answers, the budget allows a     *)
(* dispatch again, the runtime is ready and the grace period passes.       *)
(***************************************************************************)
Fairness ==
    /\ \A d \in Dispatches : WF_vars(DispatchStep(d))
    /\ \A t \in Tickets :
         /\ WF_vars(EscalationStep(t))
         /\ \A seen \in OshalTicketState :
              WF_vars(CommitEscalation(t, seen) /\ EscalationOnly)
    /\ \A p \in Polls :
         /\ WF_vars(PollStep(p))
         /\ SF_vars(PollCapacity(p) /\ PollOnly)
         /\ SF_vars(PollList(p) /\ PollOnly)
         /\ \A t \in Tickets :
              /\ SF_vars(Launch(p, t) /\ PollOnly)
              /\ SF_vars(PollDeferred(p) /\ t \in poll'[p].stale /\ PollOnly)
              /\ SF_vars(Recover(p, t) /\ Moves(t) /\ PollOnly)

FairSpec == Spec /\ Fairness
-----------------------------------------------------------------------------
(***************************************************************************)
(* Properties.                                                             *)
(***************************************************************************)
(***************************************************************************)
(* What the one-dispatch guard cannot withstand: another actor's move, or  *)
(* the watchdog, takes a slot from its dispatch; or the breaker's write,   *)
(* which compares statuses and no version, is still out when its ticket is *)
(* dead-lettered, so that a requeue can bring back the status it compares  *)
(* with and the attempts it escalates for are forgotten.                   *)
(***************************************************************************)
Disturbs ==
    /\ moves' # moves
    /\ \/ qm'.active # qm.active
       \/ \E t \in Tickets, seen \in OshalTicketState \cup {None} :
            <<t, seen>> \in escalating /\ ticket'[t] = "dead_letter"

UndisturbedNext == (RunStep /\ ~Disturbs) \/ StartStep

UndisturbedSpec == Init /\ [][UndisturbedNext]_vars

DispatchesOf(t) == {d \in Dispatches : Running(d) /\ dispatch[d].ticket = t}

\* The capacity a cycle computes before its sweeps still bounds the slots it
\* takes after them, whatever finished, was aborted or was freed in between
\* (the pollCycleInProgress guard).
SlotsWithinCapacity == Cardinality(qm.active) <= MaxConcurrent

\* No slot leaks: one that is taken has a dispatch whose finally block will
\* release it, also after the ticket was escalated and dispatched again.
EverySlotHasADispatch == \A t \in qm.active : DispatchesOf(t) # {}

\* No abort flag outlives the dispatches it was raised for: a later dispatch
\* of the same ticket never finds a flag nobody alive was meant to see.
EveryAbortFlagHasADispatch == \A t \in qm.aborted : DispatchesOf(t) # {}

\* While nobody disturbs it (UndisturbedSpec), a ticket has at most one
\* dispatch, which holds its slot to the end ("so one ticket is never claimed
\* twice"), whatever else other actors do to the ticket.
OneDispatchPerTicket ==
    \A t \in Tickets :
        /\ Cardinality(DispatchesOf(t)) <= 1
        /\ DispatchesOf(t) # {} => t \in qm.active

\* The breaker is read when the cycle lists the ticket and counted when the
\* dispatch has started: undisturbed, the count still never passes the limit.
AttemptsWithinBreaker == \A t \in Tickets : qm.count[t] <= MaxDispatchAttempts

\* Every slot is released again, on every path out of dispatchTicket.
SlotsAreReleased == \A t \in Tickets : t \in qm.active ~> t \notin qm.active

\* Retries end: rollbacks, refusals by governance and deferrals cannot keep a
\* ticket coming back to the approved queue (the breaker, and one recovery).
RetriesEnd == \A t \in Tickets : <>[](ticket[t] # "approved")
=============================================================================
