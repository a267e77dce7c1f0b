-------------------------- MODULE RoutingWatchdog --------------------------
(***************************************************************************)
(* The work items of one ticket under the routing watchdog.  Four writers  *)
(* share them and none locks: the watchdog's sweep, which gives up stale   *)
(* items and retries those that failed to be routed; the circuit breakers, *)
(* which give up all of a ticket's items; the dispatch, which creates and  *)
(* assigns them; and the bots, which claim them and store their results.   *)
(* Every status write is by id, whatever the status has become since it    *)
(* was read.  Every write makes the item fresh (updated_at).               *)
(*                                                                         *)
(* The watchdog looks only at the newest 500 items of all tickets: as soon *)
(* as there are 500 newer ones an item is buried, and the watchdog has no  *)
(* more to do with it.                                                     *)
(***************************************************************************)
EXTENDS TicketStates, Naturals

CONSTANTS
    Items,          \* the work items of the ticket (unitIds)
    None,
    MaxRetries,     \* OSHAL_MAX_ROUTING_RETRIES
    Moves,          \* the states others move the ticket to
    MoveBound,      \* how often they do
    FailureBound    \* failed statements and crashed processes

ASSUME MaxRetriesAssumption == MaxRetries \in Nat \ {0}
ASSUME NoneAssumption == None \notin Items
ASSUME MovesAssumption == Moves \subseteq OshalTicketState
ASSUME BoundsAssumption == MoveBound \in Nat /\ FailureBound \in Nat

VARIABLES
    ticket,     \* tickets.status
    status,     \* work_items.status
    buried,     \* items that 500 newer ones keep out of listRecent
    age,        \* time since updated_at: fresh, due (past the backoff) or
                \* stale (past the stale threshold, the longer of the two)
    retries,    \* metadata.routingRetryCount
    marks,      \* metadata.routingRetryExhausted and routingRetrySuppressed
    sweep,      \* the watchdog: its step, its list, the item in hand
    breaker,    \* what a tripped breaker has listed and not marked yet
    dispatch,   \* what the running dispatch does next with each item
    queued,     \* items with an envelope on a bot's channel
    bot,        \* what the bot that took the envelope does next
    rejects,    \* the items it has listed to hand back and not marked yet
    resets,     \* history: how often the watchdog reset the item,
    uncounted,  \* and how often it did so without counting
    moves,
    failures

items == <<status, age, buried>>
meta == <<retries, marks>>
bots == <<queued, bot, rejects>>
history == <<resets, uncounted>>
bounds == <<moves, failures>>
vars == <<ticket, items, meta, sweep, breaker, dispatch, bots, history, bounds>>

ROUTING_ACTIVE_STATUSES == {"pending", "assigned"}
Ended == {"completed", "failed"}
WorkItemStatus == {"none", "routing_failed"} \cup ROUTING_ACTIVE_STATUSES \cup Ended

ROUTING_RETRY_TERMINAL_TICKET_STATUSES ==
    {"complete", "cancelled", "escalated", "dead_letter"}

Idle == [pc |-> "idle", todo |-> {}, due |-> {}, item |-> None]

TypeOK ==
    /\ ticket \in OshalTicketState
    /\ status \in [Items -> WorkItemStatus]
    /\ age \in [Items -> {"fresh", "due", "stale"}]
    /\ buried \subseteq Items
    /\ retries \in [Items -> 0 .. MaxRetries]
    /\ marks \in [Items -> SUBSET {"exhausted", "suppressed"}]
    /\ sweep \in [pc : {"idle", "stale", "list", "suppress", "exhaust",
                        "escalate", "reset", "count", "approve"},
                  todo : SUBSET Items, due : SUBSET Items, item : Items \cup {None}]
    /\ breaker \subseteq Items
    /\ dispatch \in [Items -> {"idle", "create", "assign", "send"}]
    /\ queued \subseteq Items
    /\ bot \in [Items -> {"idle", "check", "reject", "claim", "work", "record",
                          "store", "complete", "escalated"}]
    /\ rejects \in [Items -> SUBSET Items]
    /\ resets \in [Items -> Nat]
    /\ uncounted \in [Items -> Nat]
    /\ moves \in 0 .. MoveBound
    /\ failures \in 0 .. FailureBound

Init ==
    /\ ticket = "approved"
    /\ status = [i \in Items |-> "none"]
    /\ age = [i \in Items |-> "fresh"]
    /\ buried = {}
    /\ retries = [i \in Items |-> 0]
    /\ marks = [i \in Items |-> {}]
    /\ sweep = Idle
    /\ breaker = {}
    /\ dispatch = [i \in Items |-> "idle"]
    /\ queued = {}
    /\ bot = [i \in Items |-> "idle"]
    /\ rejects = [i \in Items |-> {}]
    /\ resets = [i \in Items |-> 0]
    /\ uncounted = [i \in Items |-> 0]
    /\ moves = 0
    /\ failures = 0

\* Neither brings a buried item up again: the list is by created_at.
updateStatus(i, to) ==
    /\ status' = [status EXCEPT ![i] = to]
    /\ age' = [age EXCEPT ![i] = "fresh"]
    /\ UNCHANGED buried

updateMetadata(i) ==
    /\ age' = [age EXCEPT ![i] = "fresh"]
    /\ UNCHANGED <<status, buried>>

\* A ticket write the table forbids is an error its caller swallows.
updateTicket(to) ==
    ticket' = IF isTicketStatusTransitionAllowed(ticket, to) THEN to ELSE ticket

\* A query that may fail, of those the bound still allows.
MayFail(failed) ==
    /\ failed => failures < FailureBound
    /\ failures' = IF failed THEN failures + 1 ELSE failures

(***************************************************************************)
(* The sweep, once for each poll cycle.  Nobody else writes retries and    *)
(* marks, so that what it read of them with its list is what they are.     *)
(***************************************************************************)

listRecent == Items \ buried

\* Mutant of Active: an assigned item is in somebody's hands.
ActivePending == {i \in Items : status[i] = "pending"}

Active == {i \in Items : status[i] \in ROUTING_ACTIVE_STATUSES}

sweepRecentWorkItems ==
    /\ sweep.pc = "idle"
    /\ sweep' = [Idle EXCEPT !.pc = "stale",
                             !.todo = {i \in Active \cap listRecent : age[i] = "stale"}]
    /\ UNCHANGED <<ticket, items, meta, breaker, dispatch, bots, history, bounds>>

MarkStale(i) ==
    /\ sweep.pc = "stale"
    /\ i \in sweep.todo
    /\ updateStatus(i, "routing_failed")
    /\ sweep' = [sweep EXCEPT !.todo = @ \ {i}]
    /\ UNCHANGED <<ticket, meta, breaker, dispatch, bots, history, bounds>>

\* Mutant of Retryable: a suppressed item is tried like any other.
RetryableAll == {i \in Items : status[i] = "routing_failed"}

Retryable == {i \in Items : status[i] = "routing_failed" /\ "suppressed" \notin marks[i]}

retryRoutingFailedItems ==
    /\ sweep.pc = "stale"
    /\ sweep.todo = {}
    /\ sweep' = [Idle EXCEPT !.pc = "list", !.todo = Retryable \cap listRecent,
                             !.due = {i \in Items : age[i] # "fresh"}]
    /\ UNCHANGED <<ticket, items, meta, breaker, dispatch, bots, history, bounds>>

\* Mutant of Decision: the last retry is one too many.
DecisionOffByOne(i, terminal) ==
    IF terminal THEN "suppress"
    ELSE IF retries[i] > MaxRetries
      THEN IF "exhausted" \in marks[i] THEN "list" ELSE "exhaust"
    ELSE IF i \in sweep.due THEN "reset" ELSE "list"

\* What is done with item i of the list, by what was read of its ticket.
Decision(i, terminal) ==
    IF terminal THEN "suppress"
    ELSE IF retries[i] >= MaxRetries
      THEN IF "exhausted" \in marks[i] THEN "list" ELSE "exhaust"
    ELSE IF i \in sweep.due THEN "reset" ELSE "list"

\* A ticket that cannot be read is taken for one that is not terminal.
ReadTicket(i) ==
    /\ sweep.pc = "list"
    /\ i \in sweep.todo
    /\ \E failed \in BOOLEAN :
        /\ MayFail(failed)
        /\ sweep' = [sweep EXCEPT
                !.todo = @ \ {i},
                !.item = i,
                !.pc = Decision(i, /\ ~failed
                                   /\ ticket \in ROUTING_RETRY_TERMINAL_TICKET_STATUSES)]
    /\ UNCHANGED <<ticket, items, meta, breaker, dispatch, bots, history, moves>>

InHand(pc) == sweep.pc = pc
Then(pc) == sweep' = [sweep EXCEPT !.pc = pc]
Mark(m) ==
    /\ updateMetadata(sweep.item)
    /\ marks' = [marks EXCEPT ![sweep.item] = @ \cup {m}]

suppressRetryIfTerminalTicket ==
    /\ InHand("suppress")
    /\ Mark("suppressed")
    /\ Then("list")
    /\ UNCHANGED <<ticket, retries, breaker, dispatch, bots, history, bounds>>

markRetryExhausted ==
    /\ InHand("exhaust")
    /\ Mark("exhausted")
    /\ Then("escalate")
    /\ UNCHANGED <<ticket, retries, breaker, dispatch, bots, history, bounds>>

updateTicketFromRoutingExhaustion ==
    /\ InHand("escalate")
    /\ updateTicket("escalated")
    /\ Then("list")
    /\ UNCHANGED <<items, meta, breaker, dispatch, bots, history, bounds>>

\* A retry is three statements: the status, the count, the ticket.
ResetToPending ==
    /\ InHand("reset")
    /\ updateStatus(sweep.item, "pending")
    /\ resets' = [resets EXCEPT ![sweep.item] = @ + 1]
    /\ Then("count")
    /\ UNCHANGED <<ticket, meta, breaker, dispatch, bots, uncounted, bounds>>

\* Mutant of updateRetryMetadata: the count is written as it was read.
updateRetryMetadataStale ==
    /\ InHand("count")
    /\ updateMetadata(sweep.item)
    /\ Then("approve")
    /\ UNCHANGED <<ticket, meta, breaker, dispatch, bots, history, bounds>>

updateRetryMetadata ==
    /\ InHand("count")
    /\ updateMetadata(sweep.item)
    /\ retries' = [retries EXCEPT ![sweep.item] = @ + 1]
    /\ Then("approve")
    /\ UNCHANGED <<ticket, marks, breaker, dispatch, bots, history, bounds>>

updateTicketFromRoutingRetry ==
    /\ InHand("approve")
    /\ updateTicket("approved")
    /\ Then("list")
    /\ UNCHANGED <<items, meta, breaker, dispatch, bots, history, bounds>>

\* The item is pending again, and its count stays what it was.
CountIsLost ==
    uncounted' = IF sweep.pc = "count"
                   THEN [uncounted EXCEPT ![sweep.item] = @ + 1] ELSE uncounted

\* A failed write ends the attempt on this item: the error is caught.
WriteFails ==
    /\ failures < FailureBound
    /\ sweep.pc \in {"exhaust", "escalate", "reset", "count", "approve"}
    /\ failures' = failures + 1
    /\ CountIsLost
    /\ Then("list")
    /\ UNCHANGED <<ticket, items, meta, breaker, dispatch, bots, resets, moves>>

SweepEnds ==
    /\ sweep.pc = "list"
    /\ sweep.todo = {}
    /\ sweep' = Idle
    /\ UNCHANGED <<ticket, items, meta, breaker, dispatch, bots, history, bounds>>

\* A failure nobody catches - of a listing, a stale mark, a suppression -
\* ends the poll cycle.
SweepAborts ==
    /\ failures < FailureBound
    /\ sweep.pc \in {"stale", "list", "suppress"}
    /\ failures' = failures + 1
    /\ sweep' = Idle
    /\ UNCHANGED <<ticket, items, meta, breaker, dispatch, bots, history, moves>>

(***************************************************************************)
(* The circuit breakers and everybody else who moves the ticket: the       *)
(* dispatch pipeline, the dead-letter policy, an operator.                 *)
(***************************************************************************)

Moved == moves < MoveBound /\ moves' = moves + 1

markTicketRoutingFailures ==
    /\ Moved
    /\ breaker' = breaker \cup Active
    /\ UNCHANGED <<ticket, items, meta, sweep, dispatch, bots, history, failures>>

BreakerMarks(i) ==
    /\ i \in breaker
    /\ updateStatus(i, "routing_failed")
    /\ breaker' = breaker \ {i}
    /\ UNCHANGED <<ticket, meta, sweep, dispatch, bots, history, bounds>>

OthersMove(to) ==
    /\ Moved
    /\ to # ticket
    /\ isTicketStatusTransitionAllowed(ticket, to)
    /\ ticket' = to
    /\ UNCHANGED <<items, meta, sweep, breaker, dispatch, bots, history, failures>>

(***************************************************************************)
(* The dispatch.                                                           *)
(***************************************************************************)

dispatchTicket ==
    /\ ticket = "approved"
    /\ \A i \in Items : dispatch[i] = "idle"
    /\ ticket' = "in_process_build"
    /\ dispatch' = [i \in Items |-> "create"]
    /\ UNCHANGED <<items, meta, sweep, breaker, bots, history, bounds>>

\* create returns the row there is; an ended or failed one is left alone.
persistWorkItems(i) ==
    /\ dispatch[i] = "create"
    /\ IF status[i] = "none" THEN updateStatus(i, "pending") ELSE UNCHANGED items
    /\ dispatch' = [dispatch EXCEPT ![i] =
            IF status[i] \in Ended \cup {"routing_failed"} THEN "send" ELSE "assign"]
    /\ UNCHANGED <<ticket, meta, sweep, breaker, bots, history, bounds>>

AssignItem(i) ==
    /\ dispatch[i] = "assign"
    /\ updateStatus(i, "assigned")
    /\ dispatch' = [dispatch EXCEPT ![i] = "send"]
    /\ UNCHANGED <<ticket, meta, sweep, breaker, bots, history, bounds>>

\* A failure to persist is logged and the envelopes go out all the same.
PersistFails ==
    /\ failures < FailureBound
    /\ \E i \in Items : dispatch[i] \in {"create", "assign"}
    /\ failures' = failures + 1
    /\ dispatch' = [i \in Items |-> "send"]
    /\ UNCHANGED <<ticket, items, meta, sweep, breaker, bots, history, moves>>

Publish ==
    /\ \A i \in Items : dispatch[i] = "send"
    /\ dispatch' = [i \in Items |-> "idle"]
    /\ queued' = Items
    /\ UNCHANGED <<ticket, items, meta, sweep, breaker, bot, rejects, history, bounds>>

(***************************************************************************)
(* The bots.                                                               *)
(***************************************************************************)

BotGoes(i, pc) == bot' = [bot EXCEPT ![i] = pc]

\* An envelope of a finished ticket is acknowledged and dropped; a ticket that
\* cannot be read is taken for an open one.
TakeEnvelope(i) ==
    /\ i \in queued
    /\ bot[i] = "idle"
    /\ queued' = queued \ {i}
    /\ \E failed \in BOOLEAN :
        /\ MayFail(failed)
        /\ BotGoes(i, IF ~failed /\ ticket \in {"complete", "escalated", "dead_letter"}
                        THEN "idle" ELSE "check")
    /\ UNCHANGED <<ticket, items, meta, sweep, breaker, dispatch, rejects, history, moves>>

\* The bot may not do this phase's work (SP-10): the envelope is
\* acknowledged and the item handed back or, when the envelope does not say
\* which it is about, whatever of the ticket is still to be done.
shouldRejectForPhaseViolation(i) ==
    /\ bot[i] = "check"
    /\ \E targets \in {{j \in {i} : status[j] # "none"}, Active} :
        /\ rejects' = [rejects EXCEPT ![i] = targets]
        /\ BotGoes(i, IF targets = {} THEN "idle" ELSE "reject")
    /\ UNCHANGED <<ticket, items, meta, sweep, breaker, dispatch, queued, history, bounds>>

RejectItem(i) ==
    /\ bot[i] = "reject"
    /\ \E j \in rejects[i] :
        /\ updateStatus(j, "routing_failed")
        /\ rejects' = [rejects EXCEPT ![i] = @ \ {j}]
        /\ BotGoes(i, IF rejects[i] = {j} THEN "idle" ELSE "reject")
    /\ UNCHANGED <<ticket, meta, sweep, breaker, dispatch, queued, history, bounds>>

\* An ended item is not executed again; its ticket is given its verdict.  Items
\* that cannot be listed are taken for open ones.
findAlreadyCompletedWorkItem(i) ==
    /\ bot[i] = "check"
    /\ \E failed \in BOOLEAN :
        /\ MayFail(failed)
        /\ BotGoes(i, IF ~failed /\ status[i] = "completed" THEN "complete"
                      ELSE IF ~failed /\ status[i] = "failed" THEN "escalated"
                      ELSE IF status[i] \in {"pending", "routing_failed"} THEN "claim"
                      ELSE "work")
    /\ UNCHANGED <<ticket, items, meta, sweep, breaker, dispatch, queued, rejects,
                   history, moves>>

\* The work is done also when it cannot be claimed.
markAssigned(i) ==
    /\ bot[i] = "claim"
    /\ \E failed \in BOOLEAN :
        /\ MayFail(failed)
        /\ IF failed THEN UNCHANGED items ELSE updateStatus(i, "assigned")
    /\ BotGoes(i, "work")
    /\ UNCHANGED <<ticket, meta, sweep, breaker, dispatch, queued, rejects, history, moves>>

\* The handler returns; the envelope is acknowledged before the result is
\* recorded.
HandlerReturns(i) ==
    /\ bot[i] = "work"
    /\ BotGoes(i, "record")
    /\ UNCHANGED <<ticket, items, meta, sweep, breaker, dispatch, queued, rejects, history, bounds>>

recordResult(i) ==
    /\ bot[i] = "record"
    /\ BotGoes(i, IF status[i] \in ROUTING_ACTIVE_STATUSES \cup {"routing_failed"}
                    THEN "store" ELSE "idle")
    /\ UNCHANGED <<ticket, items, meta, sweep, breaker, dispatch, queued, rejects, history, bounds>>

\* The ticket of a completed item is escalated all the same when its output
\* reads like a runtime failure.
StoreResult(i) ==
    /\ bot[i] = "store"
    /\ \E verdict \in Ended, to \in {"complete", "escalated"} :
        /\ verdict = "failed" => to = "escalated"
        /\ updateStatus(i, verdict)
        /\ BotGoes(i, to)
    /\ UNCHANGED <<ticket, meta, sweep, breaker, dispatch, queued, rejects, history, bounds>>

updateTicketTerminalState(i) ==
    /\ bot[i] \in {"complete", "escalated"}
    /\ updateTicket(bot[i])
    /\ BotGoes(i, "idle")
    /\ UNCHANGED <<items, meta, sweep, breaker, dispatch, queued, rejects, history, bounds>>

\* An envelope that was not acknowledged is delivered again.
BotCrashes(i) ==
    /\ failures < FailureBound
    /\ bot[i] # "idle"
    /\ failures' = failures + 1
    /\ queued' = IF bot[i] \in {"check", "claim", "work"} THEN queued \cup {i} ELSE queued
    /\ BotGoes(i, "idle")
    /\ rejects' = [rejects EXCEPT ![i] = {}]
    /\ UNCHANGED <<ticket, items, meta, sweep, breaker, dispatch, history, moves>>

(***************************************************************************)
(* The API process and time.                                               *)
(***************************************************************************)

ApiRestarts ==
    /\ failures < FailureBound
    /\ failures' = failures + 1
    /\ CountIsLost
    /\ sweep' = Idle
    /\ breaker' = {}
    /\ dispatch' = [i \in Items |-> "idle"]
    /\ UNCHANGED <<ticket, items, meta, bots, resets, moves>>

TimePasses(i) ==
    /\ status[i] \in ROUTING_ACTIVE_STATUSES \cup {"routing_failed"}
    /\ age[i] # "stale"
    /\ age' = [age EXCEPT ![i] = IF age[i] = "fresh" THEN "due" ELSE "stale"]
    /\ UNCHANGED <<ticket, status, buried, meta, sweep, breaker, dispatch, bots,
                   history, bounds>>

\* Other tickets get the 500th item that is newer than this one.
NewerItems(i) ==
    /\ status[i] # "none"
    /\ i \notin buried
    /\ buried' = buried \cup {i}
    /\ UNCHANGED <<ticket, status, age, meta, sweep, breaker, dispatch, bots,
                   history, bounds>>

Sweep ==
    \/ sweepRecentWorkItems \/ retryRoutingFailedItems \/ SweepEnds
    \/ \E i \in Items : MarkStale(i) \/ ReadTicket(i)
    \/ suppressRetryIfTerminalTicket
    \/ markRetryExhausted \/ updateTicketFromRoutingExhaustion
    \/ ResetToPending \/ updateRetryMetadata \/ updateTicketFromRoutingRetry

Next ==
    \/ Sweep
    \/ WriteFails \/ SweepAborts
    \/ markTicketRoutingFailures
    \/ \E to \in Moves : OthersMove(to)
    \/ dispatchTicket \/ PersistFails \/ Publish
    \/ \E i \in Items :
        \/ BreakerMarks(i)
        \/ persistWorkItems(i) \/ AssignItem(i)
        \/ TakeEnvelope(i) \/ shouldRejectForPhaseViolation(i) \/ RejectItem(i)
        \/ findAlreadyCompletedWorkItem(i) \/ markAssigned(i)
        \/ HandlerReturns(i) \/ recordResult(i) \/ StoreResult(i)
        \/ updateTicketTerminalState(i) \/ BotCrashes(i)
        \/ TimePasses(i) \/ NewerItems(i)
    \/ ApiRestarts

Spec == Init /\ [][Next]_vars

\* The poll timer and the clock; nothing is assumed of bots and dispatches.
FairSpec ==
    /\ Spec
    /\ WF_vars(Sweep)
    /\ \A i \in Items : WF_vars(TimePasses(i))

(***************************************************************************)
(* Properties.                                                             *)
(***************************************************************************)

\* The watchdog retries an item at most MaxRetries times, whoever else
\* resets, reassigns or fails it in between, plus once for every retry whose
\* count it failed to write after the reset (retryRoutingFailedItems).
ResetsWithinLimit == \A i \in Items : resets[i] <= MaxRetries + uncounted[i]

\* An item whose retries were suppressed is never reset again, also when its
\* ticket has been requeued since (routingRetrySuppressed).
SuppressionIsFinal ==
    [][\A i \in Items : "suppressed" \in marks[i] => resets'[i] = resets[i]]_vars

\* Every item's routing comes to an end, without any help from bots or
\* dispatches, unless 500 newer items bury it first: it has a result, or the
\* watchdog has given it up.  What is buried stays as it is.
RoutingEnds ==
    <>[](\A i \in Items :
            \/ i \in buried
            \/ status[i] \in {"none"} \cup Ended
            \/ status[i] = "routing_failed" /\ marks[i] # {})

\* What the comment in the queue manager says: "dead_letter -> approved is
\* exclusively the operator DLQ requeue (no other transition reaches it)" -
\* the watchdog's retry does not release a quarantined ticket.
WatchdogReleasesNoDeadLetter ==
    [][ticket = "dead_letter" /\ ticket' = "approved" => sweep' = sweep]_vars
=============================================================================
