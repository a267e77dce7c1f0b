# The ticket control plane of OSHAL in TLA+

OSHAL runs swarms of LLM agents over *tickets*: a ticket is queued, claimed by
the queue manager, handed to a pipeline of agent rounds, split into child
tickets by its planning round, retried, escalated, parked as a dead letter, and
in the end completed. The agents themselves are outside any model checker's
reach; the part that decides which of them runs when, and what happens to a
ticket when something fails, is an ordinary concurrent program in one
JavaScript process with a database behind it. That part is modelled here, and
with it the two protocols by which work leaves the process: work items claimed by
bots over the message mesh, and tasks for a user's own device.

TLC checks the modules on small instances, and TLAPS proves the properties that
matter most for every value of the constants.

All source paths below are relative to `src/`. `ticketing/` stands for
`src/features/ticketing/services/`, `swarm/` for
`src/features/swarm-orchestration/services/`, `remote/` for
`src/features/remote-client/services/` and `routes/` for `src/app/routes/`.

## 1. Inventory

### Components in the scope of the models

| Component | State | Operations | Correct when |
|---|---|---|---|
| Ticket lifecycle (`src/entities/ticket/types.ts`, `ticketing/ticket-service.ts`) | none: the 16 states and `VALID_TRANSITIONS` | `isTicketStatusTransitionAllowed`, `linkedChatTaskStatus` | every status change follows the table |
| Ticket store (`ticketing/ticket-service.ts`, `ticketing/ticket-store-postgres.ts`) | `tickets.status`, linked chat task, history | `updateStatus(As)`, `quarantineToDeadLetter`, `requeueFromDeadLetter`, `linkTask` | read-then-write callers behave as if each call were atomic |
| Dead letters (`swarm/dead-letter-service.ts`) | the `oshal_queue_dlq` row: attempts, quarantine mark | `recordFailureCycle`, `quarantineRefusal`, `requeue`, the escalation listener | row and status change together; evidence of a parked ticket stays |
| Queue manager (`swarm/queue-manager-service.ts`, `queue-manager-dispatch-helpers.ts`, `queue-manager-sweeps.ts`) | in memory: active slots, start times, abort flags, dispatch counts, recovered set, the in-progress flag | timer tick, `dispatchTicket`, `rollbackTicket`, slot watchdog, circuit breaker, deferred sweep, auto-start sweep, status listener, startup recovery | never more slots than configured, no ticket dispatched twice, no slot or flag leaks, retries end |
| Parent and child tickets (the same files and `swarm/parent-assembly-service.ts`) | the children's statuses and work items, the parent's status | child creation, sibling order, parent gate, completion gate, child hook, `checkAndAssemble`, stale-parent sweep, reconciliation, build gate | siblings run one at a time, a root finishes after its children, and it does finish |
| Work items and their watchdog (`swarm/work-item-routing-watchdog-service.ts`, `src/entities/work-item/`, `swarm/swarm-agent-worker.ts`) | `work_items`: status, retry count, exhausted and suppressed marks | the sweep of stale items, the retry of those that failed to be routed, the breakers' marking, creation and assignment by the dispatch, claim and result by a bot | retries are bounded, suppression is final, every item's routing ends |
| Remote client and task journal (`remote/*`, `routes/remote-client-*.ts`) | journal tables: tasks, owner bindings, outbox; the registry in memory; the daemon's current task | register, reassign, enqueue, claim, settle, expire, withdraw; poll, run, report | a task is handed out once, for the device's owner, runs at most once, has one result |
| Task outbox (`remote/remote-task-journal-service.ts`, `routes/remote-client-task-results.ts`) | outbox rows, cost receipts, outputs of work items | the replay pass, cost, landing, mesh event, mark; the subscriber | every effect happens, and happens once |

### How they interact

* Everybody writes tickets through `TicketService`, which reads the ticket,
  consults the table, and hands the store an `expectedStatus` to compare under
  the row lock. Between the read and the write every other caller may run.
* A committed status write emits an event. Two listeners answer it: the queue
  manager's frees the slot of an escalated or cancelled ticket and raises its
  abort flag, synchronously; the dead-letter service counts an escalation as a
  failed cycle, in the background.
* The queue manager's timer starts a poll cycle: slot watchdog, routing
  watchdog, capacity, auto-start sweep, listing, breaker, deferred sweep,
  stale-parent sweep, parent gate, and at last one un-awaited `dispatchTicket`
  per chosen ticket. A dispatch claims its ticket, probes the runtime, awaits
  the pipeline and writes the outcome; everything else goes on meanwhile.
* A root's pipeline returns units; they become children, which the same cycle
  dispatches one after the other. A child that completes asks
  `ParentAssemblyService` to look at its parent; so do the root's own completion
  gate and two sweeps.
* Each poll cycle runs the routing watchdog, which gives up and retries work items
  by id. The dispatch, the breakers and the bots, which take envelopes from the
  mesh, write the same rows; only the ticket connects the items.
* A device's daemon polls the API process for tasks. Chat turns and other agents
  enqueue them; the settlement commits an outbox row, whose pass puts the result
  on a work item and on the mesh.
* Operators and bots move tickets through the cockpit's routes at any moment;
  workers, perhaps in another process, write the tickets of their work items.

### What is hard in it

The process is single-threaded, but each `await` is a point where every other
callback may run: status read before it is stale after it, slots counted before
it are taken after it, and a flag raised before it may be read by a later
dispatch of the same ticket. Timers overlap with the cycles they start. A crash
loses the memory and keeps the database. Two tables have to change together. Work
items have no compare-and-set at all: each writer wins over what it read before.
Between device and controller every answer may be lost after its effect was
committed. Retries are bounded by three counters (the in-memory breaker, the persisted
dead-letter counter, one recovery per process), each with its own moment of
counting. `PROJECT.json` lists these hazards at their lines, each with the
properties that catch it going wrong.

### Components that are not modelled

| Component | Why not (yet) |
|---|---|
| Manifest-worker, incident and graph dispatch (`swarm/dispatch-*.ts`) | they share the slots and the breaker and take them at other moments; not begun |
| Swarm ticket processing: rounds, consensus, cycle state machine | one run of the pipeline is a single nondeterministic outcome; its work items and workers are in `RoutingWatchdog`, its signed build hop is not |
| Queue and cost governance | their verdict is a nondeterministic choice at the point where it is asked; what a budget adds up to is outside the models |
| In-memory, resilient and synced ticket stores | the fallback store loses its contents on a restart and promises less than `TicketBoard`; not begun |
| Scheduling; workflow studio; tool approval | protocols of their own, unconnected with those modelled; not begun |
| Subtask decomposition, consensus review, verification; LLM providers, tools, RAG, memory, graph | what they compute is model output and external services; only their control outcome matters here |
| Alert pipeline, streaming, notifications, chat; security; applications; HTTP layer and clients; deployment | delivery, checks on single requests, user interface, or applications built on top |

## 2. Modules

| Module | Models | Used by |
|---|---|---|
| `TicketStates` | the states, the transition table, the verdict given to a linked chat task | all |
| `TicketBoard` | the abstract store: every operation one atomic step | `TicketStore` (refinement) |
| `TicketStore` | `TicketService` over `PostgresTicketStore`, and `DeadLetterService` | `MCTicketStore`, `TicketStoreProofs` |
| `QueueManager` | the poll cycle and `dispatchTicket`, await by await | `MCQueueManager`, `QueueManagerProofs`, `QueueManagerClaimProofs`, `QueueManagerDispatchProofs` |
| `ParentAssembly` | a root, its children, and everything that looks at both | `MCParentAssembly`, `ParentAssemblyProofs` |
| `RoutingWatchdog` | a ticket's work items under the watchdog, the breakers, the dispatch and the bots | `MCRoutingWatchdog`, `RoutingWatchdogProofs` |
| `TaskContract` | the abstract journal: handed out once, one owner, one run, one result | `RemoteTasks` (refinement) |
| `RemoteTasks` | journal, registry, daemon and chat turns of one device | `MCRemoteTasks`, `RemoteTasksProofs` |
| `TaskOutbox` | settlements, the outbox pass and its effects, the subscriber | `MCTaskOutbox`, `TaskOutboxProofs` |
| `TicketStoreProofs`, `QueueManagerProofs`, `QueueManagerClaimProofs`, `QueueManagerDispatchProofs`, `ParentAssemblyProofs`, `RemoteTasksProofs`, `TaskOutboxProofs`, `RoutingWatchdogProofs` | the theorems of section 5 | |

### TicketStore

`ticket`, `dlq` and `chatTask` are the three tables. `call[c]` is a caller that
has read and not yet written: the operation, the status it saw, the status it
wants. `UpdateStatus` is the read and the table check; `CommitStatus` the
transaction, whose compare-and-set is `ExpectedStatus`; `Conflict` is
`TicketStatusConflictError`. A quarantine takes three steps as in the code: the
upsert that counts (`Counted`), the read (`ReadTicket`), the transaction
(`CommitQuarantine`). The escalation listener continues in the place of the
caller whose commit it heard (`EscalationCycle`). The requeue is one
transaction over both tables.

Left out: edits of other fields, listing, deletion, notifications. A call that
changes nothing (same status, a move outside the table) is no step. Statuses are
the canonical ones; legacy aliases are resolved before the code modelled here.

### QueueManager

An action is the code from one `await` to the next. `qm` is the in-memory
tracking; `poll[p]` a timer tick's cycle with its phase, the room it counted,
and its lists; `dispatch[d]` a `dispatchTicket` call with the await it is at.
A status write whose caller goes on afterwards takes two steps (`ReadForWrite`;
`CommitWrite` or `LoseWrite`), since what interleaves there decides whether the
dispatch completes, aborts or loses; the atomic writes of `TicketStore` stand for
the other actors' (`ObservedMove` includes the listener). `escalating` are the
escalations nobody awaits (breaker, slot watchdog). `Restart` forgets all memory,
and startup recovery then runs beside the first cycle.

Choices that stand for code elsewhere: the pipeline's outcome, the readiness
probe, the verdicts of queue and budget governance, whether the dead-letter
counter has reached its limit in `Rollback` or cannot be asked, in which case even
a parked ticket is rolled back (the counter itself is `TicketStore`'s), and which tickets are old enough for the deferred sweep. The
tickets are roots without children.

### ParentAssembly

`status` and `item` are the tickets and their work items; `run[t]` says where
the ticket's dispatch is; `listed[k]` are the children a checker (a dispatch or a
sweep) has listed and `verdict[k]` what it made of them. The listing and the
write that follows are separate steps; that is where this component can go
wrong. A listing that fails is one without children (`ListingFails`), as
`getChildTickets` has it. `CreateChild` creates the children one by one, as the code does.
`Consider` is the parent gate with the sibling order, `sweepStaleParents`,
`reconcileChildTicketsFromWorkItems` and `CheckStaleParent` the sweep of stale
parents. A worker writes the result of its work items (`recordResult`) and one await
later the ticket (`updateTicketTerminalState`, what is still to be written being in
`tells`), to `complete` or, also for a success that reads like a stalled provider
(`Stalls`), to `escalated`. The listener hears it only when the worker is in the same
process, so both are possible. `cutShort` is a history variable, for the property that
needs it.

Abstractions: claims and writes are one step here (`QueueManager` has them in
detail), the breaker is `FailureBound`, and a ticket is dispatched again only
after its former dispatch returned. Left out: roots that bypass planning (instant
answers, children created through the API), a dispatch deferred for its runtime,
the cancellation for an owner mismatch, the fallback for a missing multi-round
service, grandchildren, and pausing. Startup recovery is part of `Restart`, and the
dead-letter policy answering an escalation is part of the choice in `WorkFails`.

### RoutingWatchdog

`status`, `age`, `retries` and `marks` are the columns and metadata of the work
items; `age` replaces the clock, since the code only compares it with two
thresholds (the backoff and the longer stale limit). Every write makes an item
fresh, and by id: `updateStatus` has no expectation in the code either. `sweep`
is the watchdog: `sweepRecentWorkItems` lists and marks, `retryRoutingFailedItems`
lists and then takes each item through `Decision` and its writes, each a step, for
a retry `ResetToPending`, `updateRetryMetadata`, `updateTicketFromRoutingRetry`.
`breaker` is what a tripped breaker has listed; `dispatch` creates, assigns and
publishes item by item; `bot` is a bot with an envelope: terminal check, SP-10
rejection (`rejects` is what it has listed to hand back), deduplication, claim,
handler, result, ticket verdict, and its crash. The three checks a bot makes may
fail, and it goes on then (`MayFail`). `WriteFails` are the failures the retry loop
catches, `SweepAborts` those that end the poll cycle.

Both listings of the watchdog see only the newest 500 items of all tickets, ended ones
included. `buried` are the items that have 500 newer ones (`NewerItems`, at any
moment, for good: the order is that of creation); the sweep and the retry list
what is in `listRecent`, while the breakers and the bots, which ask by ticket, reach
every item. `resets` and `uncounted` are history variables: the retries made, and
those whose count was lost in a failure or restart between the two writes.

Left out: statuses no run of this code path gets to, the in-process rounds, two
consumers of one envelope at once, an item whose stored result the worker no longer
finds, and the signed build hop. Those statuses are `executing` and `in-review`,
and the `subtask-*` ones: `create` and `persistWorkItems` do write `subtask-pending`
and `subtask-assigned` for a unit of `depth` above 0, but every unit they are handed has
depth 0 (`swarm/planning-work-units.ts:171` wants it so, and ticket decomposition
gives no other), and `createSubtasks`, which makes deeper ones, has no caller.

### RemoteTasks and TaskContract

One device, since the journal's queries are all by client. The first five variables
are the journal's tables, written in transactions that are one step each;
`ready` to `moving` the registry of the API process with the owner changes
that are between their transaction and their write to memory (`RegisterBinds` and
`RegisterWrites`, `SetOwnerMoves` and `SetOwnerWrites`); `turn` the chat turns;
`pc`, `currentTaskId` and `runs` the daemon. A poll or a report is one step when its
answer arrives, and a variant of it when it does not (`PollAnswerLost`,
`ReportLost`). `stale` replaces the clock of `expireStaleClaim`. `ApiRestarts` and
`NodeRestarts` forget what is in memory.

The mapping to `TaskContract` is a renaming, with the five statuses as four phases;
what has to be shown is that the crashes, the registry and the lost answers add
no step the contract does not have. Left out: the purge of tombstones, browser
callbacks, the queue of swarm messages, and a second controller on the database.

### TaskOutbox

`settling` is a settlement request with its transaction (`SettleBegins`,
`SettleCommits`) and the pass it starts or joins (`SettleDrains`). `pass` is
`replayPendingOutbox`: selection of the oldest row, cost, landing in two writes,
mesh event, mark, until nothing is pending or `ReplayLimit` rows are delivered;
`PassEnds` is a step of its own, since a settlement that commits after the last
selection still joins, and `PassFails` may come in its place: a last commit, or the
purge of tombstones at the end of a start, that fails. `earlier` is the order of the transactions'
start times, which need not be that of their commits. `Target` is the rule by which
a result finds its work item, for the pass and for the subscriber.

All rows belong to one ticket: only there can results compete for items. Left
out: a bot's own result overwriting a receipt, items created or reactivated later.
`RoutingWatchdog` and `TaskOutbox` are not
composed: in the code an item the watchdog gave up (`routing_failed`) is not
landable, which the hazards list.

## 3. What the runs check

Runs that pass:

| Run | Properties | What it shows |
|---|---|---|
| `store` | `TypeOK`, `InFlightMovesAreInTable`, `OnlyTableTransitions`, `QuarantineIsAtomic`, `ParkedEvidenceIsFrozen`, `ImplementsBoard` | two callers interleaving reads and writes never leave the table, mark and clear the dead-letter row only together with the status, and implement the atomic board |
| `dispatch` | `OneDispatchPerTicket`, `AttemptsWithinBreaker`, `SlotsWithinCapacity` | overlapping ticks, a restart in the middle of anything, and others who move a ticket without freeing its slot: no double dispatch, no slot or attempt too many |
| `interference` | `TypeOK`, `EverySlotHasADispatch`, `EveryAbortFlagHasADispatch` | operators, watchdogs and the dead-letter policy move a ticket while up to two of its dispatches run: slots and flags never leak |
| `progress` | `SlotsAreReleased`, `RetriesEnd` | every slot is given back and no ticket returns to the queue for ever |
| `family` | `TypeOK`, `SiblingsRunOneAtATime`, `ParentFinishesLast`, `ClosedOnDoneChildren` | two children, stalled providers, a cancelled child, failed listings, a retried failure, a restart: one sibling at a time, the root last, and closed only on a listing of children that are done |
| `family_progress` | `PlannedRootsSettle`, `WaitingChildrenAreParked` | a planned root needs no operator to settle, and no child waits for ever below an escalated one |
| `routing` | `TypeOK`, `ResetsWithinLimit`, `SuppressionIsFinal`, `RoutingEnds` | whatever breakers, dispatches, bots and a failing statement or process do to an item between two statements of the watchdog, retries stay within their limit plus those whose count was lost, suppressed items stay so, and each item ends with a result or given up, unless newer items bury it first |
| `remote` | `TypeOK`, `OwnerFence`, `OneClaim`, `RunsAtMostOnce`, `FirstResultStands`, `ImplementsContract`, `KnownClaimsAreFreed` | with crashes on both sides and every answer at risk, the journal implements its contract, and a chat claim the living process handed out is freed |
| `outbox` | `TypeOK`, `ChargedOnce`, `ResultOnOneItem`, `SubscriberFindsNothing`, `DeliveredResultsAreLanded`, `NextSettlementCatchesUp` | a failure and a restart between any two effects: costs once, results on one item, complete before they count as delivered; the subscriber, which swallows failures, has nothing left to do |

Runs in which the code departs from what its comments say (`findings` in
`PROJECT.json` quotes the lines):

| Run | Property | What TLC finds |
|---|---|---|
| `blind_gate` | `NeverCompleteOverOpenChildren` | a planned root approved again is planned again; its new child cannot be created, its gate's listing of the children fails, and the root is completed over the child it has |
| `wedged` | `DaemonComesFree` | the heartbeat that announces a task fails, the task stays current, and the daemon polls no more |
| `watchdog_release` | `WatchdogReleasesNoDeadLetter` | a ticket quarantined between the watchdog's terminal check and its retry is released by the watchdog |

`wedged` uses the fair specification: the daemon's process is up, its timers run,
and it stays stuck all the same. `watchdog_release` needs no failure, only a
quarantine between two awaits of the watchdog.

Five more departures were met while modelling and are kept without a run of their
own. The cockpit's status route releases a parked ticket and leaves its row marked
(`routes/ticket-routes.ts:281`). A pipeline that throws after an operator's
escalation rolls it back, since the catch path asks for no flag
(`swarm/queue-manager-service.ts:1163`). A ticket deferred twice in one process is
retried once (`swarm/queue-manager-sweeps.ts:434`). A planned root that is approved
again gets a second child for every unit (`swarm/queue-manager-service.ts:1021`; the
trace of `blind_gate` has the second plan). A work item 500 newer ones bury is retried
and given up by nobody (`swarm/work-item-routing-watchdog-service.ts:72`).

Where a property of the family does not hold in every case, the case is in the
property and not in the constants, so that the runs and the theorems have it too:

* `SiblingsRunOneAtATime` excepts a child whose dispatch lost its slot, to the child's
  cancellation or to an escalation before the child was completed, and goes on beside
  its sibling's: the gate looks at slots and statuses, and neither shows it.
* `ParentFinishesLast` excepts a root that is planned again, and a family of which a
  child was cancelled while others were still to be created: the sweep finds that all
  there are are finished and closes the root. `ClosedOnDoneChildren` has no exception,
  and says what the code does ensure even then: the children the root was closed on
  are done. What it does not ensure, that they were all, is what `blind_gate` is about.

Likewise `RoutingEnds` excepts buried items, `ResetsWithinLimit` adds the retries whose
count was lost, and `NextSettlementCatchesUp` excepts a pass that has made its last
selection or reaches its limit. One condition is a specification of its own:

* `Disturbs` (`QueueManager`). `OneDispatchPerTicket` and `AttemptsWithinBreaker` are
  checked for `UndisturbedSpec`, in which others move tickets, but two of their moves
  are left out: one that frees the slot of a running dispatch (an operator's or the
  slot watchdog's), which lets the ticket be dispatched again beside it; and one that
  quarantines a ticket while the breaker's own escalation is still out. Nobody awaits
  that escalation and the store compares the status only, so that a ticket
  quarantined and requeued meanwhile has the expected status again, with its
  attempts forgotten; it is dispatched, the late escalation takes the slot, and it is
  dispatched once more. TLC shows this when either part of `Disturbs` is dropped.

Every property of a passing run has a mutant in `PROJECT.json`: a change of one
definition of the kind a programming error would make (no compare-and-set, a
slot taken after the first await, a sibling order by status alone, ...) under
which TLC finds the property violated.

### Bounds, and why they are enough

* `store`: one ticket, since tickets never interact in the store; two callers,
  since a conflict takes a reader and a writer, and a third adds no new kind of
  overlap to a compare-and-set; two attempts before quarantine, so that a count
  below and one at the limit both occur; `AttemptBound` 3 caps the persisted counter.
* `dispatch`: two tickets that compete for one slot, two ticks so that they can
  overlap, two dispatches; `MaxDispatchAttempts` 2; one restart. `UndisturbedSpec`
  with `MoveBound` 1: one move by others at any point (to a status of `Interrupt`, a
  quarantine or a requeue), as long as it frees no slot.
* `interference`: one ticket and two dispatches, so that a dispatch whose slot
  was freed still runs when the ticket is dispatched again; two moves, so that
  one can free the slot and another make the ticket dispatchable again.
* `family`: two children, the least with an order; one plan, since a second one is
  an exception of `ParentFinishesLast`; stalls and failed listings any number of times;
  `FailureBound` 1 and `RestartBound` 1, each at any point; an operator who may cancel
  the first child, the one that has a sibling behind it. The theorems are for any
  number of units, plans, failures and restarts and any cancellations.
  `family_progress` has no failure, restart or cancellation: a restart leaves
  dispatches behind that only the deferred sweep finds, and when it looks at a child is
  not part of the fairness assumed. `blind_gate` has one unit and two plans.
* `routing`: one item. Items meet only in their ticket; what the retry or the result
  of another item does to the ticket is among the moves of others (`Moves`:
  approved, complete, dead_letter), of which there are two, and so is a second
  breaker. `MaxRetries` 1 (the code's default is 3; the theorems are for any): a retry,
  the exhaustion, and after a lost count a retry too many; one failure at any point, shared by
  statements, bots and the process; the item may be buried at any moment.
* `remote`: three tasks, so that one is queued behind another in each of the two
  kinds of work; a user and the operator-only binding as owners, the least with a
  reassignment; one restart of the API process. The device restarts any number of
  times.
* `outbox`: three rows and two work items, so that one result finds none left, and
  one row can fail with another before and behind it; `ReplayLimit` 2 (1000 in the
  code), so that a pass can end with a row left; one metered row; one failure and one
  restart, at any points.
* The bounds `MoveBound`, `RestartBound`, `AttemptBound`, `FailureBound` and `Plans`
  are the models' own; everything else is a parameter of the code.

`CHECK_DEADLOCK` is never disabled.

### Fairness

* `QueueManager`: each dispatch step weakly, since every await settles (the
  pipeline has a timeout, database calls answer or throw); a tick weakly, since
  the timer is periodic. Strongly: the capacity check, the listing, a launch, a
  recovery. They compete with steps that end the cycle early (no free slot, a
  failing query, an exhausted budget), and strong fairness says that these
  conditions do not win every time. Nothing is assumed of operators, of the
  pipeline's verdict or of the dead-letter policy.
* `RoutingWatchdog`: the sweep's steps as one action weakly (the poll timer), time
  weakly for each item. Nothing for bots, dispatches and breakers: the routing ends
  without them. That failures are finite is the bound, and is needed: a write that
  always fails ends every cycle.
* `RemoteTasks`: the start of the journal, the daemon's registration, the passing of
  deadlines, the daemon's own steps, and `expireStaleClaim`, which every later chat
  turn tries, that is, people go on using the device. No poll and no report is
  assumed to arrive.
* `TaskOutbox`: the steps of the pass as one action, and `SettleDrains`, both chains
  of promises that settle. Nothing starts a pass but a settlement or a start, and
  the liveness property says just that.
* `ParentAssembly`: dispatches and the cycle weakly, launching a listed ticket and
  the deferred sweep reaching the root strongly, for the same reasons (budget;
  grace period). Listings are answered in this run: one that fails for ever leaves
  a root where it is. Nothing is assumed of operators, workers or the planner.

## 4. Reading order

`TicketStates`, `TicketBoard`, `TicketStore` with `MCTicketStore.cfg`, then
`QueueManager` from `Init` to `Next` (the dispatch first, the cycle second), then
`ParentAssembly`, whose comments say what it takes from `QueueManager`, and
`RoutingWatchdog`, the work items below it. `TaskContract`, `RemoteTasks` and
`TaskOutbox` stand apart from these and can be read first. To run
one: `tlc -config MCTicketStore.cfg MCTicketStore.tla`; to check the proofs:
`tlapm TicketStoreProofs.tla`, and likewise the others.

## 5. What is proved

`TicketStoreProofs`, for any set of tickets and callers, any `QmMaxAttempts` \in
Nat \ {0} and any statuses callers may ask for:

| Theorem | Statement |
|---|---|
| `TypeCorrect` | `Spec => []TypeOK` |
| `WritesAreInTable` | `Spec => []InFlightMovesAreInTable` |
| `TableRespected` | `Spec => OnlyTableTransitions` |
| `QuarantineAtomic` | `Spec => QuarantineIsAtomic` |
| `EvidenceFrozen` | `Spec => ParkedEvidenceIsFrozen` |
| `StoreImplementsBoard` | `Spec => ImplementsBoard` |

The inductive invariant is `TypeOK` and `InFlightMovesAreInTable`: a call under
way wants a status the table offers *from the status it read*. The type alone
does not say that, and without it a commit could take any edge. With it, the
compare-and-set makes the edge one from the *current* status, which is
`TableRespected`; the other action properties follow because the only steps
that touch a marked row are the two transactions. The refinement maps the reads
to stutters and each commit to the board's operation of the same name.

`QueueManagerProofs`, for any finite set of tickets, any number of ticks and
dispatches, any limits, any bounds, hanging tickets and statuses others ask for:

| Theorem | Statement |
|---|---|
| `TypeCorrect` | `Spec => []TypeOK` |
| `CapacityHolds` | `Spec => []SlotsWithinCapacity` |

`SlotsWithinCapacity` is not inductive: the room is counted four awaited sweeps
before it is spent. `IInv` adds that there is at most one cycle (`OneCycle`, what
`pollCycleInProgress` is for) and follows the room through it (`RoomIsFree`): the
slots taken plus the room stay within the limit until the batch is chosen, the
batch stays within the room, and while the batch is launched the slots taken
plus what is left of it stay within the limit. All other steps only shrink
the set of slots (`Shrinks`), which is why the interference of everybody else
can be treated in one lemma, `OutsideSafe`.

`QueueManagerClaimProofs`, for the same constants:

| Theorem | Statement |
|---|---|
| `SlotsNeverLeak` | `Spec => []EverySlotHasADispatch` |
| `AbortFlagsNeverLeak` | `Spec => []EveryAbortFlagHasADispatch` |

Neither is inductive alone, because the listener turns a slot into a flag.
`ClaimsHaveDispatches` takes them together: a ticket with a slot or a flag has a
dispatch. Each step of a dispatch keeps the dispatch or leaves no claim of its
ticket (`KeepsOrEnds`), a launch makes the claim and the dispatch in one step,
and nobody else makes a claim (`NoNewClaims`).

`QueueManagerDispatchProofs`, for the same constants:

| Theorem | Statement |
|---|---|
| `OneDispatchAtATime` | `UndisturbedSpec => []OneDispatchPerTicket` |
| `BreakerHolds` | `UndisturbedSpec => []AttemptsWithinBreaker` |

The launch of a ticket does not look again at what the cycle looked at when it listed
the ticket, several awaits before. `DispatchInv` says why it need not: what a cycle
has listed holds no slot and is below the breaker's limit (`ListedWait`); a running
dispatch holds its ticket's slot and is its only one (`OneEach`), so that a listed
ticket has none; a dispatch that has yet to count its attempt is below the
limit (`BelowLimit`); and a ticket the breaker is escalating is at the limit and
not in `dead_letter` (`EscalatedSpent`), so that no requeue forgets its attempts
while the escalation is out. The last part is what one half of `Disturbs` is for, the
first two what the other half is for; section 3 says what happens without them. The
other moves of operators, watchdogs and the dead-letter policy, and restarts, are in.

`ParentAssemblyProofs`, for any number of units, plans, failures and restarts, any
cancellable tickets, and with stalls and failed listings or without:

| Theorem | Statement |
|---|---|
| `FamilyTypeCorrect` | `Spec => []TypeOK` |
| `SiblingsInOrder` | `Spec => []SiblingsRunOneAtATime` |
| `ParentLast` | `Spec => []ParentFinishesLast` |
| `ClosedOnDone` | `Spec => ClosedOnDoneChildren` |

No theorem has a hypothesis; the exceptions are those the properties state.

All rest on `Base` (only created children are listed, dispatched or worked on, and
those of the latest plan are below `unit`). `SiblingsInOrder` is by `Order`: a
running child still has its slot, or the abort flag left when the slot was taken away
(`HasPlace`); and all siblings before a child that a cycle has chosen, or that runs, are
complete or cancelled and hold no slot (`InOrder`). The gate sees to the second when it
chooses the child; what keeps it true until the launch and after is that complete and
cancelled are final for a child and that a dispatch cannot get its slot back. So an
earlier sibling that still runs can only be one whose slot was taken, as the property says.

`ClosedOnDone` is by `Listed`: a checker that read "all complete" has listed children
that are done, and stay done, whatever is created or cancelled meanwhile.

`ParentLast` is by `FinishInv`. A checker that read "all complete" closes the root one
await later; that is sound for *all* children as long as none is created meanwhile. So the
invariant must exclude a checker with a verdict during the planning (`Once => FinishOnce`,
`Once` being the absence of the property's exceptions): while the first plan is made and
worked off the root stays in `in_process_discovery` with its slot, or is cancelled, and
its children have not moved. Therefore the sweep can judge them only "pending", and the
root's own gate, which a failed listing would mislead, and the children's hooks do not
run yet. After the planning `Asking` says who may wait for an answer.

`RemoteTasksProofs`, for any tasks, chat tasks and owners and any number of restarts:

| Theorem | Statement |
|---|---|
| `TypeCorrect` | `Spec => []TypeOK` |
| `OwnerFenced` | `Spec => []OwnerFence` |
| `ClaimsExclusive` | `Spec => []OneClaim` |
| `NothingRunsTwice` | `Spec => []RunsAtMostOnce` |
| `FirstResultKept` | `Spec => FirstResultStands` |
| `JournalImplementsContract` | `Spec => ImplementsContract` |

A claim looks for another claim *of the same owner* only. `OneClaim` therefore needs
`OwnerFence` (all open tasks have the device's owner), which needs
`OwnersAreKnown` (no open task before the first binding; a registered device has an
owner in memory). A run is the only one because the task in the daemon's hands has
been claimed and has not run (`TakenOnce`), and nothing leads from claimed back to
queued. The refinement then goes action by action.

`TaskOutboxProofs`, for any rows and work items and any number of failures and restarts:

| Theorem | Statement |
|---|---|
| `TypeCorrect` | `Spec => []TypeOK` |
| `CostsChargedOnce` | `Spec => []ChargedOnce` |
| `ResultsOnOneItem` | `Spec => []ResultOnOneItem` |
| `SubscriberIsRedundant` | `Spec => []SubscriberFindsNothing` |
| `DeliveredIsLanded` | `Spec => []DeliveredResultsAreLanded` |

The inductive invariant follows a row through the pass: the row in hand is committed
and its target still takes results (`RowInHand`); a result is on one item
(`OneItem`); once the pass is past the landing, the event is on the mesh, or the row
is delivered, the landing is done for good (`DoneBeforeKnown`); and a charge
exists exactly for a receipt (`ChargedByReceipt`). The subscriber runs beside the
pass, and it is harmless because of the third: every event it sees is of a row
whose landing is done.

`RoutingWatchdogProofs`, for any set of work items, any limit and any interference:

| Theorem | Statement |
|---|---|
| `TypeCorrect` | `Spec => []TypeOK` |
| `ResetsLimited` | `Spec => []ResetsWithinLimit` |
| `SuppressedForGood` | `Spec => SuppressionIsFinal` |

The type includes that the persisted retry count stays within its limit. The
decision to retry is taken three awaits before the count is written; `Listed` and
`Decided` say that nobody changes what it was based on, since the item was taken off
the list and only the sweep writes counts and marks. `CountsResets` relates the
history to the count: the resets are those counted, those whose count was lost
(`uncounted`), and the one in hand (`BeingCounted`). All other writers
are treated in one lemma, `OutsideSafe`: they touch neither.

The assumptions are the `ASSUME`s of the modules: limits are natural numbers,
subsets are subsets, the tickets are finite. TLC evaluates them in the runs.

What stays with TLC: liveness under fairness (`progress`, `family_progress`,
`RoutingEnds`, `KnownClaimsAreFreed`, `NextSettlementCatchesUp`) and anything with ENABLED, which the prover does not do;
statements about what a recursive definition computes, which would take
induction (no module here declares a RECURSIVE operator, so that every module
remains provable). Every invariant and every action property that a passing run
checks is stated by one of the theorems above.

## 6. Plan

Done: 1 `TicketStates`, `TicketBoard`, `TicketStore`; 2 `QueueManager`;
3 `ParentAssembly`; 4 the store's theorems, and the queue manager's on capacity and
leaks; 5 `RemoteTasks` with `TaskContract`, and `TaskOutbox`; 6 `RoutingWatchdog`;
7 the theorems of these three, the refinement among them; 8 the theorems on single
dispatch and the breaker, and those of the family; 9 failed listings in the family, the
sweep's window and its lost writes, and the outbox's bound per pass.

Left, in this order:

1. The composition of `TaskOutbox` with `RoutingWatchdog`: results that come for an
   item the watchdog has given up; and the signed build hop, whose refresh of an item
   may land after its result.
2. A clock for the slot watchdog and the pipeline's timeout, which have the same
   length and start at different moments.
3. The manifest-worker, incident and graph dispatch paths as further kinds of
   dispatch in `QueueManager`, since they share its slots and its breaker.
4. Scheduling, tool approval and budgets, each a small module with one abstract
   promise (a due schedule fires once; an approval is answered once; a budget is
   not overspent by concurrent runs).
5. The resilient ticket store (fallback and replay), against a weaker `TicketBoard`.
