----------------------------- MODULE RemoteTasks -----------------------------
(***************************************************************************)
(* Work for one remote device: the durable task journal in PostgreSQL, the *)
(* registry of the API process in front of it, the daemon on the device    *)
(* that polls, runs and reports, and the chat turns of the API process     *)
(* that wait for an answer and give up.                                    *)
(*                                                                         *)
(* The journal survives everything.  The registry, the requests in flight  *)
(* and the waiting turns die with the API process; the daemon forgets its  *)
(* task when it crashes; any answer may be lost on its way.                *)
(***************************************************************************)
EXTENDS Naturals

CONSTANTS
    Tasks,          \* task ids
    ChatTasks,      \* those a chat turn enqueues (input.origin = 'node-chat')
    Owners,         \* OIDC subjects, and Nobody
    Nobody,         \* the durable null: only operators may use the device
    None,           \* no task, no binding, no result
    RestartBound    \* how often the API process restarts

ASSUME TaskAssumptions ==
    /\ ChatTasks \subseteq Tasks
    /\ Nobody \in Owners
    /\ None \notin Tasks
    /\ None \notin Owners
    /\ None \notin {"completed", "failed"}
    /\ RestartBound \in Nat

VARIABLES
    \* remote_task_journal_tasks and remote_task_journal_client_owners
    status,         \* the task's status, absent before its row exists
    owner,          \* owner_sub of the task
    ahead,          \* the tasks queued before it (created_at)
    result,         \* terminal_result
    durableOwner,   \* the device's owner binding, None before the first
    \* the registry of the API process
    ready,          \* taskJournalReady
    registered,     \* clients has a record of the device
    memOwner,       \* record.ownerSub
    activeTaskId,   \* record.activeTaskId
    binding,        \* the owner a registration in flight got from the journal
    moving,         \* the owner an operator's setOwner in flight has written
    turn,           \* the chat turn of each chat task
    restarts,
    \* the daemon
    pc,
    currentTaskId,
    runs,           \* how often the device ran each task
    \* the clock
    stale           \* the claims of chat tasks older than a turn's deadline

journal == <<status, owner, ahead, result, durableOwner>>
registry == <<ready, registered, memOwner, activeTaskId, binding, moving>>
node == <<pc, currentTaskId, runs>>
vars == <<journal, registry, turn, restarts, node, stale>>

Terminal == {"completed", "failed"}
Status == {"absent", "queued", "claimed"} \cup Terminal

TypeOK ==
    /\ status \in [Tasks -> Status]
    /\ owner \in [Tasks -> Owners \cup {None}]
    /\ ahead \in [Tasks -> SUBSET Tasks]
    /\ result \in [Tasks -> Terminal \cup {None}]
    /\ durableOwner \in Owners \cup {None}
    /\ ready \in BOOLEAN
    /\ registered \in BOOLEAN
    /\ memOwner \in Owners \cup {None}
    /\ activeTaskId \in Tasks \cup {None}
    /\ binding \in Owners \cup {None}
    /\ moving \in Owners \cup {None}
    /\ turn \in [ChatTasks -> {"none", "waiting", "over"}]
    /\ restarts \in Nat
    /\ pc \in {"starting", "idle", "claimed", "running", "finished"}
    /\ currentTaskId \in Tasks \cup {None}
    /\ runs \in [Tasks -> Nat]
    /\ stale \in SUBSET ChatTasks

Init ==
    /\ status = [t \in Tasks |-> "absent"]
    /\ owner = [t \in Tasks |-> None]
    /\ ahead = [t \in Tasks |-> {}]
    /\ result = [t \in Tasks |-> None]
    /\ durableOwner = None
    /\ ready = FALSE
    /\ registered = FALSE
    /\ memOwner = None
    /\ activeTaskId = None
    /\ binding = None
    /\ moving = None
    /\ turn = [t \in ChatTasks |-> "none"]
    /\ restarts = 0
    /\ pc = "starting"
    /\ currentTaskId = None
    /\ runs = [t \in Tasks |-> 0]
    /\ stale = {}

Queued == {t \in Tasks : status[t] = "queued"}
Claimed == {t \in Tasks : status[t] = "claimed"}
Active(t) == status[t] \in {"queued", "claimed"}

\* The task operations need the journal to be ready and the device known.
Serving == ready /\ registered

(***************************************************************************)
(* Ownership: registration and reassignment, each a journal transaction    *)
(* and, one await later, a write to the registry.                          *)
(***************************************************************************)

\* A registration creates the binding or reads the one that exists.  One
\* that asserts another owner is refused and changes nothing.
RegisterBinds(asserted) ==
    /\ ready
    /\ pc = "starting" \/ ~registered
    /\ binding = None
    /\ durableOwner' = IF durableOwner = None THEN asserted ELSE durableOwner
    /\ binding' = durableOwner'
    /\ UNCHANGED <<status, owner, ahead, result, ready, registered, memOwner,
                   activeTaskId, moving, turn, restarts, node, stale>>

\* A null binding does not clear the owner the record already has.
RegisterWrites ==
    /\ binding # None
    /\ registered' = TRUE
    /\ memOwner' = IF binding = Nobody /\ registered THEN memOwner ELSE binding
    /\ binding' = None
    /\ pc' = IF pc = "starting" THEN "idle" ELSE pc
    /\ UNCHANGED <<journal, ready, activeTaskId, moving, turn, restarts,
                   currentTaskId, runs, stale>>

\* Mutant of SetOwnerMoves: reassignment forgets the device's open tasks.
SetOwnerAtOnce(next) ==
    /\ Serving
    /\ moving = None
    /\ durableOwner = memOwner
    /\ durableOwner' = next
    /\ moving' = next
    /\ UNCHANGED <<status, owner, ahead, result, ready, registered, memOwner,
                   activeTaskId, binding, turn, restarts, node, stale>>

\* Refused while the device has open tasks, or when the journal's owner is
\* not the registry's.
SetOwnerMoves(next) ==
    /\ Serving
    /\ moving = None
    /\ durableOwner = memOwner
    /\ next # durableOwner => \A t \in Tasks : ~Active(t)
    /\ durableOwner' = next
    /\ moving' = next
    /\ UNCHANGED <<status, owner, ahead, result, ready, registered, memOwner,
                   activeTaskId, binding, turn, restarts, node, stale>>

SetOwnerWrites ==
    /\ moving # None
    /\ memOwner' = moving
    /\ moving' = None
    /\ UNCHANGED <<journal, ready, registered, activeTaskId, binding, turn,
                   restarts, node, stale>>

(***************************************************************************)
(* The journal's task transactions.                                        *)
(***************************************************************************)

\* A retry of an accepted task finds its row and changes nothing; a caller
\* whose owner is not the durable one is refused.
enqueue(t) ==
    /\ Serving
    /\ memOwner = durableOwner
    /\ status[t] = "absent"
    /\ status' = [status EXCEPT ![t] = "queued"]
    /\ owner' = [owner EXCEPT ![t] = memOwner]
    /\ ahead' = [ahead EXCEPT ![t] = Queued]
    /\ UNCHANGED <<result, durableOwner, registry, restarts, node, stale>>

\* Mutant of claimNext: a claim does not look for a running one.
claimBeside(t) ==
    /\ Serving
    /\ status[t] = "queued"
    /\ owner[t] = memOwner
    /\ \A x \in ahead[t] : status[x] = "queued" => owner[x] # memOwner
    /\ status' = [status EXCEPT ![t] = "claimed"]
    /\ activeTaskId' = t
    /\ UNCHANGED <<owner, ahead, result, durableOwner, ready, registered,
                   memOwner, binding, moving, turn, restarts, runs, stale>>

\* Mutant of claimNext: a claim hands a running task out again, as a lease
\* would.
claimAgain(t) ==
    /\ Serving
    /\ \A x \in Claimed \ {t} : owner[x] # memOwner
    /\ Active(t)
    /\ owner[t] = memOwner
    /\ status' = [status EXCEPT ![t] = "claimed"]
    /\ activeTaskId' = t
    /\ UNCHANGED <<owner, ahead, result, durableOwner, ready, registered,
                   memOwner, binding, moving, turn, restarts, runs, stale>>

\* One claim at a time for an owner, the oldest task first, no lease.
claimNext(t) ==
    /\ Serving
    /\ \A x \in Claimed : owner[x] # memOwner
    /\ status[t] = "queued"
    /\ owner[t] = memOwner
    /\ \A x \in ahead[t] : status[x] = "queued" => owner[x] # memOwner
    /\ status' = [status EXCEPT ![t] = "claimed"]
    /\ activeTaskId' = t
    /\ UNCHANGED <<owner, ahead, result, durableOwner, ready, registered,
                   memOwner, binding, moving, turn, restarts, runs, stale>>

\* Mutant of settle: a settlement replaces an earlier result.
settleOver(t, r) ==
    /\ Serving
    /\ status[t] \in {"claimed"} \cup Terminal
    /\ status' = [status EXCEPT ![t] = r]
    /\ result' = [result EXCEPT ![t] = r]
    /\ activeTaskId' = IF activeTaskId = t THEN None ELSE activeTaskId
    /\ stale' = stale \ {t}
    /\ UNCHANGED <<owner, ahead, durableOwner, ready, registered, memOwner,
                   binding, moving, restarts>>

\* Mutant of settle: a task nobody claimed is settled.
settleQueued(t, r) ==
    /\ Serving
    /\ Active(t)
    /\ status' = [status EXCEPT ![t] = r]
    /\ result' = [result EXCEPT ![t] = r]
    /\ activeTaskId' = IF activeTaskId = t THEN None ELSE activeTaskId
    /\ stale' = stale \ {t}
    /\ UNCHANGED <<owner, ahead, durableOwner, ready, registered, memOwner,
                   binding, moving, restarts>>

\* Mutant of settle: an expired claim gets a status of its own.
settleExpired(t, r) ==
    /\ Serving
    /\ status[t] = "claimed"
    /\ status' = [status EXCEPT ![t] = IF t \in stale THEN "expired" ELSE r]
    /\ result' = [result EXCEPT ![t] = r]
    /\ activeTaskId' = IF activeTaskId = t THEN None ELSE activeTaskId
    /\ stale' = stale \ {t}
    /\ UNCHANGED <<owner, ahead, durableOwner, ready, registered, memOwner,
                   binding, moving, restarts>>

\* The first terminal result wins.
settle(t, r) ==
    /\ Serving
    /\ status[t] = "claimed"
    /\ status' = [status EXCEPT ![t] = r]
    /\ result' = [result EXCEPT ![t] = r]
    /\ activeTaskId' = IF activeTaskId = t THEN None ELSE activeTaskId
    /\ stale' = stale \ {t}
    /\ UNCHANGED <<owner, ahead, durableOwner, ready, registered, memOwner,
                   binding, moving, restarts>>

\* Every other settlement is refused: not found, not claimed, conflict.
settleRefused(t) ==
    /\ ~(Serving /\ status[t] = "claimed")
    /\ UNCHANGED <<journal, registry, restarts, stale>>

(***************************************************************************)
(* Callers on the controller's side.                                       *)
(***************************************************************************)

EnqueueWork(t) ==
    /\ t \notin ChatTasks
    /\ enqueue(t)
    /\ UNCHANGED turn

\* A chat turn hands its model call to the device and waits for the result.
TurnEnqueues(t) ==
    /\ turn[t] = "none"
    /\ enqueue(t)
    /\ turn' = [turn EXCEPT ![t] = "waiting"]

TurnAnswered(t) ==
    /\ turn[t] = "waiting"
    /\ Serving
    /\ status[t] \in Terminal
    /\ turn' = [turn EXCEPT ![t] = "over"]
    /\ UNCHANGED <<journal, registry, restarts, node, stale>>

\* At its deadline the turn withdraws its task, which works on a claimed
\* one; the withdrawal is best effort.
TurnGivesUp(t) ==
    /\ turn[t] = "waiting"
    /\ \/ settle(t, "failed")
       \/ UNCHANGED <<journal, registry, restarts, stale>>
    /\ turn' = [turn EXCEPT ![t] = "over"]
    /\ UNCHANGED node

\* Mutant of expireStaleClaim: a turn expires its own claim only.
expireOwnClaim ==
    \E t \in ChatTasks \cap stale :
        /\ activeTaskId = t
        /\ turn[t] = "waiting"
        /\ settle(t, "failed")
        /\ UNCHANGED <<turn, node>>

\* Every later turn first frees the device from a chat task it has held
\* longer than the deadline, looking it up by the registry's activeTaskId.
expireStaleClaim ==
    \E t \in ChatTasks \cap stale :
        /\ activeTaskId = t
        /\ settle(t, "failed")
        /\ UNCHANGED <<turn, node>>

(***************************************************************************)
(* The daemon.                                                             *)
(***************************************************************************)

\* A poll that claims, and whose answer arrives.
PollClaims(t) ==
    /\ pc = "idle"
    /\ currentTaskId = None
    /\ claimNext(t)
    /\ pc' = "claimed"
    /\ currentTaskId' = t

\* A poll that claims, and whose answer is lost.
PollAnswerLost(t) ==
    /\ pc = "idle"
    /\ currentTaskId = None
    /\ claimNext(t)
    /\ UNCHANGED <<pc, currentTaskId>>

\* The heartbeat that announces the task comes before the try block: when
\* it fails the poll ends and the task stays current.
Announce(arrives) ==
    /\ pc = "claimed"
    /\ arrives => registered
    /\ pc' = IF arrives THEN "running" ELSE "idle"
    /\ UNCHANGED <<journal, registry, turn, restarts, currentTaskId, runs, stale>>

Run ==
    /\ pc = "running"
    /\ pc' = "finished"
    /\ runs' = [runs EXCEPT ![currentTaskId] = @ + 1]
    /\ UNCHANGED <<journal, registry, turn, restarts, currentTaskId, stale>>

\* Whether the report arrives, is refused or is lost, the daemon goes on.
Report(r) ==
    /\ pc = "finished"
    /\ \/ settle(currentTaskId, r)
       \/ settleRefused(currentTaskId)
    /\ pc' = "idle"
    /\ currentTaskId' = None
    /\ UNCHANGED <<turn, runs>>

ReportLost ==
    /\ pc = "finished"
    /\ pc' = "idle"
    /\ currentTaskId' = None
    /\ UNCHANGED <<journal, registry, turn, restarts, runs, stale>>

NodeRestarts ==
    /\ pc # "starting"
    /\ pc' = "starting"
    /\ currentTaskId' = None
    /\ UNCHANGED <<journal, registry, turn, restarts, runs, stale>>

(***************************************************************************)
(* The API process and the clock.                                          *)
(***************************************************************************)

\* Startup recovery is over: the task routes answer.
JournalStarts ==
    /\ ~ready
    /\ ready' = TRUE
    /\ UNCHANGED <<journal, registered, memOwner, activeTaskId, binding, moving,
                   turn, restarts, node, stale>>

ApiRestarts ==
    /\ restarts < RestartBound
    /\ restarts' = restarts + 1
    /\ ready' = FALSE
    /\ registered' = FALSE
    /\ memOwner' = None
    /\ activeTaskId' = None
    /\ binding' = None
    /\ moving' = None
    /\ turn' = [t \in ChatTasks |-> IF turn[t] = "waiting" THEN "over" ELSE turn[t]]
    /\ UNCHANGED <<journal, node, stale>>

\* A claim of a chat task grows older than a turn waits.
DeadlinePasses(t) ==
    /\ status[t] = "claimed"
    /\ stale' = stale \cup {t}
    /\ UNCHANGED <<journal, registry, turn, restarts, node>>

Next ==
    \/ \E o \in Owners : RegisterBinds(o) \/ SetOwnerMoves(o)
    \/ RegisterWrites \/ SetOwnerWrites
    \/ \E t \in Tasks : EnqueueWork(t)
    \/ \E t \in ChatTasks : TurnEnqueues(t) \/ TurnAnswered(t) \/ TurnGivesUp(t)
    \/ expireStaleClaim
    \/ \E t \in Tasks : PollClaims(t) \/ PollAnswerLost(t)
    \/ \E arrives \in BOOLEAN : Announce(arrives)
    \/ Run
    \/ \E r \in Terminal : Report(r)
    \/ ReportLost \/ NodeRestarts
    \/ JournalStarts \/ ApiRestarts
    \/ \E t \in ChatTasks : DeadlinePasses(t)

Spec == Init /\ [][Next]_vars

(***************************************************************************)
(* Fairness: the API process starts, the device's process is up and its    *)
(* registration is retried by its timers, time passes, and people go on    *)
(* talking to the device's chat, each turn trying the expiry once more.    *)
(* Neither a poll nor a report is assumed to arrive.                       *)
(***************************************************************************)
FairSpec ==
    /\ Spec
    /\ WF_vars(JournalStarts)
    /\ WF_vars(\E o \in Owners : RegisterBinds(o))
    /\ WF_vars(RegisterWrites)
    /\ WF_vars(expireStaleClaim)
    /\ \A t \in ChatTasks : WF_vars(DeadlinePasses(t))
    /\ WF_vars(\E arrives \in BOOLEAN : Announce(arrives))
    /\ WF_vars(Run)
    /\ WF_vars((\E r \in Terminal : Report(r)) \/ ReportLost)

(***************************************************************************)
(* Properties.                                                             *)
(***************************************************************************)

\* The owner of a device cannot change under its open tasks: every queued or
\* claimed task acts for the owner the journal binds the device to, whatever
\* registrations and reassignments were in flight (transitionClientOwnerTx,
\* assertClientOwner).
OwnerFence == \A t \in Tasks : Active(t) => owner[t] = durableOwner

\* The device never holds two claims, although a claim is checked per owner
\* and a lost answer leaves a claim nobody works on (claimNextTx).
OneClaim == \A t, u \in Claimed : t = u

\* Whatever is lost, retried or restarted, no task runs twice on the device:
\* a claim is never handed out again (claimNextTx, executeTask).
RunsAtMostOnce == \A t \in Tasks : runs[t] <= 1

\* The first terminal result stands: a late report of the device, the
\* withdrawal of a turn and the expiry of a claim never replace it (settleTx).
FirstResultStands ==
    [][\A t \in Tasks : status[t] \in Terminal =>
            /\ status'[t] = status[t]
            /\ result'[t] = result[t]]_vars

\* The journal with all its clients implements what it promises: work handed
\* out once, for the owner of the device, with one result.
PhaseOf(s) ==
    IF s = "absent" THEN "absent"
    ELSE IF s = "queued" THEN "waiting"
    ELSE IF s = "claimed" THEN "handed" ELSE "closed"

Contract == INSTANCE TaskContract WITH
                phase <- [t \in Tasks |-> PhaseOf(status[t])],
                for <- owner,
                holder <- durableOwner,
                runs <- runs,
                verdict <- result
ImplementsContract == Contract!Spec

\* A chat task the device claimed and never settled is failed by a later turn
\* as long as the API process that handed it out lives (expireStaleClaim).
KnownClaimsAreFreed ==
    \A t \in ChatTasks :
        (status[t] = "claimed" /\ activeTaskId = t) ~> activeTaskId # t

\* The device's daemon is free again after every task it took
\* (remote-client-service.ts:274-278).
DaemonComesFree == currentTaskId # None ~> currentTaskId = None
=============================================================================
