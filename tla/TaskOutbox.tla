----------------------------- MODULE TaskOutbox -----------------------------
(***************************************************************************)
(* What happens after a remote task is settled.  The settlement and a row  *)
(* of the outbox are committed together; the row's effects - the cost, the *)
(* result on the work item the task came from, the event on the mesh - are *)
(* published at least once, oldest row first, by one pass at a time, and   *)
(* made to happen once by a receipt each.                                  *)
(*                                                                         *)
(* All the settlements answer one ticket (one correlation id), so every    *)
(* result may land on every one of its work items.  A pass is started by   *)
(* a settlement or by the start of the API process, by nothing else.       *)
(***************************************************************************)
EXTENDS Naturals, FiniteSets

CONSTANTS
    Rows,           \* settled tasks, each with its outbox row
    Metered,        \* those with a cost to record
    ItemCount,      \* work items of the ticket, oldest first
    None,
    ReplayLimit,    \* rows one pass delivers at most (1000)
    FailureBound,   \* how often an effect or its acknowledgement fails
    RestartBound    \* how often the API process restarts

ASSUME OutboxAssumptions ==
    /\ Metered \subseteq Rows
    /\ ItemCount \in Nat
    /\ None \notin Rows
    /\ None \notin 1 .. ItemCount
    /\ ReplayLimit \in Nat \ {0}
    /\ FailureBound \in Nat
    /\ RestartBound \in Nat

Items == 1 .. ItemCount

VARIABLES
    settling,   \* the settlement request of each row
    earlier,    \* the rows created before it (created_at: transaction start)
    outbox,     \* the outbox row: none, pending or delivered
    receipts,   \* remote_task_cost_receipts
    charges,    \* how often each row's cost was recorded
    item,       \* status of each work item: active (landable) or completed
    output,     \* execution_output.outboxId of each work item
    mesh,       \* result events the controller's subscriber has not acked
    pass,       \* the outbox pass: its step, its row, the item it lands on,
                \* and how many rows it has delivered
    journal,    \* the API process: starting, ready, or failed to start
    failures,
    restarts

settlement == <<settling, earlier>>
effects == <<receipts, charges>>
work == <<item, output>>
bounds == <<failures, restarts>>
vars == <<settlement, outbox, effects, work, mesh, pass, journal, bounds>>

Off == [pc |-> "off", row |-> None, target |-> None, delivered |-> 0]

\* Types, and a row of the outbox for every settlement that was committed.
TypeOK ==
    /\ settling \in [Rows -> {"none", "open", "committed", "draining",
                              "answered", "lost"}]
    /\ earlier \in [Rows -> SUBSET Rows]
    /\ outbox \in [Rows -> {"none", "pending", "delivered"}]
    /\ receipts \subseteq Rows
    /\ charges \in [Rows -> Nat]
    /\ item \in [Items -> {"active", "completed"}]
    /\ output \in [Items -> Rows \cup {None}]
    /\ mesh \subseteq Rows
    /\ pass \in [pc : {"off", "select", "cost", "find", "output", "status",
                       "send", "mark", "closing"},
                 row : Rows \cup {None},
                 target : Items \cup {None},
                 delivered : Nat]
    /\ journal \in {"starting", "ready", "failed"}
    /\ failures \in 0 .. FailureBound
    /\ restarts \in 0 .. RestartBound
    /\ \A r \in Rows : outbox[r] = "none" <=> settling[r] \in {"none", "open"}

\* The pass that replays what the last process left pending is the first.
Init ==
    /\ settling = [r \in Rows |-> "none"]
    /\ earlier = [r \in Rows |-> {}]
    /\ outbox = [r \in Rows |-> "none"]
    /\ receipts = {}
    /\ charges = [r \in Rows |-> 0]
    /\ item = [i \in Items |-> "active"]
    /\ output = [i \in Items |-> None]
    /\ mesh = {}
    /\ pass = [Off EXCEPT !.pc = "select"]
    /\ journal = "starting"
    /\ failures = 0
    /\ restarts = 0

At(pc) == pass.pc = pc
GoTo(pc) == pass' = [pass EXCEPT !.pc = pc]

(***************************************************************************)
(* Settlement requests.                                                    *)
(***************************************************************************)

SettleBegins(r) ==
    /\ journal = "ready"
    /\ settling[r] = "none"
    /\ settling' = [settling EXCEPT ![r] = "open"]
    /\ earlier' = [earlier EXCEPT ![r] =
                    {x \in Rows : settling[x] = "open" \/ outbox[x] = "pending"}]
    /\ UNCHANGED <<outbox, effects, work, mesh, pass, journal, bounds>>

\* Mutant of SettleCommits: the outbox row is not in the transaction.
SettleCommitsAlone(r) ==
    /\ settling[r] = "open"
    /\ settling' = [settling EXCEPT ![r] = "committed"]
    /\ UNCHANGED <<earlier, outbox, effects, work, mesh, pass, journal, bounds>>

SettleCommits(r) ==
    /\ settling[r] = "open"
    /\ settling' = [settling EXCEPT ![r] = "committed"]
    /\ outbox' = [outbox EXCEPT ![r] = "pending"]
    /\ UNCHANGED <<earlier, effects, work, mesh, pass, journal, bounds>>

\* The request starts a pass, or joins the one in flight.
SettleDrains(r) ==
    /\ settling[r] = "committed"
    /\ settling' = [settling EXCEPT ![r] = "draining"]
    /\ IF At("off") THEN GoTo("select") ELSE UNCHANGED pass
    /\ UNCHANGED <<earlier, outbox, effects, work, mesh, journal, bounds>>

\* A settlement of a settled task is refused - its result is another one, if
\* only by the time it was received - and so is any while the journal has not
\* started, which after a failed start is for good.
SettleRefused(r) ==
    /\ outbox[r] # "none" \/ journal # "ready"
    /\ UNCHANGED vars

\* The pass is over, for the request that started it and those that joined.
Answered ==
    [r \in Rows |-> IF settling[r] = "draining" THEN "answered" ELSE settling[r]]

(***************************************************************************)
(* The outbox pass.                                                        *)
(***************************************************************************)

Pending == {r \in Rows : outbox[r] = "pending"}
Oldest(r) == r \in Pending /\ earlier[r] \cap Pending = {}

PassSelects(r) ==
    /\ At("select")
    /\ pass.delivered < ReplayLimit
    /\ Oldest(r)
    /\ pass' = [pass EXCEPT !.row = r,
                            !.pc = IF r \in Metered THEN "cost" ELSE "find"]
    /\ UNCHANGED <<settlement, outbox, effects, work, mesh, journal, bounds>>

\* A pass that has delivered its limit does not select again.
PassFindsNothing ==
    /\ At("select")
    /\ Pending = {} \/ pass.delivered = ReplayLimit
    /\ GoTo("closing")
    /\ UNCHANGED <<settlement, outbox, effects, work, mesh, journal, bounds>>

\* One round trip after its last, empty, selection the pass is over; only
\* now the next request starts another.
PassEnds ==
    /\ At("closing")
    /\ pass' = Off
    /\ settling' = Answered
    /\ journal' = "ready"
    /\ UNCHANGED <<earlier, outbox, effects, work, mesh, bounds>>

\* Mutant of recordCostOnce: the receipt is not looked up.
recordCostAgain(r) ==
    /\ receipts' = receipts \cup {r}
    /\ charges' = [charges EXCEPT ![r] = @ + 1]

\* The receipt and the cost are one transaction.
recordCostOnce(r) ==
    /\ receipts' = receipts \cup {r}
    /\ charges' = IF r \in receipts THEN charges ELSE [charges EXCEPT ![r] = @ + 1]

PassCharges ==
    /\ At("cost")
    /\ recordCostOnce(pass.row)
    /\ GoTo("find")
    /\ UNCHANGED <<settlement, outbox, work, mesh, journal, bounds>>

PassSends ==
    /\ At("send")
    /\ mesh' = mesh \cup {pass.row}
    /\ GoTo("mark")
    /\ UNCHANGED <<settlement, outbox, effects, work, journal, bounds>>

\* Mutant of PassMarks: one row for each pass.
PassMarksAndEnds ==
    /\ At("mark")
    /\ outbox' = [outbox EXCEPT ![pass.row] = "delivered"]
    /\ pass' = [pass EXCEPT !.pc = "closing", !.delivered = @ + 1]
    /\ UNCHANGED <<settlement, effects, work, mesh, journal, bounds>>

PassMarks ==
    /\ At("mark")
    /\ outbox' = [outbox EXCEPT ![pass.row] = "delivered"]
    /\ pass' = [pass EXCEPT !.pc = "select", !.delivered = @ + 1]
    /\ UNCHANGED <<settlement, effects, work, mesh, journal, bounds>>

\* Any step may fail, up to the last commit and the purge of tombstones that
\* ends the start of the process: the row stays pending, the pass is over, and
\* a process that was starting never serves the task routes.
PassFails ==
    /\ failures < FailureBound
    /\ ~At("off")
    /\ failures' = failures + 1
    /\ pass' = Off
    /\ settling' = Answered
    /\ journal' = IF journal = "starting" THEN "failed" ELSE journal
    /\ UNCHANGED <<earlier, outbox, effects, work, mesh, restarts>>

(***************************************************************************)
(* Landing a result on a work item.                                        *)
(***************************************************************************)

Landable == {i \in Items : item[i] = "active"}
Prior(r) == {i \in Items : output[i] = r}

First(S) == CHOOSE i \in S : \A j \in S : i <= j

\* Mutant of Target: the receipt of an earlier landing is not looked for.
TargetWithoutReceipt(r) == IF Landable = {} THEN None ELSE First(Landable)

\* Mutant of Target: a receipt alone proves the landing complete.
TargetUnlessSeen(r) ==
    IF Prior(r) # {} \/ Landable = {} THEN None ELSE First(Landable)

\* The item that has the row's receipt, unless it is terminal, or the first
\* that can still take a result; None when there is nothing to write.
Target(r) ==
    IF Prior(r) # {}
      THEN IF First(Prior(r)) \in Landable THEN First(Prior(r)) ELSE None
      ELSE IF Landable = {} THEN None ELSE First(Landable)

FindItem ==
    /\ At("find")
    /\ IF Target(pass.row) = None
         THEN GoTo("send")
         ELSE pass' = [pass EXCEPT !.pc = "output", !.target = Target(pass.row)]
    /\ UNCHANGED <<settlement, outbox, effects, work, mesh, journal, bounds>>

\* Mutant of StoreOutput: the status is left to somebody else.
StoreOutputOnly ==
    /\ At("output")
    /\ output' = [output EXCEPT ![pass.target] = pass.row]
    /\ GoTo("send")
    /\ UNCHANGED <<settlement, outbox, effects, item, mesh, journal, bounds>>

StoreOutput ==
    /\ At("output")
    /\ output' = [output EXCEPT ![pass.target] = pass.row]
    /\ GoTo("status")
    /\ UNCHANGED <<settlement, outbox, effects, item, mesh, journal, bounds>>

StoreStatus ==
    /\ At("status")
    /\ item' = [item EXCEPT ![pass.target] = "completed"]
    /\ GoTo("send")
    /\ UNCHANGED <<settlement, outbox, effects, output, mesh, journal, bounds>>

\* The subscriber takes events in any order, and again when it crashed
\* before the ack.  It lands the result by the same rule; one step, since
\* there is nothing left to write (SubscriberFindsNothing).
MeshDelivers(r) ==
    /\ r \in mesh
    /\ output' = [i \in Items |-> IF i = Target(r) THEN r ELSE output[i]]
    /\ item' = [i \in Items |-> IF i = Target(r) THEN "completed" ELSE item[i]]
    /\ \E acked \in BOOLEAN : mesh' = IF acked THEN mesh \ {r} ELSE mesh
    /\ UNCHANGED <<settlement, outbox, effects, pass, journal, bounds>>

\* Open transactions roll back; the new process begins with a pass.
ApiRestarts ==
    /\ restarts < RestartBound
    /\ restarts' = restarts + 1
    /\ settling' = [r \in Rows |->
            IF settling[r] = "open" THEN "none"
            ELSE IF settling[r] \in {"committed", "draining"} THEN "lost"
            ELSE settling[r]]
    /\ earlier' = [r \in Rows |-> IF settling[r] = "open" THEN {} ELSE earlier[r]]
    /\ pass' = [Off EXCEPT !.pc = "select"]
    /\ journal' = "starting"
    /\ UNCHANGED <<outbox, effects, work, mesh, failures>>

Pass ==
    \/ \E r \in Rows : PassSelects(r)
    \/ PassFindsNothing \/ PassEnds \/ PassCharges \/ PassSends \/ PassMarks
    \/ FindItem \/ StoreOutput \/ StoreStatus

Next ==
    \/ \E r \in Rows :
        SettleBegins(r) \/ SettleCommits(r) \/ SettleDrains(r) \/ SettleRefused(r)
    \/ Pass
    \/ PassFails
    \/ \E r \in Rows : MeshDelivers(r)
    \/ ApiRestarts

Spec == Init /\ [][Next]_vars

\* Promises settle: a pass goes on, and a committed settlement drains.
FairSpec ==
    /\ Spec
    /\ WF_vars(Pass)
    /\ \A r \in Rows : WF_vars(SettleDrains(r))

(***************************************************************************)
(* Properties.                                                             *)
(***************************************************************************)

\* However often a row is replayed, its cost is recorded once, and a row
\* that counts as delivered has been charged (recordCostOnce).
ChargedOnce ==
    \A r \in Rows :
        /\ charges[r] <= 1
        /\ outbox[r] = "delivered" /\ r \in Metered => charges[r] = 1

\* A result replayed after a crash or a failure between any two of its
\* writes is never on two work items (persistRemoteTaskLanding).
ResultOnOneItem == \A r \in Rows : Cardinality(Prior(r)) <= 1

\* The compatibility subscriber, which swallows its failures and acks what it
\* failed to land, has nothing left to land: an event is sent only when its
\* result is on its item, or when no item could take it any more
\* (publishSettlement).
SubscriberFindsNothing == \A r \in mesh : Target(r) = None

\* A delivered row's result is on a work item that is completed; it is on
\* none only if every item of the ticket was completed without it
\* (deliverNextOutboxTx marks a row after its effects).  Items that other parts
\* create, give up or reactivate meanwhile are not in this model.
DeliveredResultsAreLanded ==
    \A r \in Rows : outbox[r] = "delivered" =>
        \/ Prior(r) # {} /\ Prior(r) \cap Landable = {}
        \/ Prior(r) = {} /\ Landable = {}

\* Faults only delay: after the last of them the next settlement delivers
\* every row that is pending by then, whichever request or failed pass left
\* it behind - unless it joins a pass that has already made its last
\* selection, or the pass reaches its limit first (replayPendingOutbox).
NextSettlementCatchesUp ==
    \A r \in Rows :
        ( /\ failures = FailureBound
          /\ restarts = RestartBound
          /\ outbox[r] = "pending"
          /\ \E q \in Rows : settling[q] = "committed"
          /\ ~At("closing") ) ~>
        outbox[r] = "delivered" \/ pass.delivered = ReplayLimit
=============================================================================
