-------------------------- MODULE RemoteTasksProofs --------------------------
(***************************************************************************)
(* The remote task journal keeps its promises for any tasks, owners and    *)
(* number of restarts.                                                     *)
(*                                                                         *)
(* The fence around the owner is what carries the rest.  While a task is   *)
(* open its owner is the durable one (OwnerFence), so a claim that was     *)
(* compared with the owner the registry remembers was compared with every  *)
(* claim there is (OneClaim), and a task that left the queue never comes   *)
(* back to it, so that it can be run once (TakenOnce).                     *)
(***************************************************************************)
EXTENDS RemoteTasks, TLAPS

\* What an owner known to somebody is.
OwnersAreKnown ==
    /\ durableOwner = None => \A t \in Tasks : ~Active(t)
    /\ registered => memOwner # None

\* A task runs after it was claimed, and then only in the daemon's hands.
TakenOnce ==
    /\ \A t \in Tasks : status[t] \in {"absent", "queued"} => runs[t] = 0
    /\ pc \in {"claimed", "running", "finished"} => currentTaskId \in Tasks
    /\ pc \in {"claimed", "running"} =>
            /\ runs[currentTaskId] = 0
            /\ status[currentTaskId] \notin {"absent", "queued"}

\* The inductive invariant.
IInv ==
    /\ TypeOK
    /\ OwnerFence
    /\ OwnersAreKnown
    /\ OneClaim
    /\ TakenOnce
    /\ RunsAtMostOnce

LEMMA InvInit ==
    ASSUME Init
    PROVE  IInv
<1>1. TypeOK
  BY TaskAssumptions DEF Init, TypeOK, Status
<1>2. \A t \in Tasks : ~Active(t) /\ t \notin Claimed
  BY DEF Init, Active, Claimed
<1>3. OwnerFence /\ OwnersAreKnown /\ OneClaim
  BY <1>2 DEF Init, OwnerFence, OwnersAreKnown, OneClaim, Claimed
<1>4. TakenOnce /\ RunsAtMostOnce
  BY DEF Init, TakenOnce, RunsAtMostOnce
<1> QED BY <1>1, <1>3, <1>4 DEF IInv

LEMMA TypeStep ==
    ASSUME TypeOK, TakenOnce, [Next]_vars
    PROVE  TypeOK'
<1> USE TaskAssumptions
<1>1. ASSUME NEW o \in Owners, RegisterBinds(o) \/ SetOwnerMoves(o) PROVE TypeOK'
  BY <1>1 DEF TypeOK, RegisterBinds, SetOwnerMoves, node, Status, Terminal
<1>2. CASE RegisterWrites \/ SetOwnerWrites
  BY <1>2 DEF TypeOK, RegisterWrites, SetOwnerWrites, node, journal, Status, Terminal
<1>3. ASSUME NEW t \in Tasks, enqueue(t) PROVE
        /\ status' \in [Tasks -> Status]
        /\ owner' \in [Tasks -> Owners \cup {None}]
        /\ ahead' \in [Tasks -> SUBSET Tasks]
        /\ UNCHANGED <<result, durableOwner, registry, restarts, node, stale>>
  BY <1>3 DEF TypeOK, enqueue, Queued, Status
<1>4. ASSUME NEW t \in Tasks, EnqueueWork(t) PROVE TypeOK'
  BY <1>3, <1>4 DEF TypeOK, EnqueueWork, registry, node
<1>5. ASSUME NEW t \in ChatTasks, TurnEnqueues(t) PROVE TypeOK'
  BY <1>3, <1>5 DEF TypeOK, TurnEnqueues, registry, node
<1>6. ASSUME NEW t \in Tasks, NEW r \in Terminal, settle(t, r) PROVE
        /\ status' \in [Tasks -> Status]
        /\ result' \in [Tasks -> Terminal \cup {None}]
        /\ activeTaskId' \in Tasks \cup {None}
        /\ stale' \in SUBSET ChatTasks
        /\ UNCHANGED <<owner, ahead, durableOwner, ready, registered, memOwner,
                       binding, moving, restarts>>
  BY <1>6 DEF TypeOK, settle, Status
<1>7. ASSUME NEW t \in ChatTasks, TurnAnswered(t) \/ TurnGivesUp(t) PROVE TypeOK'
  BY <1>6, <1>7 DEF TypeOK, TurnAnswered, TurnGivesUp, journal, registry, node, Terminal
<1>8. CASE expireStaleClaim
  BY <1>6, <1>8 DEF TypeOK, expireStaleClaim, node, Terminal
<1>9. ASSUME NEW t \in Tasks, PollClaims(t) \/ PollAnswerLost(t) PROVE TypeOK'
  BY <1>9 DEF TypeOK, PollClaims, PollAnswerLost, claimNext, Status
<1>10. ASSUME NEW arrives \in BOOLEAN, Announce(arrives) PROVE TypeOK'
  BY <1>10 DEF TypeOK, Announce, journal, registry
<1>11. CASE Run
  <2>1. currentTaskId \in Tasks
    BY <1>11 DEF Run, TakenOnce
  <2> QED BY <1>11, <2>1 DEF TypeOK, Run, journal, registry
<1>12. ASSUME NEW r \in Terminal, Report(r) PROVE TypeOK'
  <2>1. currentTaskId \in Tasks
    BY <1>12 DEF Report, TakenOnce
  <2> QED BY <1>6, <1>12, <2>1 DEF TypeOK, Report, settleRefused, journal, registry
<1>13. CASE ReportLost \/ NodeRestarts
  BY <1>13 DEF TypeOK, ReportLost, NodeRestarts, journal, registry
<1>14. CASE JournalStarts
  BY <1>14 DEF TypeOK, JournalStarts, journal, node
<1>17. CASE ApiRestarts
  <2>1. turn' \in [ChatTasks -> {"none", "waiting", "over"}]
    BY <1>17 DEF TypeOK, ApiRestarts
  <2>2. /\ ready' = FALSE /\ registered' = FALSE /\ restarts' \in Nat
        /\ memOwner' = None /\ activeTaskId' = None
        /\ binding' = None /\ moving' = None
        /\ UNCHANGED <<status, owner, ahead, result, durableOwner, pc,
                       currentTaskId, runs, stale>>
    BY <1>17 DEF TypeOK, ApiRestarts, journal, node
  <2> QED BY <2>1, <2>2 DEF TypeOK
<1>15. ASSUME NEW t \in ChatTasks, DeadlinePasses(t) PROVE TypeOK'
  BY <1>15 DEF TypeOK, DeadlinePasses, journal, registry, node
<1>16. CASE UNCHANGED vars
  BY <1>16 DEF TypeOK, vars, journal, registry, node
<1> QED
  BY <1>1, <1>2, <1>4, <1>5, <1>7, <1>8, <1>9, <1>10, <1>11, <1>12, <1>13, <1>14,
     <1>15, <1>16, <1>17 DEF Next

(***************************************************************************)
(* What a step does to the variables the invariant follows.                *)
(***************************************************************************)

Ownership == <<status, owner, durableOwner, registered, memOwner>>
Daemon == <<pc, currentTaskId, runs>>
Followed == OwnerFence /\ OwnersAreKnown /\ OneClaim /\ TakenOnce /\ RunsAtMostOnce

\* The owner comes and goes: no task changes hands.
LEMMA OwnershipSteps ==
    ASSUME IInv,
           \/ \E o \in Owners : RegisterBinds(o) \/ SetOwnerMoves(o)
           \/ RegisterWrites \/ SetOwnerWrites
    PROVE  Followed'
<1> USE TaskAssumptions DEF IInv
<1>1. /\ UNCHANGED <<status, owner, runs, currentTaskId>>
      /\ \/ pc' = pc
         \/ pc = "starting" /\ pc' = "idle"
  BY DEF RegisterBinds, SetOwnerMoves, RegisterWrites, SetOwnerWrites, node, journal
<1>2. TakenOnce' /\ RunsAtMostOnce' /\ OneClaim'
  BY <1>1 DEF TakenOnce, RunsAtMostOnce, OneClaim, Claimed
<1>3. durableOwner' # durableOwner => \A t \in Tasks : ~Active(t)
  BY DEF RegisterBinds, SetOwnerMoves, RegisterWrites, SetOwnerWrites, journal,
         OwnersAreKnown
<1>4. OwnerFence'
  BY <1>1, <1>3 DEF OwnerFence, Active
<1>5. durableOwner' # None \/ durableOwner' = durableOwner
  BY DEF RegisterBinds, SetOwnerMoves, RegisterWrites, SetOwnerWrites, journal, TypeOK
<1>6. registered' => memOwner' # None
  BY DEF RegisterBinds, SetOwnerMoves, RegisterWrites, SetOwnerWrites, OwnersAreKnown
<1> QED BY <1>1, <1>2, <1>4, <1>5, <1>6 DEF Followed, OwnersAreKnown, Active

\* A task is queued for the owner the device has.
LEMMA EnqueueStep ==
    ASSUME IInv, NEW t \in Tasks, enqueue(t)
    PROVE  Followed'
<1> USE DEF IInv
<1>1. /\ status' = [status EXCEPT ![t] = "queued"]
      /\ owner' = [owner EXCEPT ![t] = durableOwner]
      /\ status[t] = "absent"
      /\ durableOwner # None
      /\ UNCHANGED <<durableOwner, registered, memOwner, pc, currentTaskId, runs>>
  BY DEF enqueue, Serving, OwnersAreKnown, registry, node
<1>2. \A u \in Tasks : u # t => status'[u] = status[u] /\ owner'[u] = owner[u]
  BY <1>1 DEF TypeOK
<1>3. status'[t] = "queued" /\ owner'[t] = durableOwner
  BY <1>1 DEF TypeOK
<1>4. OwnerFence' /\ OwnersAreKnown'
  BY <1>1, <1>2, <1>3 DEF OwnerFence, OwnersAreKnown, Active
<1>5. OneClaim'
  BY <1>2, <1>3 DEF OneClaim, Claimed
<1>6. TakenOnce' /\ RunsAtMostOnce'
  BY <1>1, <1>2, <1>3 DEF TakenOnce, RunsAtMostOnce
<1> QED BY <1>4, <1>5, <1>6 DEF Followed

\* A claim is the only one: any other had the owner it was compared with.
LEMMA ClaimStep ==
    ASSUME IInv, NEW t \in Tasks, PollClaims(t) \/ PollAnswerLost(t)
    PROVE  Followed'
<1> USE DEF IInv
<1>1. /\ status' = [status EXCEPT ![t] = "claimed"]
      /\ status[t] = "queued"
      /\ owner[t] = memOwner
      /\ \A x \in Claimed : owner[x] # memOwner
      /\ UNCHANGED <<owner, durableOwner, registered, memOwner, runs>>
      /\ \/ pc' = pc /\ pc = "idle"
         \/ pc' = "claimed" /\ currentTaskId' = t
  BY DEF PollClaims, PollAnswerLost, claimNext
<1>2. \A u \in Tasks : u # t => status'[u] = status[u]
  BY <1>1 DEF TypeOK
<1>3. status'[t] = "claimed"
  BY <1>1 DEF TypeOK
<1>4. OwnerFence' /\ OwnersAreKnown'
  BY <1>1, <1>2, <1>3 DEF OwnerFence, OwnersAreKnown, Active
<1>5. Claimed = {}
  BY <1>1 DEF OwnerFence, Active, Claimed
<1>6. OneClaim'
  BY <1>2, <1>3, <1>5 DEF OneClaim, Claimed
<1>7. TakenOnce' /\ RunsAtMostOnce'
  BY <1>1, <1>2, <1>3 DEF TakenOnce, RunsAtMostOnce
<1> QED BY <1>4, <1>6, <1>7 DEF Followed

\* A settlement closes a claimed task and does nothing else to the journal.
LEMMA SettleEffect ==
    ASSUME IInv, NEW t \in Tasks, NEW r \in Terminal, settle(t, r)
    PROVE  /\ status[t] = "claimed" /\ status'[t] = r
           /\ result'[t] = r
           /\ \A u \in Tasks : u # t => status'[u] = status[u] /\ result'[u] = result[u]
           /\ UNCHANGED <<owner, durableOwner, registered, memOwner>>
BY DEF IInv, TypeOK, settle

LEMMA SettleStep ==
    ASSUME IInv, NEW t \in Tasks, NEW r \in Terminal, settle(t, r),
           \/ UNCHANGED Daemon
           \/ pc' = "idle" /\ UNCHANGED runs
    PROVE  Followed'
<1> USE SettleEffect DEF IInv
<1>1. OwnerFence' /\ OwnersAreKnown'
  BY DEF OwnerFence, OwnersAreKnown, Active, Terminal
<1>2. OneClaim'
  BY DEF OneClaim, Claimed, Terminal
<1>3. TakenOnce' /\ RunsAtMostOnce'
  BY DEF TakenOnce, RunsAtMostOnce, Terminal, Daemon
<1> QED BY <1>1, <1>2, <1>3 DEF Followed

\* Steps that leave the journal alone, or that only forget.
LEMMA QuietStep ==
    ASSUME IInv,
           UNCHANGED <<status, owner, durableOwner, runs>>,
           \/ UNCHANGED <<registered, memOwner>>
           \/ registered' = FALSE,
           \/ UNCHANGED <<pc, currentTaskId>>
           \/ pc' \in {"starting", "idle"}
           \/ pc = "claimed" /\ pc' = "running" /\ UNCHANGED currentTaskId
    PROVE  Followed'
<1> USE DEF IInv
<1>1. OwnerFence' /\ OwnersAreKnown' /\ OneClaim'
  BY DEF OwnerFence, OwnersAreKnown, OneClaim, Claimed, Active
<1>2. TakenOnce' /\ RunsAtMostOnce'
  BY DEF TakenOnce, RunsAtMostOnce
<1> QED BY <1>1, <1>2 DEF Followed

LEMMA RunStep ==
    ASSUME IInv, Run
    PROVE  Followed'
<1> USE DEF IInv
<1>1. /\ currentTaskId \in Tasks
      /\ runs[currentTaskId] = 0
      /\ status[currentTaskId] \notin {"absent", "queued"}
      /\ pc' = "finished"
      /\ UNCHANGED <<status, owner, durableOwner, registered, memOwner, currentTaskId>>
  BY DEF Run, TakenOnce, journal, registry
<1>2. /\ runs'[currentTaskId] = 1
      /\ \A t \in Tasks : t # currentTaskId => runs'[t] = runs[t]
  BY <1>1 DEF Run, TypeOK
<1>3. OwnerFence' /\ OwnersAreKnown' /\ OneClaim'
  BY <1>1 DEF OwnerFence, OwnersAreKnown, OneClaim, Claimed, Active
<1>4. TakenOnce' /\ RunsAtMostOnce'
  BY <1>1, <1>2 DEF TakenOnce, RunsAtMostOnce
<1> QED BY <1>3, <1>4 DEF Followed

LEMMA InvStep ==
    ASSUME IInv, [Next]_vars
    PROVE  IInv'
<1> USE TaskAssumptions
<1>1. TypeOK'
  BY TypeStep DEF IInv
<1> SUFFICES Followed'
  BY <1>1 DEF IInv, Followed
<1>2. ASSUME NEW t \in Tasks, EnqueueWork(t) PROVE Followed'
  BY <1>2, EnqueueStep DEF EnqueueWork
<1>3. ASSUME NEW t \in ChatTasks, TurnEnqueues(t) PROVE Followed'
  BY <1>3, EnqueueStep DEF TurnEnqueues
<1>4. ASSUME NEW t \in ChatTasks, TurnAnswered(t) PROVE Followed'
  BY <1>4, QuietStep DEF TurnAnswered, journal, registry, node
<1>5. ASSUME NEW t \in ChatTasks, TurnGivesUp(t) PROVE Followed'
  <2>1. CASE settle(t, "failed")
    BY <1>5, <2>1, SettleStep DEF TurnGivesUp, node, Daemon, Terminal
  <2>2. CASE UNCHANGED <<journal, registry, restarts, stale>>
    BY <1>5, <2>2, QuietStep DEF TurnGivesUp, journal, registry, node
  <2> QED BY <1>5, <2>1, <2>2 DEF TurnGivesUp
<1>6. CASE expireStaleClaim
  <2>1. PICK t \in ChatTasks : settle(t, "failed") /\ UNCHANGED node
    BY <1>6 DEF expireStaleClaim
  <2> QED BY <2>1, SettleStep DEF node, Daemon, Terminal
<1>7. ASSUME NEW arrives \in BOOLEAN, Announce(arrives) PROVE Followed'
  BY <1>7, QuietStep DEF Announce, journal, registry
<1>8. ASSUME NEW r \in Terminal, Report(r) PROVE Followed'
  <2>1. currentTaskId \in Tasks
    BY <1>8 DEF Report, IInv, TakenOnce
  <2>2. CASE settle(currentTaskId, r)
    BY <1>8, <2>1, <2>2, SettleStep DEF Report
  <2>3. CASE settleRefused(currentTaskId)
    BY <1>8, <2>3, QuietStep DEF Report, settleRefused, journal, registry
  <2> QED BY <1>8, <2>2, <2>3 DEF Report
<1>9. CASE ReportLost \/ NodeRestarts
  BY <1>9, QuietStep DEF ReportLost, NodeRestarts, journal, registry
<1>10. CASE JournalStarts
  BY <1>10, QuietStep DEF JournalStarts, journal, node
<1>11. CASE ApiRestarts
  BY <1>11, QuietStep DEF ApiRestarts, journal, node
<1>12. ASSUME NEW t \in ChatTasks, DeadlinePasses(t) PROVE Followed'
  BY <1>12, QuietStep DEF DeadlinePasses, journal, registry, node
<1>13. CASE UNCHANGED vars
  BY <1>13, QuietStep DEF vars, journal, registry, node
<1> QED
  BY <1>2, <1>3, <1>4, <1>5, <1>6, <1>7, <1>8, <1>9, <1>10, <1>11, <1>12, <1>13,
     OwnershipSteps, ClaimStep, RunStep DEF Next

LEMMA InvHolds == Spec => []IInv
<1>1. Init => IInv
  BY InvInit
<1>2. IInv /\ [Next]_vars => IInv'
  BY InvStep
<1> QED BY <1>1, <1>2, PTL DEF Spec

(***************************************************************************)
(* The theorems.                                                           *)
(***************************************************************************)

\* Every reachable state of the journal, its clients and the device is well
\* typed.
THEOREM TypeCorrect == Spec => []TypeOK
BY InvHolds, PTL DEF IInv

\* Open tasks act for the owner the device is bound to, however registrations
\* and reassignments interleave with enqueueing and claiming.
THEOREM OwnerFenced == Spec => []OwnerFence
BY InvHolds, PTL DEF IInv

\* A device never holds two claims.
THEOREM ClaimsExclusive == Spec => []OneClaim
BY InvHolds, PTL DEF IInv

\* No task runs twice, whatever crashes, restarts or is lost.
THEOREM NothingRunsTwice == Spec => []RunsAtMostOnce
BY InvHolds, PTL DEF IInv

(***************************************************************************)
(* The contract.                                                           *)
(***************************************************************************)

Phase == [t \in Tasks |-> PhaseOf(status[t])]

\* A step that moves no task, owner, result or run is a stutter.
LEMMA StutterOfContract ==
    ASSUME UNCHANGED <<status, owner, durableOwner, runs, result>>
    PROVE  UNCHANGED Contract!contractVars
BY DEF Contract!contractVars, PhaseOf

LEMMA PhaseMoves ==
    ASSUME TypeOK, NEW t \in Tasks, NEW to \in Status,
           status' = [status EXCEPT ![t] = to]
    PROVE  Phase' = [Phase EXCEPT ![t] = PhaseOf(to)]
BY DEF TypeOK, Phase, PhaseOf

LEMMA OwnershipRefines ==
    ASSUME IInv, IInv',
           \/ \E o \in Owners : RegisterBinds(o) \/ SetOwnerMoves(o)
           \/ RegisterWrites \/ SetOwnerWrites
    PROVE  [Contract!Next]_Contract!contractVars
<1> USE TaskAssumptions DEF IInv
<1>1. UNCHANGED <<status, owner, runs, result>>
  BY DEF RegisterBinds, SetOwnerMoves, RegisterWrites, SetOwnerWrites, node, journal
<1>2. CASE durableOwner' = durableOwner
  BY <1>1, <1>2, StutterOfContract
<1>3. CASE durableOwner' # durableOwner
  <2>1. \A t \in Tasks : ~Active(t)
    BY <1>3 DEF RegisterBinds, SetOwnerMoves, RegisterWrites, SetOwnerWrites, journal,
           OwnersAreKnown
  <2>2. durableOwner' \in Owners
    BY <1>3 DEF RegisterBinds, SetOwnerMoves, RegisterWrites, SetOwnerWrites,
           journal, TypeOK
  <2>3. \A t \in Tasks : ~Contract!Open(t)
    BY <2>1 DEF Contract!Open, Active, PhaseOf
  <2>4. Contract!Bind(durableOwner')
    BY <1>1, <2>3 DEF Contract!Bind, PhaseOf
  <2> QED BY <2>2, <2>4 DEF Contract!Next
<1> QED BY <1>2, <1>3

LEMMA EnqueueRefines ==
    ASSUME IInv, NEW t \in Tasks, enqueue(t)
    PROVE  Contract!Next
<1> USE DEF IInv
<1>1. /\ status' = [status EXCEPT ![t] = "queued"]
      /\ owner' = [owner EXCEPT ![t] = durableOwner]
      /\ status[t] = "absent"
      /\ durableOwner # None
      /\ UNCHANGED <<durableOwner, runs, result>>
  BY DEF enqueue, Serving, OwnersAreKnown, node
<1>2. Phase' = [Phase EXCEPT ![t] = "waiting"]
  BY <1>1, PhaseMoves DEF Status, PhaseOf
<1>3. Contract!Accept(t)
  BY <1>1, <1>2 DEF Contract!Accept, Phase, PhaseOf
<1> QED BY <1>3 DEF Contract!Next

LEMMA ClaimRefines ==
    ASSUME IInv, NEW t \in Tasks, claimNext(t)
    PROVE  Contract!Next
<1> USE DEF IInv
<1>1. /\ status' = [status EXCEPT ![t] = "claimed"]
      /\ status[t] = "queued"
      /\ owner[t] = memOwner
      /\ \A x \in Claimed : owner[x] # memOwner
      /\ UNCHANGED <<owner, durableOwner, runs, result>>
  BY DEF claimNext
<1>2. Phase' = [Phase EXCEPT ![t] = "handed"]
  BY <1>1, PhaseMoves DEF Status, PhaseOf
<1>3. owner[t] = durableOwner
  BY <1>1 DEF OwnerFence, Active
<1>4. \A x \in Tasks : Phase[x] # "handed"
  BY <1>1, <1>3 DEF OwnerFence, Active, Claimed, Phase, PhaseOf, TypeOK, Status, Terminal
<1>5. Contract!Hand(t)
  BY <1>1, <1>2, <1>3, <1>4 DEF Contract!Hand, Phase, PhaseOf
<1> QED BY <1>5 DEF Contract!Next

LEMMA SettleRefines ==
    ASSUME IInv, NEW t \in Tasks, NEW r \in Terminal, settle(t, r), UNCHANGED runs
    PROVE  Contract!Next
<1> USE DEF IInv
<1>1. /\ status' = [status EXCEPT ![t] = r]
      /\ result' = [result EXCEPT ![t] = r]
      /\ status[t] = "claimed"
      /\ UNCHANGED <<owner, durableOwner>>
  BY DEF settle
<1>2. Phase' = [Phase EXCEPT ![t] = "closed"]
  BY <1>1, PhaseMoves DEF Status, Terminal, PhaseOf
<1>3. Contract!Close(t, r)
  BY <1>1, <1>2 DEF Contract!Close, Phase, PhaseOf
<1> QED BY <1>3 DEF Contract!Next, Contract!Results, Terminal

LEMMA RunRefines ==
    ASSUME IInv, Run
    PROVE  Contract!Next
<1> USE DEF IInv
<1>1. /\ currentTaskId \in Tasks
      /\ runs[currentTaskId] = 0
      /\ status[currentTaskId] \in {"claimed"} \cup Terminal
      /\ UNCHANGED <<status, owner, durableOwner, result>>
  BY DEF Run, TakenOnce, journal, TypeOK, Status
<1>2. runs' = [runs EXCEPT ![currentTaskId] = 1]
  BY <1>1 DEF Run
<1>3. Contract!Execute(currentTaskId)
  BY <1>1, <1>2 DEF Contract!Execute, PhaseOf, Terminal
<1> QED BY <1>1, <1>3 DEF Contract!Next

LEMMA ContractStep ==
    ASSUME IInv, IInv', [Next]_vars
    PROVE  [Contract!Next]_Contract!contractVars
<1> USE TaskAssumptions
<1>1. ASSUME NEW t \in Tasks, EnqueueWork(t) PROVE Contract!Next
  BY <1>1, EnqueueRefines DEF EnqueueWork
<1>2. ASSUME NEW t \in ChatTasks, TurnEnqueues(t) PROVE Contract!Next
  BY <1>2, EnqueueRefines DEF TurnEnqueues
<1>3. ASSUME NEW t \in ChatTasks, TurnAnswered(t)
      PROVE  UNCHANGED Contract!contractVars
  BY <1>3, StutterOfContract DEF TurnAnswered, journal, node
<1>4. ASSUME NEW t \in ChatTasks, TurnGivesUp(t)
      PROVE  [Contract!Next]_Contract!contractVars
  <2>1. CASE settle(t, "failed")
    BY <1>4, <2>1, SettleRefines DEF TurnGivesUp, node, Terminal
  <2>2. CASE UNCHANGED <<journal, registry, restarts, stale>>
    BY <1>4, <2>2, StutterOfContract DEF TurnGivesUp, journal, node
  <2> QED BY <1>4, <2>1, <2>2 DEF TurnGivesUp
<1>5. CASE expireStaleClaim
  <2>1. PICK t \in ChatTasks : settle(t, "failed") /\ UNCHANGED node
    BY <1>5 DEF expireStaleClaim
  <2> QED BY <2>1, SettleRefines DEF node, Terminal
<1>6. ASSUME NEW t \in Tasks, PollClaims(t) \/ PollAnswerLost(t) PROVE Contract!Next
  BY <1>6, ClaimRefines DEF PollClaims, PollAnswerLost
<1>7. ASSUME NEW arrives \in BOOLEAN, Announce(arrives)
      PROVE  UNCHANGED Contract!contractVars
  BY <1>7, StutterOfContract DEF Announce, journal
<1>8. ASSUME NEW r \in Terminal, Report(r)
      PROVE  [Contract!Next]_Contract!contractVars
  <2>1. currentTaskId \in Tasks
    BY <1>8 DEF Report, IInv, TakenOnce
  <2>2. CASE settle(currentTaskId, r)
    BY <1>8, <2>1, <2>2, SettleRefines DEF Report
  <2>3. CASE settleRefused(currentTaskId)
    BY <1>8, <2>3, StutterOfContract DEF Report, settleRefused, journal
  <2> QED BY <1>8, <2>2, <2>3 DEF Report
<1>9. CASE ReportLost \/ NodeRestarts \/ JournalStarts \/ ApiRestarts
  BY <1>9, StutterOfContract
  DEF ReportLost, NodeRestarts, JournalStarts, ApiRestarts, journal, node
<1>10. ASSUME NEW t \in ChatTasks, DeadlinePasses(t)
       PROVE  UNCHANGED Contract!contractVars
  BY <1>10, StutterOfContract DEF DeadlinePasses, journal, node
<1>11. CASE UNCHANGED vars
  BY <1>11, StutterOfContract DEF vars, journal, node
<1> QED
  BY <1>1, <1>2, <1>3, <1>4, <1>5, <1>6, <1>7, <1>8, <1>9, <1>10, <1>11,
     OwnershipRefines, RunRefines DEF Next

\* The journal, its clients and the device implement the contract: every step
\* is one of its operations or a stutter.
THEOREM JournalImplementsContract == Spec => ImplementsContract
<1>1. Init => Contract!Init
  BY DEF Init, Contract!Init, PhaseOf
<1>2. IInv /\ IInv' /\ [Next]_vars => [Contract!Next]_Contract!contractVars
  BY ContractStep
<1> QED BY <1>1, <1>2, InvHolds, PTL DEF Spec, ImplementsContract, Contract!Spec

LEMMA ResultStep ==
    ASSUME IInv, [Next]_vars, NEW t \in Tasks, status[t] \in Terminal
    PROVE  status'[t] = status[t] /\ result'[t] = result[t]
<1> USE TaskAssumptions DEF Terminal
<1>1. ASSUME NEW u \in Tasks, enqueue(u) \/ claimNext(u)
      PROVE  status'[t] = status[t] /\ result'[t] = result[t]
  BY <1>1 DEF enqueue, claimNext, IInv, TypeOK
<1>2. ASSUME NEW u \in Tasks, NEW r \in Terminal, settle(u, r)
      PROVE  status'[t] = status[t] /\ result'[t] = result[t]
  BY <1>2, SettleEffect
<1>3. CASE UNCHANGED <<status, result>>
  BY <1>3
<1>4. ASSUME NEW u \in ChatTasks, TurnEnqueues(u) \/ TurnAnswered(u) \/ TurnGivesUp(u)
      PROVE  status'[t] = status[t] /\ result'[t] = result[t]
  BY <1>1, <1>2, <1>4 DEF TurnEnqueues, TurnAnswered, TurnGivesUp, journal
<1>5. CASE expireStaleClaim
  BY <1>2, <1>5 DEF expireStaleClaim
<1>6. ASSUME NEW r \in Terminal, Report(r)
      PROVE  status'[t] = status[t] /\ result'[t] = result[t]
  BY <1>2, <1>6 DEF Report, settleRefused, journal, IInv, TakenOnce
<1>7. ASSUME NEW o \in Owners, RegisterBinds(o) \/ SetOwnerMoves(o)
      PROVE  UNCHANGED <<status, result>>
  BY <1>7 DEF RegisterBinds, SetOwnerMoves
<1>8. ASSUME RegisterWrites \/ SetOwnerWrites PROVE UNCHANGED <<status, result>>
  BY <1>8 DEF RegisterWrites, SetOwnerWrites, journal
<1>9. ASSUME \/ \E arrives \in BOOLEAN : Announce(arrives)
             \/ Run \/ ReportLost \/ NodeRestarts \/ JournalStarts \/ ApiRestarts
             \/ \E u \in ChatTasks : DeadlinePasses(u)
      PROVE  UNCHANGED <<status, result>>
  BY <1>9 DEF Announce, Run, ReportLost, NodeRestarts, JournalStarts, ApiRestarts,
              DeadlinePasses, journal
<1>10. ASSUME UNCHANGED vars PROVE UNCHANGED <<status, result>>
  BY <1>10 DEF vars, journal
<1>11. ASSUME NEW u \in Tasks, EnqueueWork(u) \/ PollClaims(u) \/ PollAnswerLost(u)
       PROVE  status'[t] = status[t] /\ result'[t] = result[t]
  BY <1>1, <1>11 DEF EnqueueWork, PollClaims, PollAnswerLost
<1> QED
  BY <1>3, <1>4, <1>5, <1>6, <1>7, <1>8, <1>9, <1>10, <1>11 DEF Next

\* A closed task keeps its first result, whoever reports, withdraws or expires.
THEOREM FirstResultKept == Spec => FirstResultStands
<1>1. IInv /\ [Next]_vars =>
        [\A t \in Tasks : status[t] \in Terminal =>
            /\ status'[t] = status[t]
            /\ result'[t] = result[t]]_vars
  BY ResultStep
<1> QED BY <1>1, InvHolds, PTL DEF Spec, FirstResultStands
=============================================================================
