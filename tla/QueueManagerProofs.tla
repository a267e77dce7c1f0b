------------------------- MODULE QueueManagerProofs -------------------------
(***************************************************************************)
(* What QueueManager guarantees for every finite set of tickets, every     *)
(* number of timer ticks and dispatches, every limit and whatever the      *)
(* other actors ask for.                                                   *)
(*                                                                         *)
(* SlotsWithinCapacity is not inductive: a cycle launches long after it    *)
(* computed its room.  The strengthening follows the room through the      *)
(* cycle, from the count of free slots to the batch that fills them, and   *)
(* says that no second cycle spends the same slots.                        *)
(***************************************************************************)
EXTENDS QueueManager, FiniteSetTheorems, TLAPS

\* pollCycleInProgress keeps the timer's ticks from overlapping.
OneCycle ==
    \A p, o \in Polls : poll[p] # NoCycle /\ poll[o] # NoCycle => p = o

\* Before a cycle chooses its batch it has none, and its room is free; once
\* chosen the batch fits the room; while it is launched it fits what is free.
RoomIsFree(p) ==
    /\ poll[p].pc \in {"rerouting", "listing", "deferred", "recovering"}
          => poll[p].batch = {}
    /\ poll[p].pc \in {"listing", "deferred", "recovering", "batching"}
          => Cardinality(qm.active) + poll[p].room <= MaxConcurrent
    /\ poll[p].pc = "batching" => Cardinality(poll[p].batch) <= poll[p].room
    /\ poll[p].pc = "launching"
          => Cardinality(qm.active) + Cardinality(poll[p].batch)
                <= MaxConcurrent

\* The inductive invariant.
IInv ==
    /\ TypeOK
    /\ OneCycle
    /\ SlotsWithinCapacity
    /\ \A p \in Polls : poll[p] # NoCycle => RoomIsFree(p)

(***************************************************************************)
(* Type correctness.                                                       *)
(***************************************************************************)

\* No table entry leads outside the canonical states.
LEMMA TableType ==
    \A s \in OshalTicketState : VALID_TRANSITIONS[s] \subseteq OshalTicketState
BY DEF OshalTicketState, VALID_TRANSITIONS, Fail, Park

LEMMA NoneIsNoStatus == None \notin OshalTicketState
BY DEF None, OshalTicketState

\* What the listener and a dispatch's finally block do to the tracking: it
\* stays tracking, and no slot is taken.
LEMMA TrackingType ==
    ASSUME NEW q \in Tracking, NEW t \in Tickets, NEW from, NEW to
    PROVE  /\ Freed(q, t) \in Tracking /\ Freed(q, t).active \subseteq q.active
           /\ Forgotten(q, t) \in Tracking
           /\ Forgotten(q, t).active = q.active
           /\ Released(q, t) \in Tracking
           /\ Released(q, t).active \subseteq q.active
           /\ Observed(q, t, from, to) \in Tracking
           /\ Observed(q, t, from, to).active \subseteq q.active
<1>1. Freed(q, t) \in Tracking /\ Freed(q, t).active \subseteq q.active
  BY DEF Tracking, Freed
<1>2. Forgotten(q, t) \in Tracking /\ Forgotten(q, t).active = q.active
  BY DEF Tracking, Forgotten
<1>3. Released(q, t) \in Tracking /\ Released(q, t).active \subseteq q.active
  BY DEF Tracking, Released, Freed
<1>4. /\ Observed(q, t, from, to) \in Tracking
      /\ Observed(q, t, from, to).active \subseteq q.active
  BY DEF Tracking, Observed, Freed, Forgotten
<1> QED BY <1>1, <1>2, <1>3, <1>4

\* What a step of a dispatch leaves behind, besides the ticket.
Calls == [Dispatches -> Call \cup {NoCall}]

\* The tracking stays tracking, and no slot is taken.
Shrinks == qm' \in Tracking /\ qm'.active \subseteq qm.active

LEMMA MoveType ==
    ASSUME TypeOK, NEW t \in Tickets, NEW to \in OshalTicketState,
           Move(t, to)
    PROVE  ticket' \in [Tickets -> OshalTicketState]
BY DEF TypeOK, Move

LEMMA ObservedMoveType ==
    ASSUME TypeOK, NEW t \in Tickets, NEW to \in OshalTicketState,
           ObservedMove(t, to)
    PROVE  ticket' \in [Tickets -> OshalTicketState] /\ Shrinks
<1>1. qm \in Tracking
  BY DEF TypeOK
<1> QED BY <1>1, MoveType, TrackingType DEF ObservedMove, Shrinks

LEMMA RunningCall ==
    ASSUME TypeOK, NEW d \in Dispatches, Running(d)
    PROVE  dispatch[d] \in Call /\ dispatch[d].ticket \in Tickets
BY DEF TypeOK, Running, Call

LEMMA ContinueType ==
    ASSUME TypeOK, NEW d \in Dispatches, Running(d), NEW pc \in Step,
           NEW q \in Tracking, q.active \subseteq qm.active,
           Continue(d, pc, q)
    PROVE  dispatch' \in Calls /\ Shrinks
<1>1. [[dispatch[d] EXCEPT !.pc = pc] EXCEPT !.seen = None] \in Call
  BY RunningCall DEF Call
<1>2. dispatch' = [dispatch EXCEPT
                     ![d] = [[dispatch[d] EXCEPT !.pc = pc] EXCEPT
                               !.seen = None]]
  BY DEF Continue, TypeOK
<1> QED BY <1>1, <1>2 DEF TypeOK, Continue, Calls, Shrinks

LEMMA FinishType ==
    ASSUME TypeOK, NEW d \in Dispatches, Running(d),
           NEW q \in Tracking, q.active \subseteq qm.active,
           Finish(d, q)
    PROVE  dispatch' \in Calls /\ Shrinks
<1>1. dispatch[d].ticket \in Tickets
  BY RunningCall
<1>2. qm' \in Tracking /\ qm'.active \subseteq q.active
  BY <1>1, TrackingType DEF Finish
<1> QED BY <1>2 DEF TypeOK, Finish, Calls, Shrinks

\* The statuses a dispatch asks for.
LEMMA TargetType ==
    ASSUME NEW d \in Dispatches
    PROVE  Target(d) \in OshalTicketState
BY DEF Target, resolveDispatchEntryState, OshalTicketState

LEMMA WrittenType ==
    ASSUME TypeOK, NEW d \in Dispatches, Running(d),
           NEW q \in Tracking, q.active \subseteq qm.active,
           Written(d, q)
    PROVE  dispatch' \in Calls /\ Shrinks
<1>1. dispatch[d].ticket \in Tickets
  BY RunningCall
<1>2. /\ Forgotten(q, dispatch[d].ticket) \in Tracking
      /\ Forgotten(q, dispatch[d].ticket).active \subseteq qm.active
  BY <1>1, TrackingType
<1>3. {"claimed", "closing"} \subseteq Step
  BY DEF Step
<1>4. CASE Continue(d, "claimed", q)
  BY <1>3, <1>4, ContinueType
<1>5. CASE Continue(d, "closing", Forgotten(q, dispatch[d].ticket))
  BY <1>2, <1>3, <1>5, ContinueType
<1>6. CASE Finish(d, Forgotten(q, dispatch[d].ticket))
  BY <1>2, <1>6, FinishType
<1>7. CASE Finish(d, q)
  BY <1>7, FinishType
<1> QED BY <1>4, <1>5, <1>6, <1>7 DEF Written

LEMMA ProceedType ==
    ASSUME TypeOK, NEW d \in Dispatches, Running(d), NEW pc \in Step,
           Proceed(d, pc)
    PROVE  dispatch' \in Calls /\ Shrinks
<1>1. qm \in Tracking
  BY DEF TypeOK
<1> QED BY <1>1, ContinueType, FinishType DEF Proceed

\* A step of a dispatch keeps every type and takes no slot.
LEMMA DispatchStepSafe ==
    ASSUME TypeOK, NEW d \in Dispatches, DispatchStep(d)
    PROVE  TypeOK' /\ Shrinks /\ UNCHANGED poll
<1> DEFINE t == dispatch[d].ticket
           Next1 == ticket' \in [Tickets -> OshalTicketState]
                       /\ dispatch' \in Calls /\ Shrinks
<1>1. qm \in Tracking /\ ticket \in [Tickets -> OshalTicketState]
  BY DEF TypeOK
<1>2. {"entering", "claiming", "claimed", "preparing", "submitted", "failed",
       "closing", "completing", "items_failed", "no_work", "escalating",
       "rolling_back", "breaking"} \subseteq Step
  BY DEF Step, Writing
<1>3. ASSUME Running(d) PROVE t \in Tickets
  BY <1>3, RunningCall
<1>4. ASSUME Rollback(d) PROVE Next1 /\ dlq' \in SUBSET Tickets
                               /\ UNCHANGED escalating
  <2>1. Running(d) /\ t \in Tickets
    BY <1>3, <1>4 DEF Rollback, At
  <2>2. /\ Forgotten(qm, t) \in Tracking
        /\ Forgotten(qm, t).active \subseteq qm.active
    BY <1>1, <2>1, TrackingType
  <2>3. dispatch' \in Calls /\ Shrinks
    <3>1. CASE Finish(d, Forgotten(qm, t))
      BY <2>1, <2>2, <3>1, FinishType
    <3>2. CASE Finish(d, qm)
      BY <1>1, <2>1, <3>2, FinishType
    <3>3. CASE \E pc \in {"rolling_back", "breaking"} : Continue(d, pc, qm)
      BY <1>1, <1>2, <2>1, <3>3, ContinueType
    <3> QED BY <1>4, <3>1, <3>2, <3>3 DEF Rollback
  <2>4. "dead_letter" \in OshalTicketState
    BY DEF OshalTicketState
  <2>5. CASE Move(t, "dead_letter") /\ dlq' = dlq \cup {t}
    BY <1>4, <2>1, <2>3, <2>4, <2>5, MoveType DEF Rollback, TypeOK
  <2>6. CASE UNCHANGED <<ticket, dlq>>
    BY <1>1, <1>4, <2>3, <2>6 DEF Rollback, TypeOK
  <2> QED BY <1>4, <2>5, <2>6 DEF Rollback
<1>5. ASSUME Enter(d) PROVE Next1 /\ UNCHANGED escalating
  <2> DEFINE counted == [qm EXCEPT !.count[t] = @ + 1]
  <2>1. Running(d) /\ t \in Tickets
    BY <1>3, <1>5 DEF Enter, At
  <2>2. counted \in Tracking /\ counted.active \subseteq qm.active
    BY <1>1, <2>1 DEF Tracking
  <2>3. \/ Continue(d, "claiming", counted) \/ Continue(d, "failed", counted)
        \/ Finish(d, counted)
    BY <1>5 DEF Enter
  <2> HIDE DEF counted
  <2>4. dispatch' \in Calls /\ Shrinks
    BY <1>2, <2>1, <2>2, <2>3, ContinueType, FinishType
  <2> QED BY <1>1, <1>5, <2>4 DEF Enter
<1>6. ASSUME ReadForWrite(d) PROVE Next1 /\ UNCHANGED escalating
  <2>1. Running(d)
    BY <1>6 DEF ReadForWrite
  <2>2. CASE Written(d, qm)
    BY <1>1, <1>6, <2>1, <2>2, WrittenType DEF ReadForWrite
  <2>3. CASE WriteFailed(d)
    <3>1. Continue(d, "failed", qm) \/ Finish(d, qm)
      BY <2>3 DEF WriteFailed
    <3>2. dispatch' \in Calls /\ Shrinks
      BY <1>1, <1>2, <2>1, <3>1, ContinueType, FinishType
    <3> QED BY <1>1, <1>6, <3>2 DEF ReadForWrite
  <2>4. CASE /\ dispatch' = [dispatch EXCEPT ![d].seen = ticket[t]]
             /\ UNCHANGED qm
    <3>1. [dispatch[d] EXCEPT !.seen = ticket[t]] \in Call
      BY <1>1, <1>3, <2>1, RunningCall DEF Call
    <3>2. dispatch' \in Calls
      BY <2>4, <3>1 DEF TypeOK, Calls
    <3> QED BY <1>1, <1>6, <2>4, <3>2 DEF ReadForWrite, Shrinks
  <2> QED BY <1>6, <2>2, <2>3, <2>4 DEF ReadForWrite
<1>7. ASSUME CommitWrite(d) PROVE Next1 /\ UNCHANGED escalating
  <2> DEFINE q == Observed(qm, t, ticket[t], Target(d))
  <2>1. Running(d) /\ t \in Tickets
    BY <1>3, <1>7 DEF CommitWrite
  <2>2. q \in Tracking /\ q.active \subseteq qm.active
    BY <1>1, <2>1, TrackingType
  <2>3. Move(t, Target(d)) /\ Written(d, q)
    BY <1>7 DEF CommitWrite
  <2> HIDE DEF q
  <2>4. dispatch' \in Calls /\ Shrinks
    BY <2>1, <2>2, <2>3, WrittenType
  <2>5. ticket' \in [Tickets -> OshalTicketState]
    BY <2>1, <2>3, MoveType, TargetType
  <2> QED BY <1>7, <2>4, <2>5 DEF CommitWrite
<1>8. ASSUME LoseWrite(d) PROVE Next1 /\ UNCHANGED escalating
  BY <1>1, <1>8, FinishType DEF LoseWrite
<1>9. ASSUME Prepare(d) \/ Submit(d) \/ PipelineReturns(d)
      PROVE  Next1 /\ UNCHANGED escalating
  <2>1. /\ Running(d) /\ UNCHANGED <<ticket, escalating>>
        /\ \E pc \in {"preparing", "submitted", "completing", "items_failed",
                      "no_work"} : Proceed(d, pc)
    BY <1>9 DEF Prepare, Submit, PipelineReturns, At
  <2> QED BY <1>1, <1>2, <2>1, ProceedType
<1>10. ASSUME Defer(d) \/ Throw(d) \/ FailForGood(d) \/ Close(d)
       PROVE  Next1 /\ UNCHANGED escalating
  <2>1. /\ Running(d) /\ UNCHANGED <<ticket, escalating>>
        /\ \/ Finish(d, qm)
           \/ \E pc \in {"failed", "escalating"} : Continue(d, pc, qm)
    BY <1>10 DEF Defer, Throw, FailForGood, Close, At
  <2> QED BY <1>1, <1>2, <2>1, ContinueType, FinishType
<1>11. /\ Next1 /\ UNCHANGED <<escalating, poll, moves, recoveryVars>>
       /\ dlq' \in SUBSET Tickets
  BY <1>4, <1>5, <1>6, <1>7, <1>8, <1>9, <1>10 DEF DispatchStep, TypeOK
<1> QED BY <1>11 DEF TypeOK, Calls, Shrinks, recoveryVars

LEMMA PollingType ==
    ASSUME TypeOK, NEW p \in Polls, NEW pc, Polling(p, pc)
    PROVE  poll[p] \in Cycle /\ poll[p] # NoCycle /\ poll[p].pc = pc
BY DEF TypeOK, Polling

LEMMA AdvanceType ==
    ASSUME TypeOK, NEW p \in Polls, NEW cycle \in Cycle \cup {NoCycle},
           Advance(p, cycle)
    PROVE  poll' \in [Polls -> Cycle \cup {NoCycle}] /\ poll'[p] = cycle
BY DEF TypeOK, Advance

\* Taking elements off a cycle's lists, and moving it to its next phase.
LEMMA CycleUpdates ==
    ASSUME NEW c \in Cycle, NEW pc \in {"listing", "deferred", "recovering",
                                        "batching", "launching"},
           NEW n \in Nat, NEW S \in SUBSET Tickets
    PROVE  /\ [c EXCEPT !.pc = pc, !.room = n] \in Cycle
           /\ [c EXCEPT !.pc = pc, !.candidates = S] \in Cycle
           /\ [c EXCEPT !.pc = pc, !.stale = S] \in Cycle
           /\ [c EXCEPT !.pc = pc] \in Cycle
           /\ [c EXCEPT !.stale = S] \in Cycle
           /\ [c EXCEPT !.batch = S] \in Cycle
           /\ \A B \in SUBSET Tickets :
                 [c EXCEPT !.candidates = S, !.batch = B] \in Cycle
BY DEF Cycle

\* The slots are a finite set.
LEMMA SlotsFinite ==
    ASSUME NEW q \in Tracking
    PROVE  IsFiniteSet(q.active) /\ Cardinality(q.active) \in Nat
<1>1. q.active \in SUBSET Tickets
  BY DEF Tracking
<1> QED BY <1>1, TicketsAssumption, FS_Subset, FS_CardinalityType

LEMMA PollStartType ==
    ASSUME TypeOK, NEW p \in Polls, PollStart(p)
    PROVE  TypeOK' /\ Shrinks
<1>1. PICK stuck \in SUBSET (qm.clocked \cap Hangs) :
        /\ qm' = [qm EXCEPT !.active = @ \ stuck, !.clocked = @ \ stuck]
        /\ escalating' = escalating \cup (stuck \X {None})
        /\ moves + Cardinality(stuck) <= MoveBound
        /\ moves' = moves + Cardinality(stuck)
  BY DEF PollStart
<1>2. stuck \in SUBSET Tickets
  BY DEF TypeOK, Tracking
<1>3. Cardinality(stuck) \in Nat
  BY <1>2, TicketsAssumption, FS_Subset, FS_CardinalityType
<1>4. moves' \in 0 .. MoveBound
  BY <1>1, <1>3, LimitsAssumption DEF TypeOK
<1>5. Shrinks
  BY <1>1 DEF TypeOK, Tracking, Shrinks
<1>6. escalating' \in SUBSET (Tickets \X (OshalTicketState \cup {None}))
  BY <1>1, <1>2 DEF TypeOK
<1>7. [pc |-> "rerouting", room |-> 0, candidates |-> {}, stale |-> {},
       batch |-> {}] \in Cycle
  BY DEF Cycle
<1>8. poll' \in [Polls -> Cycle \cup {NoCycle}]
  BY <1>7, AdvanceType DEF PollStart
<1> QED
  BY <1>4, <1>5, <1>6, <1>8 DEF PollStart, TypeOK, Shrinks, recoveryVars

\* The phases of a cycle keep every type; all but Launch take no slot.
LEMMA PollPhaseType ==
    ASSUME TypeOK, NEW p \in Polls, PollPhase(p)
    PROVE  TypeOK' /\ (Shrinks \/ \E t \in Tickets : Launch(p, t))
<1> DEFINE Cycles == [Polls -> Cycle \cup {NoCycle}]
           Typed == /\ ticket' \in [Tickets -> OshalTicketState]
                    /\ qm' \in Tracking
                    /\ poll' \in Cycles /\ dispatch' \in Calls
                    /\ escalating' \in
                         SUBSET (Tickets \X (OshalTicketState \cup {None}))
<1>1. /\ qm \in Tracking /\ ticket \in [Tickets -> OshalTicketState]
      /\ poll \in Cycles /\ dispatch \in Calls
      /\ escalating \in SUBSET (Tickets \X (OshalTicketState \cup {None}))
  BY DEF TypeOK, Calls
<1>2. {"approved", "escalated"} \subseteq OshalTicketState
  BY DEF OshalTicketState
<1>3. ASSUME PollCapacity(p) PROVE Typed /\ Shrinks
  <2>1. poll[p] \in Cycle
    BY <1>3, PollingType DEF PollCapacity
  <2>2. Cardinality(qm.active) >= MaxConcurrent
          \/ MaxConcurrent - Cardinality(qm.active) \in Nat
    BY <1>1, SlotsFinite, LimitsAssumption
  <2>3. poll' \in Cycles
    BY <1>3, <2>1, <2>2, CycleUpdates, AdvanceType DEF PollCapacity
  <2> QED BY <1>1, <1>3, <2>3 DEF PollCapacity, Shrinks, Calls
<1>4. ASSUME NEW t \in Tickets, sweepAutoStartTickets(p, t)
      PROVE  Typed /\ Shrinks
  BY <1>1, <1>2, <1>4, ObservedMoveType DEF sweepAutoStartTickets, Shrinks
<1>5. ASSUME PollList(p) PROVE Typed /\ Shrinks
  <2>1. poll[p] \in Cycle
    BY <1>5, PollingType DEF PollList
  <2>2. PICK broken \in SUBSET Tickets, listed \in SUBSET Tickets :
          /\ Advance(p, [poll[p] EXCEPT !.pc = "deferred",
                                        !.candidates = listed])
          /\ escalating' = escalating \cup (broken \X {None})
    <3> DEFINE waiting == {t \in Tickets \ qm.active : ticket[t] = "approved"}
               b == {t \in waiting : qm.count[t] >= MaxDispatchAttempts}
    <3>1. /\ b \in SUBSET Tickets /\ waiting \ b \in SUBSET Tickets
          /\ Advance(p, [poll[p] EXCEPT !.pc = "deferred",
                                        !.candidates = waiting \ b])
          /\ escalating' = escalating \cup (b \X {None})
      BY <1>5 DEF PollList
    <3> QED BY <3>1
  <2>3. poll' \in Cycles
    BY <2>1, <2>2, CycleUpdates, AdvanceType
  <2>4. escalating' \in SUBSET (Tickets \X (OshalTicketState \cup {None}))
    BY <1>1, <2>2
  <2> QED BY <1>1, <1>5, <2>3, <2>4 DEF PollList, Shrinks, Calls
<1>6. ASSUME PollFails(p) \/ PollEnd(p) PROVE Typed /\ Shrinks
  <2>1. poll' \in Cycles
    BY <1>6, AdvanceType DEF PollFails, PollEnd
  <2> QED BY <1>1, <1>6, <2>1 DEF PollFails, PollEnd, Shrinks, Calls
<1>7. ASSUME PollDeferred(p) PROVE Typed /\ Shrinks
  <2>1. poll[p] \in Cycle
    BY <1>7, PollingType DEF PollDeferred
  <2>2. \E stale \in SUBSET Tickets :
          Advance(p, [poll[p] EXCEPT !.pc = "recovering", !.stale = stale])
    BY <1>7 DEF PollDeferred
  <2>3. poll' \in Cycles
    BY <2>1, <2>2, CycleUpdates, AdvanceType
  <2> QED BY <1>1, <1>7, <2>3 DEF PollDeferred, Shrinks, Calls
<1>8. ASSUME NEW t \in Tickets, Recover(p, t) PROVE Typed /\ Shrinks
  <2> DEFINE to == IF qm.count[t] >= MaxDispatchAttempts THEN "escalated"
                                                          ELSE "approved"
             tried == IF to = "approved"
                        THEN [qm EXCEPT !.recovered = @ \cup {t}] ELSE qm
  <2>1. poll[p] \in Cycle
    BY <1>8, PollingType DEF Recover
  <2>2. tried \in Tracking /\ tried.active = qm.active
    BY <1>1 DEF Tracking
  <2>3. to \in OshalTicketState
    BY <1>2
  <2>4. \E S \in SUBSET Tickets : Advance(p, [poll[p] EXCEPT !.stale = S])
    <3>1. poll[p].stale \in SUBSET Tickets
      BY <2>1 DEF Cycle
    <3>2. \/ Advance(p, [poll[p] EXCEPT !.stale = @ \ {t}])
          \/ Advance(p, [poll[p] EXCEPT !.stale = {}])
      BY <1>8 DEF Recover
    <3> QED BY <3>1, <3>2
  <2>5. poll' \in Cycles
    BY <2>1, <2>4, CycleUpdates, AdvanceType
  <2>6. \/ UNCHANGED <<ticket, qm>>
        \/ Move(t, to) /\ qm' = Observed(tried, t, ticket[t], to)
        \/ qm' = tried /\ UNCHANGED ticket
    BY <1>8 DEF Recover
  <2>7. UNCHANGED <<dispatch, escalating>>
    BY <1>8 DEF Recover
  <2> HIDE DEF to, tried
  <2>8. ticket' \in [Tickets -> OshalTicketState] /\ Shrinks
    BY <1>1, <2>2, <2>3, <2>6, MoveType, TrackingType DEF Shrinks
  <2> QED BY <1>1, <2>5, <2>7, <2>8 DEF Shrinks, Calls
<1>9. ASSUME PollRecovered(p) PROVE Typed /\ Shrinks
  <2>1. poll[p] \in Cycle
    BY <1>9, PollingType DEF PollRecovered
  <2>2. poll' \in Cycles
    BY <1>9, <2>1, CycleUpdates, AdvanceType DEF PollRecovered
  <2> QED BY <1>1, <1>9, <2>2 DEF PollRecovered, Shrinks, Calls
<1>10. ASSUME NEW t \in Tickets, Consider(p, t) PROVE Typed /\ Shrinks
  <2>1. poll[p] \in Cycle
    BY <1>10, PollingType DEF Consider
  <2>2. \E S \in SUBSET Tickets, B \in SUBSET Tickets :
          Advance(p, [poll[p] EXCEPT !.candidates = S, !.batch = B])
    <3>1. /\ poll[p].candidates \ {t} \in SUBSET Tickets
          /\ (IF ticket[t] = "approved" THEN poll[p].batch \cup {t}
                                        ELSE poll[p].batch) \in SUBSET Tickets
      BY <2>1 DEF Cycle
    <3>2. Advance(p, [poll[p] EXCEPT !.candidates = @ \ {t},
                        !.batch = IF ticket[t] = "approved" THEN @ \cup {t}
                                                            ELSE @])
      BY <1>10 DEF Consider
    <3> QED BY <3>1, <3>2
  <2>3. poll' \in Cycles
    BY <2>1, <2>2, CycleUpdates, AdvanceType
  <2> QED BY <1>1, <1>10, <2>3 DEF Consider, Shrinks, Calls
<1>11. ASSUME PollBatched(p) PROVE Typed /\ Shrinks
  <2>1. poll[p] \in Cycle
    BY <1>11, PollingType DEF PollBatched
  <2>2. Advance(p, [poll[p] EXCEPT !.pc = "launching", !.candidates = {}])
    BY <1>11 DEF PollBatched
  <2>3. poll' \in Cycles
    BY <2>1, <2>2, CycleUpdates, AdvanceType
  <2> QED BY <1>1, <1>11, <2>3 DEF PollBatched, Shrinks, Calls
<1>12. ASSUME NEW t \in Tickets,
              Launch(p, t) \/ Skip(p, t) \/ Refuse(p, t)
       PROVE  Typed /\ (Shrinks \/ Launch(p, t))
  <2>1. poll[p] \in Cycle
    BY <1>12, PollingType DEF Launch, Skip, Refuse
  <2>2. poll[p].batch \ {t} \in SUBSET Tickets
    BY <2>1 DEF Cycle
  <2>3. Advance(p, [poll[p] EXCEPT !.batch = @ \ {t}])
    BY <1>12 DEF Launch, Skip, Refuse
  <2>4. poll' \in Cycles
    BY <2>1, <2>2, <2>3, CycleUpdates, AdvanceType
  <2>5. CASE Launch(p, t)
    <3>1. PICK d \in Dispatches : dispatch' = [dispatch EXCEPT ![d] =
                [pc |-> "entering", ticket |-> t, seen |-> None]]
      BY <2>5 DEF Launch
    <3>2. [pc |-> "entering", ticket |-> t, seen |-> None] \in Call
      BY DEF Call, Step
    <3>3. dispatch' \in Calls
      BY <1>1, <3>1, <3>2 DEF Calls
    <3>4. qm' \in Tracking
      BY <1>1, <2>5 DEF Launch, Tracking
    <3> QED BY <1>1, <2>4, <2>5, <3>3, <3>4 DEF Launch
  <2>6. CASE Skip(p, t)
    BY <1>1, <2>4, <2>6 DEF Skip, Shrinks, Calls
  <2>7. CASE Refuse(p, t)
    BY <1>1, <1>2, <2>4, <2>7, ObservedMoveType DEF Refuse, Shrinks
  <2> QED BY <1>12, <2>5, <2>6, <2>7
<1>13. /\ UNCHANGED <<dlq, moves, recoveryVars>>
       /\ Typed /\ (Shrinks \/ \E t \in Tickets : Launch(p, t))
  <2>1. UNCHANGED <<dlq, moves, recoveryVars>>
    BY DEF PollPhase, PollOnly
  <2>2. CASE PollCapacity(p) \/ PollList(p) \/ PollFails(p) \/ PollDeferred(p)
              \/ PollRecovered(p) \/ PollBatched(p) \/ PollEnd(p)
    BY <1>3, <1>5, <1>6, <1>7, <1>9, <1>11, <2>1, <2>2
  <2>3. CASE \E t \in Tickets : \/ sweepAutoStartTickets(p, t)
                                \/ Recover(p, t) \/ Consider(p, t)
                                \/ Launch(p, t) \/ Skip(p, t) \/ Refuse(p, t)
    BY <1>4, <1>8, <1>10, <1>12, <2>1, <2>3
  <2> QED BY <2>2, <2>3 DEF PollPhase
<1> QED BY <1>13 DEF TypeOK, Calls, recoveryVars

\* Everybody else's steps take no slot and are no part of a cycle.
Outside ==
    \/ \E p \in Polls, t \in Tickets : Reroute(p, t)
    \/ \E t \in Tickets : EscalationStep(t) \/ OtherActor(t)
                             \/ recoverOrphanedTickets(t)
    \/ ListOrphans

LEMMA OutsideType ==
    ASSUME TypeOK, Outside
    PROVE  TypeOK' /\ Shrinks /\ UNCHANGED poll
<1>1. qm \in Tracking
  BY DEF TypeOK
<1>2. {"approved", "escalated", "dead_letter"} \subseteq OshalTicketState
  BY DEF OshalTicketState
<1>3. moves < MoveBound => moves + 1 \in 0 .. MoveBound
  BY LimitsAssumption DEF TypeOK
<1>4. CASE \E p \in Polls, t \in Tickets : Reroute(p, t)
  <2>1. PICK t \in Tickets, to \in {"approved", "escalated"} :
          ObservedMove(t, to)
    BY <1>4 DEF Reroute
  <2>2. ticket' \in [Tickets -> OshalTicketState] /\ Shrinks
    BY <1>2, <2>1, ObservedMoveType
  <2> QED BY <1>3, <1>4, <2>2 DEF Reroute, TypeOK, Shrinks, recoveryVars
<1>5. CASE \E t \in Tickets : EscalationStep(t)
  <2>1. PICK t \in Tickets : EscalationStep(t)
    BY <1>5
  <2>2. CASE ReadForEscalation(t)
    BY <1>1, <2>1, <2>2
       DEF ReadForEscalation, EscalationStep, EscalationOnly, TypeOK, Shrinks,
           recoveryVars
  <2>3. CASE \E seen \in OshalTicketState : CommitEscalation(t, seen)
    <3>1. PICK seen \in OshalTicketState : CommitEscalation(t, seen)
      BY <2>3
    <3>2. ticket' \in [Tickets -> OshalTicketState] /\ Shrinks
      BY <1>1, <1>2, <3>1, ObservedMoveType
         DEF CommitEscalation, Shrinks, TypeOK
    <3>3. escalating' \in SUBSET (Tickets \X (OshalTicketState \cup {None}))
      BY <3>1 DEF CommitEscalation, TypeOK
    <3> QED
      BY <2>1, <3>2, <3>3
         DEF EscalationStep, EscalationOnly, TypeOK, Shrinks, recoveryVars
  <2> QED BY <2>1, <2>2, <2>3 DEF EscalationStep
<1>6. CASE \E t \in Tickets : OtherActor(t)
  <2>1. PICK t \in Tickets : OtherActor(t)
    BY <1>6
  <2>2. \E to \in OshalTicketState : ObservedMove(t, to)
    BY <1>2, <2>1, RequestedAssumption
       DEF OtherActor, OperatorMove, QuarantineEscalated, RequeueDeadLetter
  <2>3. ticket' \in [Tickets -> OshalTicketState] /\ Shrinks
    BY <2>2, ObservedMoveType
  <2>4. dlq' \in SUBSET Tickets
    BY <2>1 DEF OtherActor, OperatorMove, QuarantineEscalated,
                RequeueDeadLetter, TypeOK
  <2> QED BY <1>3, <2>1, <2>3, <2>4 DEF OtherActor, TypeOK, Shrinks, recoveryVars
<1>7. CASE \E t \in Tickets : recoverOrphanedTickets(t)
  <2>1. PICK t \in Tickets : recoverOrphanedTickets(t)
    BY <1>7
  <2>2. ticket' \in [Tickets -> OshalTicketState] /\ Shrinks
    BY <1>1, <1>2, <2>1, ObservedMoveType
       DEF recoverOrphanedTickets, Shrinks, TypeOK
  <2> QED BY <2>1, <2>2 DEF recoverOrphanedTickets, TypeOK, Shrinks
<1>8. CASE ListOrphans
  BY <1>1, <1>8 DEF ListOrphans, TypeOK, Shrinks
<1> QED BY <1>4, <1>5, <1>6, <1>7, <1>8 DEF Outside

LEMMA RestartType ==
    ASSUME TypeOK, Restart
    PROVE  TypeOK'
<1>1. NoTracking \in Tracking
  BY DEF NoTracking, Tracking
<1>2. restarts' \in 0 .. RestartBound
  BY LimitsAssumption DEF TypeOK, Restart
<1> QED BY <1>1, <1>2 DEF TypeOK, Restart

\* Next, by who takes the step.
LEMMA NextCases ==
    ASSUME Next
    PROVE  \/ \E d \in Dispatches : DispatchStep(d)
           \/ \E p \in Polls : PollStart(p) \/ PollPhase(p)
           \/ Outside \/ Restart
BY DEF Next, RunStep, StartStep, PollStep, Outside

LEMMA TypeInit ==
    ASSUME Init
    PROVE  TypeOK
<1>1. NoTracking \in Tracking
  BY DEF NoTracking, Tracking
<1>2. {"backlog", "approved"} \subseteq OshalTicketState
  BY DEF OshalTicketState
<1>3. 0 \in 0 .. MoveBound /\ 0 \in 0 .. RestartBound
  BY LimitsAssumption
<1>4. ticket \in [Tickets -> OshalTicketState]
  BY <1>2 DEF Init
<1> QED BY <1>1, <1>3, <1>4 DEF Init, TypeOK

LEMMA TypeStep ==
    ASSUME TypeOK, [Next]_vars
    PROVE  TypeOK'
<1>1. CASE Next
  BY <1>1, NextCases, DispatchStepSafe, PollStartType, PollPhaseType,
     OutsideType, RestartType
<1>2. CASE UNCHANGED vars
  BY <1>2 DEF TypeOK, vars, recoveryVars
<1> QED BY <1>1, <1>2

\* The tracking, the cycles, the dispatches and their bounds are what their
\* declarations say, whatever interleaves.
THEOREM TypeCorrect == Spec => []TypeOK
<1>1. Init => TypeOK
  BY TypeInit
<1>2. TypeOK /\ [Next]_vars => TypeOK'
  BY TypeStep
<1> QED BY <1>1, <1>2, PTL DEF Spec

(***************************************************************************)
(* Capacity.                                                               *)
(***************************************************************************)

\* Fewer slots taken leave the room that was counted free.
LEMMA FewerSlots ==
    ASSUME TypeOK, Shrinks
    PROVE  /\ Cardinality(qm.active) \in Nat /\ Cardinality(qm'.active) \in Nat
           /\ Cardinality(qm'.active) <= Cardinality(qm.active)
<1>1. qm \in Tracking /\ qm' \in Tracking /\ qm'.active \in SUBSET qm.active
  BY DEF TypeOK, Shrinks
<1> QED BY <1>1, SlotsFinite, FS_Subset

\* A step that is no part of a cycle and takes no slot.
LEMMA OutsideSafe ==
    ASSUME IInv, TypeOK', Shrinks, UNCHANGED poll
    PROVE  IInv'
<1>1. /\ Cardinality(qm.active) \in Nat /\ Cardinality(qm'.active) \in Nat
      /\ Cardinality(qm'.active) <= Cardinality(qm.active)
  BY FewerSlots DEF IInv
<1>2. SlotsWithinCapacity' /\ OneCycle'
  BY <1>1, LimitsAssumption DEF IInv, SlotsWithinCapacity, OneCycle
<1>3. ASSUME NEW p \in Polls, poll[p] # NoCycle PROVE RoomIsFree(p)'
  <2>1. poll[p] \in Cycle /\ RoomIsFree(p)
    BY <1>3 DEF IInv, TypeOK
  <2>2. /\ poll[p].room \in Nat /\ poll[p].batch \in SUBSET Tickets
        /\ Cardinality(poll[p].batch) \in Nat
    BY <2>1, TicketsAssumption, FS_Subset, FS_CardinalityType DEF Cycle
  <2> QED BY <1>1, <2>1, <2>2, LimitsAssumption DEF RoomIsFree
<1> QED BY <1>2, <1>3 DEF IInv

\* A step of the only cycle there is.
LEMMA AdvanceSafe ==
    ASSUME IInv, TypeOK', NEW p \in Polls, NEW cycle, Advance(p, cycle),
           \A o \in Polls : poll[o] # NoCycle => o = p,
           SlotsWithinCapacity', cycle # NoCycle => RoomIsFree(p)'
    PROVE  IInv'
<1>1. /\ poll'[p] = cycle
      /\ \A o \in Polls : o # p => poll'[o] = NoCycle
  BY DEF Advance, IInv, TypeOK
<1>2. OneCycle'
  BY <1>1 DEF OneCycle
<1> QED BY <1>1, <1>2 DEF IInv

LEMMA PollStartSafe ==
    ASSUME IInv, NEW p \in Polls, PollStart(p)
    PROVE  IInv'
<1>1. TypeOK' /\ Shrinks
  BY PollStartType DEF IInv
<1>2. SlotsWithinCapacity'
  BY <1>1, FewerSlots, LimitsAssumption DEF IInv, SlotsWithinCapacity
<1>3. \A o \in Polls : poll[o] = NoCycle
  BY DEF PollStart, pollCycleInProgress
<1> DEFINE cycle == [pc |-> "rerouting", room |-> 0, candidates |-> {},
                     stale |-> {}, batch |-> {}]
<1>4. Advance(p, cycle)
  BY DEF PollStart
<1>5. cycle \in Cycle
  BY DEF Cycle
<1>6. poll'[p] = cycle
  BY <1>4, <1>5, AdvanceType DEF IInv
<1>7. RoomIsFree(p)'
  BY <1>6 DEF RoomIsFree
<1> QED BY <1>1, <1>2, <1>3, <1>4, <1>7, AdvanceSafe

LEMMA PollPhaseSafe ==
    ASSUME IInv, NEW p \in Polls, PollPhase(p)
    PROVE  IInv'
<1> DEFINE A == Cardinality(qm.active)
           N(c) == Cardinality(c.batch)
<1>1. TypeOK /\ TypeOK' /\ (Shrinks \/ \E t \in Tickets : Launch(p, t))
  BY PollPhaseType DEF IInv
<1>2. poll[p] # NoCycle /\ poll[p] \in Cycle
  <2>1. \E pc : Polling(p, pc)
    BY DEF PollPhase, PollCapacity, PollList, PollFails, PollDeferred,
           PollRecovered, PollBatched, PollEnd, sweepAutoStartTickets,
           Recover, Consider, Launch, Skip, Refuse
  <2> QED BY <1>1, <2>1, PollingType
<1>3. \A o \in Polls : poll[o] # NoCycle => o = p
  BY <1>2 DEF IInv, OneCycle
<1>4. /\ poll[p].room \in Nat
      /\ poll[p].batch \in SUBSET Tickets /\ IsFiniteSet(poll[p].batch)
      /\ N(poll[p]) \in Nat
  BY <1>2, TicketsAssumption, FS_Subset, FS_CardinalityType DEF Cycle
<1>5. /\ Shrinks => A' \in Nat /\ A' <= A
      /\ A \in Nat /\ A <= MaxConcurrent /\ MaxConcurrent \in Nat
  <2>1. A \in Nat
    BY <1>1, SlotsFinite DEF TypeOK
  <2> QED
    BY <1>1, <2>1, FewerSlots, LimitsAssumption DEF IInv, SlotsWithinCapacity
<1>6. Shrinks => SlotsWithinCapacity'
  BY <1>5 DEF SlotsWithinCapacity
<1>7. RoomIsFree(p)
  BY <1>2 DEF IInv
<1>8. ASSUME Advance(p, NoCycle), Shrinks PROVE IInv'
  BY <1>1, <1>3, <1>6, <1>8, AdvanceSafe
\* A cycle that keeps its batch and its room stays within it.
<1>9. ASSUME NEW cycle \in Cycle, Advance(p, cycle), Shrinks,
             \/ cycle.pc = poll[p].pc
             \/ /\ poll[p].pc \in {"listing", "deferred", "recovering"}
                /\ cycle.pc \in {"deferred", "recovering", "batching"},
             cycle.room = poll[p].room, cycle.batch = poll[p].batch
      PROVE  IInv'
  <2>1. poll'[p] = cycle
    BY <1>1, <1>9, AdvanceType
  <2>2. Cardinality({}) = 0
    BY FS_EmptySet
  <2>3. CASE cycle.pc = poll[p].pc
    <3>1. A' <= A /\ A' \in Nat
      BY <1>5, <1>9
    <3>2. RoomIsFree(p)'
      BY <1>4, <1>5, <1>7, <1>9, <2>1, <2>3, <3>1 DEF RoomIsFree
    <3> QED BY <1>1, <1>3, <1>6, <1>9, <3>2, AdvanceSafe
  <2>4. CASE /\ poll[p].pc \in {"listing", "deferred", "recovering"}
             /\ cycle.pc \in {"deferred", "recovering", "batching"}
    <3>1. A' <= A /\ A' \in Nat
      BY <1>5, <1>9
    <3>2. cycle.batch = {} /\ A + cycle.room <= MaxConcurrent
      BY <1>7, <1>9, <2>4 DEF RoomIsFree
    <3>3. A' + cycle.room <= MaxConcurrent
      BY <1>4, <1>5, <1>9, <3>1, <3>2
    <3>4. Cardinality(cycle.batch) <= cycle.room
      BY <1>4, <1>9, <2>2, <3>2
    <3>5. RoomIsFree(p)'
      BY <2>1, <2>4, <3>2, <3>3, <3>4 DEF RoomIsFree
    <3> QED BY <1>1, <1>3, <1>6, <1>9, <3>5, AdvanceSafe
  <2> QED BY <1>9, <2>3, <2>4
<1>10. CASE PollFails(p) \/ PollEnd(p)
  <2>1. Advance(p, NoCycle) /\ Shrinks
    BY <1>1, <1>10 DEF PollFails, PollEnd, TypeOK, Shrinks
  <2> QED BY <1>8, <2>1
<1>11. CASE PollCapacity(p)
  <2>1. Shrinks /\ A' = A
    BY <1>1, <1>11 DEF PollCapacity, TypeOK, Shrinks
  <2>2. CASE A >= MaxConcurrent
    BY <1>8, <1>11, <2>1, <2>2 DEF PollCapacity
  <2>3. CASE ~(A >= MaxConcurrent)
    <3> DEFINE cycle == [poll[p] EXCEPT !.pc = "listing",
                                        !.room = MaxConcurrent - A]
    <3>1. Advance(p, cycle) /\ poll[p].pc = "rerouting"
      BY <1>11, <2>3 DEF PollCapacity, Polling
    <3>2. MaxConcurrent - A \in Nat
      BY <1>5, <2>3
    <3>3. cycle \in Cycle
      BY <1>2, <3>2, CycleUpdates
    <3>4. /\ cycle.pc = "listing" /\ cycle.room = MaxConcurrent - A
          /\ cycle.batch = poll[p].batch
      BY <1>2 DEF Cycle
    <3>5. poll'[p] = cycle
      BY <1>1, <3>1, <3>3, AdvanceType
    <3> HIDE DEF cycle
    <3>6. RoomIsFree(p)'
      BY <1>5, <1>7, <2>1, <3>1, <3>2, <3>4, <3>5 DEF RoomIsFree
    <3> QED BY <1>1, <1>3, <1>6, <2>1, <3>1, <3>6, AdvanceSafe
  <2> QED BY <2>2, <2>3
<1>12. CASE \E t \in Tickets : sweepAutoStartTickets(p, t)
  <2>1. UNCHANGED poll
    BY <1>12 DEF sweepAutoStartTickets
  <2>2. Shrinks
    BY <1>1, <1>12, ObservedMoveType
       DEF sweepAutoStartTickets, OshalTicketState
  <2> QED BY <1>1, <2>1, <2>2, OutsideSafe
<1>13. CASE PollList(p)
  <2>1. PICK S \in SUBSET Tickets :
          Advance(p, [poll[p] EXCEPT !.pc = "deferred", !.candidates = S])
    <3> DEFINE waiting == {t \in Tickets \ qm.active : ticket[t] = "approved"}
               b == {t \in waiting : qm.count[t] >= MaxDispatchAttempts}
    <3>1. /\ waiting \ b \in SUBSET Tickets
          /\ Advance(p, [poll[p] EXCEPT !.pc = "deferred",
                                        !.candidates = waiting \ b])
      BY <1>13 DEF PollList
    <3> QED BY <3>1
  <2>2. Shrinks /\ poll[p].pc = "listing"
    BY <1>1, <1>13 DEF PollList, Polling, TypeOK, Shrinks
  <2> DEFINE cycle == [poll[p] EXCEPT !.pc = "deferred", !.candidates = S]
  <2>3. /\ cycle \in Cycle /\ cycle.pc = "deferred"
        /\ cycle.room = poll[p].room /\ cycle.batch = poll[p].batch
    BY <1>2 DEF Cycle
  <2> QED BY <1>9, <2>1, <2>2, <2>3
<1>14. CASE PollDeferred(p)
  <2>1. PICK S \in SUBSET Tickets :
          Advance(p, [poll[p] EXCEPT !.pc = "recovering", !.stale = S])
    BY <1>14 DEF PollDeferred
  <2>2. Shrinks /\ poll[p].pc = "deferred"
    BY <1>1, <1>14 DEF PollDeferred, Polling, TypeOK, Shrinks
  <2> DEFINE cycle == [poll[p] EXCEPT !.pc = "recovering", !.stale = S]
  <2>3. /\ cycle \in Cycle /\ cycle.pc = "recovering"
        /\ cycle.room = poll[p].room /\ cycle.batch = poll[p].batch
    BY <1>2 DEF Cycle
  <2> QED BY <1>9, <2>1, <2>2, <2>3
<1>15. CASE \E t \in Tickets : Recover(p, t)
  <2>1. PICK t \in Tickets : Recover(p, t)
    BY <1>15
  <2>2. PICK S \in SUBSET Tickets : Advance(p, [poll[p] EXCEPT !.stale = S])
    <3>1. poll[p].stale \in SUBSET Tickets
      BY <1>2 DEF Cycle
    <3>2. \/ Advance(p, [poll[p] EXCEPT !.stale = @ \ {t}])
          \/ Advance(p, [poll[p] EXCEPT !.stale = {}])
      BY <2>1 DEF Recover
    <3> QED BY <3>1, <3>2
  <2>3. Shrinks
    <3>1. poll[p].pc = "recovering"
      BY <2>1 DEF Recover, Polling
    <3>2. \A u \in Tickets : ~Launch(p, u)
      BY <3>1 DEF Launch, Polling
    <3> QED BY <1>1, <3>2
  <2> DEFINE cycle == [poll[p] EXCEPT !.stale = S]
  <2>4. /\ cycle \in Cycle /\ cycle.pc = poll[p].pc
        /\ cycle.room = poll[p].room /\ cycle.batch = poll[p].batch
    BY <1>2 DEF Cycle
  <2> QED BY <1>9, <2>2, <2>3, <2>4
<1>16. CASE PollRecovered(p)
  <2>1. Shrinks /\ poll[p].pc = "recovering"
    BY <1>1, <1>16 DEF PollRecovered, Polling, TypeOK, Shrinks
  <2> DEFINE cycle == [poll[p] EXCEPT !.pc = "batching"]
  <2>2. Advance(p, cycle)
    BY <1>16 DEF PollRecovered
  <2>3. /\ cycle \in Cycle /\ cycle.pc = "batching"
        /\ cycle.room = poll[p].room /\ cycle.batch = poll[p].batch
    BY <1>2 DEF Cycle
  <2> QED BY <1>9, <2>1, <2>2, <2>3
\* The batch grows by one ticket while it is smaller than the room.
<1>17. CASE \E t \in Tickets : Consider(p, t)
  <2>1. PICK t \in Tickets : Consider(p, t)
    BY <1>17
  <2>2. /\ Shrinks /\ A' = A /\ poll[p].pc = "batching"
        /\ N(poll[p]) < poll[p].room
    BY <1>1, <2>1 DEF Consider, Polling, TypeOK, Shrinks
  <2>3. PICK B \in {poll[p].batch, poll[p].batch \cup {t}} :
          Advance(p, [poll[p] EXCEPT !.candidates = @ \ {t}, !.batch = B])
    BY <2>1 DEF Consider
  <2> DEFINE cycle == [poll[p] EXCEPT !.candidates = @ \ {t}, !.batch = B]
  <2>4. /\ cycle \in Cycle /\ cycle.pc = poll[p].pc
        /\ cycle.room = poll[p].room /\ cycle.batch = B
    BY <1>2, <1>4 DEF Cycle
  <2>5. Cardinality(B) \in Nat /\ Cardinality(B) <= poll[p].room
    <3>1. Cardinality(poll[p].batch \cup {t})
            \in {N(poll[p]), N(poll[p]) + 1}
      BY <1>4, FS_AddElement
    <3>2. CASE B = poll[p].batch
      BY <1>4, <2>2, <3>2
    <3>3. CASE B = poll[p].batch \cup {t}
      <4>1. Cardinality(B) \in {N(poll[p]), N(poll[p]) + 1}
        BY <3>1, <3>3
      <4> QED BY <1>4, <2>2, <4>1
    <3> QED BY <3>2, <3>3
  <2> HIDE DEF cycle
  <2>6. Advance(p, cycle)
    BY <2>3 DEF cycle
  <2>7. poll'[p] = cycle
    BY <1>1, <2>4, <2>6, AdvanceType
  <2>8. RoomIsFree(p)'
    BY <1>5, <1>7, <2>2, <2>4, <2>5, <2>7 DEF RoomIsFree
  <2> QED BY <1>1, <1>3, <1>6, <2>2, <2>6, <2>8, AdvanceSafe
<1>18. CASE PollBatched(p)
  <2>1. Shrinks /\ A' = A /\ poll[p].pc = "batching"
    BY <1>1, <1>18 DEF PollBatched, Polling, TypeOK, Shrinks
  <2> DEFINE cycle == [poll[p] EXCEPT !.pc = "launching", !.candidates = {}]
  <2>2. Advance(p, cycle)
    BY <1>18 DEF PollBatched
  <2>3. /\ cycle \in Cycle /\ cycle.pc = "launching"
        /\ cycle.batch = poll[p].batch
    BY <1>2 DEF Cycle
  <2> HIDE DEF cycle
  <2>4. poll'[p] = cycle
    BY <1>1, <2>2, <2>3, AdvanceType
  <2>5. RoomIsFree(p)'
    BY <1>4, <1>5, <1>7, <2>1, <2>3, <2>4 DEF RoomIsFree
  <2> QED BY <1>1, <1>3, <1>6, <2>1, <2>2, <2>5, AdvanceSafe
\* One ticket leaves the batch, and at most one slot is taken for it.
<1>19. CASE \E t \in Tickets : Launch(p, t) \/ Skip(p, t) \/ Refuse(p, t)
  <2>1. PICK t \in Tickets : Launch(p, t) \/ Skip(p, t) \/ Refuse(p, t)
    BY <1>19
  <2> DEFINE cycle == [poll[p] EXCEPT !.batch = @ \ {t}]
  <2>2. /\ Advance(p, cycle) /\ poll[p].pc = "launching"
        /\ t \in poll[p].batch
    BY <2>1 DEF Launch, Skip, Refuse, Polling
  <2>3. /\ cycle \in Cycle /\ cycle.pc = poll[p].pc
        /\ cycle.batch = poll[p].batch \ {t}
    BY <1>2 DEF Cycle
  <2>4. Cardinality(poll[p].batch \ {t}) = N(poll[p]) - 1
    BY <1>4, <2>2, FS_RemoveElement
  <2>5. A' \in Nat /\ A' <= A + 1
    <3>1. CASE Shrinks
      BY <1>5, <3>1
    <3>2. CASE \E u \in Tickets : Launch(p, u)
      <4>1. PICK u \in Tickets : Launch(p, u)
        BY <3>2
      <4>2. qm \in Tracking /\ IsFiniteSet(qm.active)
        BY <1>1, SlotsFinite DEF TypeOK
      <4>3. qm'.active = qm.active \cup {u}
        BY <4>1, <4>2 DEF Launch, Tracking
      <4>4. Cardinality(qm.active \cup {u}) \in {A, A + 1}
        BY <4>2, FS_AddElement
      <4> QED BY <1>5, <4>3, <4>4
    <3> QED BY <1>1, <3>1, <3>2
  <2> HIDE DEF cycle
  <2>6. poll'[p] = cycle
    BY <1>1, <2>2, <2>3, AdvanceType
  <2>7. A' + Cardinality(cycle.batch) <= MaxConcurrent
          /\ Cardinality(cycle.batch) \in Nat
    <3>1. Cardinality(poll[p].batch \ {t}) \in Nat
      BY <1>4, FS_RemoveElement, FS_CardinalityType
    <3>2. A + N(poll[p]) <= MaxConcurrent
      BY <1>7, <2>2 DEF RoomIsFree
    <3> QED BY <1>4, <1>5, <2>3, <2>4, <2>5, <3>1, <3>2
  <2>8. RoomIsFree(p)'
    BY <2>2, <2>3, <2>6, <2>7 DEF RoomIsFree
  <2>9. A' <= MaxConcurrent
    BY <1>5, <2>5, <2>7
  <2>10. SlotsWithinCapacity'
    BY <2>9 DEF SlotsWithinCapacity
  <2> QED BY <1>1, <1>3, <2>2, <2>8, <2>10, AdvanceSafe
<1> QED
  BY <1>10, <1>11, <1>12, <1>13, <1>14, <1>15, <1>16, <1>17, <1>18, <1>19
     DEF PollPhase

LEMMA RestartSafe ==
    ASSUME IInv, Restart
    PROVE  IInv'
<1>1. TypeOK'
  BY RestartType DEF IInv
<1>2. SlotsWithinCapacity'
  BY FS_EmptySet, LimitsAssumption
     DEF Restart, NoTracking, SlotsWithinCapacity
<1> QED BY <1>1, <1>2 DEF IInv, OneCycle, Restart

LEMMA IInvInit ==
    ASSUME Init
    PROVE  IInv
<1>1. SlotsWithinCapacity
  BY FS_EmptySet, LimitsAssumption DEF Init, NoTracking, SlotsWithinCapacity
<1> QED BY <1>1, TypeInit DEF IInv, OneCycle, Init

LEMMA IInvStep ==
    ASSUME IInv, [Next]_vars
    PROVE  IInv'
<1>1. CASE \E d \in Dispatches : DispatchStep(d)
  BY <1>1, DispatchStepSafe, OutsideSafe DEF IInv
<1>2. CASE Outside
  BY <1>2, OutsideType, OutsideSafe DEF IInv
<1>3. CASE UNCHANGED vars
  <2>1. TypeOK' /\ Shrinks /\ UNCHANGED poll
    BY <1>3, TypeStep DEF IInv, TypeOK, Shrinks, vars
  <2> QED BY <2>1, OutsideSafe
<1> QED
  BY <1>1, <1>2, <1>3, NextCases, PollStartSafe, PollPhaseSafe, RestartSafe

\* However dispatches, sweeps, watchdogs and other actors interleave with a
\* poll cycle, it never takes more slots than MaxConcurrent.
THEOREM CapacityHolds == Spec => []SlotsWithinCapacity
<1>1. Init => IInv
  BY IInvInit
<1>2. IInv /\ [Next]_vars => IInv'
  BY IInvStep
<1>3. IInv => SlotsWithinCapacity
  BY DEF IInv
<1> QED BY <1>1, <1>2, <1>3, PTL DEF Spec
=============================================================================
