---------------------- MODULE QueueManagerClaimProofs ----------------------
(***************************************************************************)
(* No slot and no abort flag of the queue manager ever leaks.              *)
(*                                                                         *)
(* Taken apart the two are not inductive: the listener turns a slot into   *)
(* a flag.  Together they are: a ticket that has a slot or a flag (a claim *)
(* on a dispatch) has a dispatch that will return, and on returning a      *)
(* dispatch takes back both, whoever raised them and for whichever of the  *)
(* ticket's dispatches.                                                    *)
(***************************************************************************)
EXTENDS QueueManagerProofs

Claims(q) == q.active \cup q.aborted

\* The inductive invariant.
ClaimsHaveDispatches == \A t \in Claims(qm) : DispatchesOf(t) # {}

ClaimInv == TypeOK /\ ClaimsHaveDispatches

(***************************************************************************)
(* What a step does to the claims.                                         *)
(***************************************************************************)
NoNewClaims == Claims(qm') \subseteq Claims(qm)

\* A dispatch goes on for the same ticket, or returns and leaves no claim.
KeepsOrEnds(d) ==
    /\ NoNewClaims
    /\ \A e \in Dispatches \ {d} : dispatch'[e] = dispatch[e]
    /\ \/ /\ dispatch'[d] # NoCall
          /\ dispatch'[d].ticket = dispatch[d].ticket
       \/ dispatch[d].ticket \notin Claims(qm')

LEMMA TrackingClaims ==
    ASSUME NEW q \in Tracking, NEW t \in Tickets, NEW from, NEW to
    PROVE  /\ Claims(Freed(q, t)) \subseteq Claims(q)
           /\ Claims(Forgotten(q, t)) = Claims(q)
           /\ Claims(Released(q, t)) \subseteq Claims(q) \ {t}
           /\ Claims(Observed(q, t, from, to)) \subseteq Claims(q)
<1>1. Claims(Freed(q, t)) \subseteq Claims(q)
  BY DEF Tracking, Claims, Freed
<1>2. Claims(Forgotten(q, t)) = Claims(q)
  BY DEF Tracking, Claims, Forgotten
<1>3. Claims(Released(q, t)) \subseteq Claims(q) \ {t}
  BY DEF Tracking, Claims, Released, Freed
<1>4. Claims(Observed(q, t, from, to)) \subseteq Claims(q)
  BY DEF Tracking, Claims, Observed, Freed, Forgotten
<1> QED BY <1>1, <1>2, <1>3, <1>4

LEMMA CallIsNoNoCall == NoCall \notin Call
BY DEF NoCall, Call, Step, Writing

LEMMA ContinueClaims ==
    ASSUME TypeOK, NEW d \in Dispatches, Running(d), NEW pc \in Step,
           NEW q \in Tracking, Claims(q) \subseteq Claims(qm),
           Continue(d, pc, q)
    PROVE  KeepsOrEnds(d)
<1>1. /\ [[dispatch[d] EXCEPT !.pc = pc] EXCEPT !.seen = None] \in Call
      /\ [[dispatch[d] EXCEPT !.pc = pc] EXCEPT !.seen = None].ticket
           = dispatch[d].ticket
  BY RunningCall DEF Call
<1>2. dispatch' = [dispatch EXCEPT
                     ![d] = [[dispatch[d] EXCEPT !.pc = pc] EXCEPT
                               !.seen = None]]
  BY DEF Continue, TypeOK
<1>3. /\ dispatch'[d] = [[dispatch[d] EXCEPT !.pc = pc] EXCEPT !.seen = None]
      /\ \A e \in Dispatches \ {d} : dispatch'[e] = dispatch[e]
  BY <1>2 DEF TypeOK
<1> QED BY <1>1, <1>3, CallIsNoNoCall DEF KeepsOrEnds, NoNewClaims, Continue

LEMMA FinishClaims ==
    ASSUME TypeOK, NEW d \in Dispatches, Running(d),
           NEW q \in Tracking, Claims(q) \subseteq Claims(qm),
           Finish(d, q)
    PROVE  KeepsOrEnds(d)
<1>1. dispatch[d].ticket \in Tickets
  BY RunningCall
<1>2. Claims(qm') \subseteq Claims(q) \ {dispatch[d].ticket}
  BY <1>1, TrackingClaims DEF Finish
<1>3. \A e \in Dispatches \ {d} : dispatch'[e] = dispatch[e]
  BY DEF TypeOK, Finish
<1> QED BY <1>2, <1>3 DEF KeepsOrEnds, NoNewClaims

LEMMA WrittenClaims ==
    ASSUME TypeOK, NEW d \in Dispatches, Running(d),
           NEW q \in Tracking, Claims(q) \subseteq Claims(qm),
           Written(d, q)
    PROVE  KeepsOrEnds(d)
<1> DEFINE f == Forgotten(q, dispatch[d].ticket)
<1>1. f \in Tracking /\ Claims(f) \subseteq Claims(qm)
  BY RunningCall, TrackingType, TrackingClaims
<1>2. {"claimed", "closing"} \subseteq Step
  BY DEF Step
<1>3. \/ Continue(d, "claimed", q) \/ Continue(d, "closing", f)
      \/ Finish(d, f) \/ Finish(d, q)
  BY DEF Written
<1> HIDE DEF f
<1> QED BY <1>1, <1>2, <1>3, ContinueClaims, FinishClaims

LEMMA DispatchStepClaims ==
    ASSUME TypeOK, NEW d \in Dispatches, DispatchStep(d)
    PROVE  KeepsOrEnds(d) /\ Running(d)
<1> DEFINE t == dispatch[d].ticket
<1>1. qm \in Tracking /\ Claims(qm) \subseteq Claims(qm)
  BY DEF TypeOK
<1>2. {"claiming", "claimed", "preparing", "submitted", "failed", "closing",
       "completing", "items_failed", "no_work", "escalating",
       "rolling_back", "breaking"} \subseteq Step
  BY DEF Step, Writing
<1>3. Running(d)
  BY DEF DispatchStep, Rollback, Enter, ReadForWrite, CommitWrite, LoseWrite,
         Prepare, Submit, PipelineReturns, Defer, Throw, FailForGood, Close, At
<1>4. t \in Tickets
  BY <1>3, RunningCall
<1>5. CASE Rollback(d)
  <2>1. Forgotten(qm, t) \in Tracking /\ Claims(Forgotten(qm, t)) = Claims(qm)
    BY <1>1, <1>4, TrackingType, TrackingClaims
  <2>2. \/ Finish(d, Forgotten(qm, t)) \/ Finish(d, qm)
        \/ Continue(d, "rolling_back", qm) \/ Continue(d, "breaking", qm)
    BY <1>5 DEF Rollback
  <2> QED BY <1>1, <1>2, <1>3, <2>1, <2>2, ContinueClaims, FinishClaims
<1>6. CASE Enter(d)
  <2> DEFINE counted == [qm EXCEPT !.count[t] = @ + 1]
  <2>1. counted \in Tracking /\ Claims(counted) = Claims(qm)
    BY <1>1, <1>4 DEF Tracking, Claims
  <2>2. \/ Continue(d, "claiming", counted) \/ Continue(d, "failed", counted)
        \/ Finish(d, counted)
    BY <1>6 DEF Enter
  <2> HIDE DEF counted
  <2> QED BY <1>2, <1>3, <2>1, <2>2, ContinueClaims, FinishClaims
<1>7. CASE ReadForWrite(d)
  <2>1. \/ Written(d, qm) \/ Continue(d, "failed", qm) \/ Finish(d, qm)
        \/ /\ dispatch' = [dispatch EXCEPT ![d].seen = ticket[t]]
           /\ UNCHANGED qm
    BY <1>7 DEF ReadForWrite, WriteFailed
  <2>2. CASE /\ dispatch' = [dispatch EXCEPT ![d].seen = ticket[t]]
             /\ UNCHANGED qm
    <3>1. /\ dispatch'[d] = [dispatch[d] EXCEPT !.seen = ticket[t]]
          /\ \A e \in Dispatches \ {d} : dispatch'[e] = dispatch[e]
      BY <2>2 DEF TypeOK
    <3>2. /\ [dispatch[d] EXCEPT !.seen = ticket[t]] \in Call
          /\ [dispatch[d] EXCEPT !.seen = ticket[t]].ticket = t
      BY <1>3, <1>4, RunningCall DEF Call, TypeOK
    <3> QED
      BY <1>3, <2>2, <3>1, <3>2, CallIsNoNoCall DEF KeepsOrEnds, NoNewClaims
  <2> QED
    BY <1>1, <1>2, <1>3, <2>1, <2>2, WrittenClaims, ContinueClaims,
       FinishClaims
<1>8. CASE CommitWrite(d)
  <2> DEFINE q == Observed(qm, t, ticket[t], Target(d))
  <2>1. q \in Tracking /\ Claims(q) \subseteq Claims(qm)
    BY <1>1, <1>4, TrackingType, TrackingClaims
  <2>2. Written(d, q)
    BY <1>8 DEF CommitWrite
  <2> HIDE DEF q
  <2> QED BY <1>3, <2>1, <2>2, WrittenClaims
<1>9. CASE \/ LoseWrite(d) \/ Prepare(d) \/ Submit(d) \/ PipelineReturns(d)
           \/ Defer(d) \/ Throw(d) \/ FailForGood(d) \/ Close(d)
  <2>1. \/ Finish(d, qm)
        \/ \E pc \in {"preparing", "submitted", "completing", "items_failed",
                      "no_work", "failed", "escalating"} : Continue(d, pc, qm)
    BY <1>9 DEF LoseWrite, Prepare, Submit, PipelineReturns, Defer, Throw,
                FailForGood, Close, Proceed
  <2> QED BY <1>1, <1>2, <1>3, <2>1, ContinueClaims, FinishClaims
<1> QED BY <1>3, <1>5, <1>6, <1>7, <1>8, <1>9 DEF DispatchStep

LEMMA ObservedMoveClaims ==
    ASSUME TypeOK, NEW t \in Tickets, NEW to, ObservedMove(t, to)
    PROVE  NoNewClaims
<1>1. qm \in Tracking
  BY DEF TypeOK
<1> QED BY <1>1, TrackingClaims DEF ObservedMove, NoNewClaims

\* A step that is no dispatch's and launches none.
LEMMA PollStartClaims ==
    ASSUME TypeOK, NEW p \in Polls, PollStart(p)
    PROVE  NoNewClaims /\ UNCHANGED dispatch
<1>1. \E stuck : qm' = [qm EXCEPT !.active = @ \ stuck, !.clocked = @ \ stuck]
  BY DEF PollStart
<1>2. NoNewClaims
  BY <1>1 DEF TypeOK, Tracking, NoNewClaims, Claims
<1> QED BY <1>2 DEF PollStart

LEMMA PollPhaseClaims ==
    ASSUME TypeOK, NEW p \in Polls, PollPhase(p)
    PROVE  \/ NoNewClaims /\ UNCHANGED dispatch
           \/ \E t \in Tickets : Launch(p, t)
<1>1. qm \in Tracking
  BY DEF TypeOK
<1>2. CASE \/ PollCapacity(p) \/ PollList(p) \/ PollFails(p) \/ PollDeferred(p)
           \/ PollRecovered(p) \/ PollBatched(p) \/ PollEnd(p)
  <2>1. UNCHANGED <<qm, dispatch>>
    BY <1>2 DEF PollCapacity, PollList, PollFails, PollDeferred,
                PollRecovered, PollBatched, PollEnd
  <2> QED BY <2>1 DEF NoNewClaims
<1>3. ASSUME NEW t \in Tickets,
             \/ sweepAutoStartTickets(p, t) \/ Consider(p, t)
             \/ Skip(p, t) \/ Refuse(p, t)
      PROVE  NoNewClaims /\ UNCHANGED dispatch
  <2>1. UNCHANGED qm \/ \E to : ObservedMove(t, to)
    BY <1>3 DEF sweepAutoStartTickets, Consider, Skip, Refuse
  <2>2. UNCHANGED dispatch
    BY <1>3 DEF sweepAutoStartTickets, Consider, Skip, Refuse
  <2> QED BY <2>1, <2>2, ObservedMoveClaims DEF NoNewClaims
<1>4. ASSUME NEW t \in Tickets, Recover(p, t)
      PROVE  NoNewClaims /\ UNCHANGED dispatch
  <2> DEFINE to == IF qm.count[t] >= MaxDispatchAttempts THEN "escalated"
                                                          ELSE "approved"
             tried == IF to = "approved"
                        THEN [qm EXCEPT !.recovered = @ \cup {t}] ELSE qm
  <2>1. tried \in Tracking /\ Claims(tried) = Claims(qm)
    BY <1>1 DEF Tracking, Claims
  <2>2. \/ UNCHANGED qm \/ qm' = tried
        \/ qm' = Observed(tried, t, ticket[t], to)
    BY <1>4 DEF Recover
  <2>3. UNCHANGED dispatch
    BY <1>4 DEF Recover
  <2> HIDE DEF to, tried
  <2> QED BY <2>1, <2>2, <2>3, TrackingClaims DEF NoNewClaims
<1> QED BY <1>2, <1>3, <1>4 DEF PollPhase

LEMMA OutsideClaims ==
    ASSUME TypeOK, Outside
    PROVE  NoNewClaims /\ UNCHANGED dispatch
<1>1. UNCHANGED dispatch
  BY DEF Outside, Reroute, EscalationStep, EscalationOnly, OtherActor,
         recoverOrphanedTickets, ListOrphans
<1>2. \/ UNCHANGED qm
      \/ \E t \in Tickets, to \in OshalTicketState : ObservedMove(t, to)
  <2> {"approved", "escalated", "dead_letter"} \subseteq OshalTicketState
    BY DEF OshalTicketState
  <2>1. CASE \E p \in Polls, t \in Tickets : Reroute(p, t)
    BY <2>1 DEF Reroute
  <2>2. CASE \E t \in Tickets : EscalationStep(t)
    BY <2>2 DEF EscalationStep, ReadForEscalation, CommitEscalation
  <2>3. CASE \E t \in Tickets : OtherActor(t)
    BY <2>3, RequestedAssumption
       DEF OtherActor, OperatorMove, QuarantineEscalated, RequeueDeadLetter
  <2>4. CASE \E t \in Tickets : recoverOrphanedTickets(t)
    BY <2>4 DEF recoverOrphanedTickets
  <2>5. CASE ListOrphans
    BY <2>5 DEF ListOrphans
  <2> QED BY <2>1, <2>2, <2>3, <2>4, <2>5 DEF Outside
<1> QED BY <1>1, <1>2, ObservedMoveClaims DEF NoNewClaims

(***************************************************************************)
(* The invariant.                                                          *)
(***************************************************************************)
LEMMA NoNewClaimsSafe ==
    ASSUME ClaimsHaveDispatches, NoNewClaims, UNCHANGED dispatch
    PROVE  ClaimsHaveDispatches'
BY DEF ClaimsHaveDispatches, NoNewClaims, DispatchesOf, Running

LEMMA DispatchStepKeeps ==
    ASSUME ClaimInv, NEW d \in Dispatches, DispatchStep(d)
    PROVE  ClaimsHaveDispatches'
<1>1. KeepsOrEnds(d) /\ Running(d)
  BY DispatchStepClaims DEF ClaimInv
<1> SUFFICES ASSUME NEW t \in Claims(qm')
             PROVE  \E e \in Dispatches : Running(e)' /\ dispatch'[e].ticket = t
  BY DEF ClaimsHaveDispatches, DispatchesOf
<1>2. PICK e \in Dispatches : Running(e) /\ dispatch[e].ticket = t
  BY <1>1 DEF KeepsOrEnds, NoNewClaims, ClaimInv, ClaimsHaveDispatches,
              DispatchesOf
<1>3. CASE e # d
  BY <1>1, <1>2, <1>3 DEF KeepsOrEnds, Running
<1>4. CASE e = d
  BY <1>1, <1>2, <1>4 DEF KeepsOrEnds, Running
<1> QED BY <1>3, <1>4

\* A launch takes the slot and starts the dispatch in the same step.
LEMMA LaunchKeeps ==
    ASSUME ClaimInv, NEW p \in Polls, NEW u \in Tickets, Launch(p, u)
    PROVE  ClaimsHaveDispatches'
<1>1. PICK d \in Dispatches :
        /\ ~Running(d)
        /\ dispatch' = [dispatch EXCEPT ![d] =
             [pc |-> "entering", ticket |-> u, seen |-> None]]
  BY DEF Launch
<1>2. /\ dispatch'[d] = [pc |-> "entering", ticket |-> u, seen |-> None]
      /\ \A e \in Dispatches \ {d} : dispatch'[e] = dispatch[e]
  BY <1>1 DEF ClaimInv, TypeOK
<1>3. dispatch'[d] # NoCall /\ dispatch'[d].ticket = u
  <2>1. dispatch'[d] \in Call
    BY <1>2 DEF Call, Step
  <2> QED BY <1>2, <2>1, CallIsNoNoCall
<1>4. Claims(qm') = Claims(qm) \cup {u}
  BY DEF Launch, ClaimInv, TypeOK, Tracking, Claims
<1> SUFFICES ASSUME NEW t \in Claims(qm')
             PROVE  \E e \in Dispatches : Running(e)' /\ dispatch'[e].ticket = t
  BY DEF ClaimsHaveDispatches, DispatchesOf
<1>5. CASE t = u
  BY <1>3, <1>5 DEF Running
<1>6. CASE t # u
  <2>1. PICK e \in Dispatches : Running(e) /\ dispatch[e].ticket = t
    BY <1>4, <1>6 DEF ClaimInv, ClaimsHaveDispatches, DispatchesOf
  <2> QED BY <1>1, <1>2, <2>1 DEF Running
<1> QED BY <1>5, <1>6

LEMMA ClaimInvInit ==
    ASSUME Init
    PROVE  ClaimInv
<1>1. Claims(qm) = {}
  BY DEF Init, NoTracking, Claims
<1> QED BY <1>1, TypeInit DEF ClaimInv, ClaimsHaveDispatches

LEMMA ClaimInvStep ==
    ASSUME ClaimInv, [Next]_vars
    PROVE  ClaimInv'
<1>1. TypeOK /\ TypeOK'
  BY TypeStep DEF ClaimInv
<1>2. CASE Restart
  <2>1. Claims(qm') = {}
    BY <1>2 DEF Restart, NoTracking, Claims
  <2> QED BY <1>1, <2>1 DEF ClaimInv, ClaimsHaveDispatches
<1>3. CASE NoNewClaims /\ UNCHANGED dispatch
  BY <1>1, <1>3, NoNewClaimsSafe DEF ClaimInv
<1>4. CASE \E d \in Dispatches : DispatchStep(d)
  BY <1>1, <1>4, DispatchStepKeeps DEF ClaimInv
<1>5. CASE \E p \in Polls, t \in Tickets : Launch(p, t)
  BY <1>1, <1>5, LaunchKeeps DEF ClaimInv
<1>6. CASE UNCHANGED vars
  BY <1>3, <1>6 DEF vars, NoNewClaims
<1> QED
  BY <1>1, <1>2, <1>3, <1>4, <1>5, <1>6, NextCases, PollStartClaims,
     PollPhaseClaims, OutsideClaims

LEMMA ClaimInvHolds == Spec => []ClaimInv
<1>1. Init => ClaimInv
  BY ClaimInvInit
<1>2. ClaimInv /\ [Next]_vars => ClaimInv'
  BY ClaimInvStep
<1> QED BY <1>1, <1>2, PTL DEF Spec

\* No slot leaks on any path through dispatchTicket, whoever interferes: its
\* ticket has a dispatch that will give it back.
THEOREM SlotsNeverLeak == Spec => []EverySlotHasADispatch
<1>1. ClaimInv => EverySlotHasADispatch
  BY DEF ClaimInv, ClaimsHaveDispatches, Claims, EverySlotHasADispatch
<1> QED BY <1>1, ClaimInvHolds, PTL

\* No abort flag outlives the dispatches it was raised for.
THEOREM AbortFlagsNeverLeak == Spec => []EveryAbortFlagHasADispatch
<1>1. ClaimInv => EveryAbortFlagHasADispatch
  BY DEF ClaimInv, ClaimsHaveDispatches, Claims, EveryAbortFlagHasADispatch
<1> QED BY <1>1, ClaimInvHolds, PTL
=============================================================================
