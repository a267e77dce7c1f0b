--------------------- MODULE QueueManagerDispatchProofs ---------------------
(***************************************************************************)
(* Undisturbed, a ticket has one dispatch at a time and the breaker's      *)
(* limit is never passed.                                                  *)
(*                                                                         *)
(* Both need to know why the launch of a listed ticket is still right      *)
(* several awaits after the listing: what a cycle has listed holds no slot *)
(* and is below the limit, what the breaker is escalating holds no slot    *)
(* and is not, so the two never meet; and a ticket that is being escalated *)
(* cannot have its attempts forgotten, which only a dispatch of its own    *)
(* and a requeued dead letter do.                                          *)
(***************************************************************************)
EXTENDS QueueManagerClaimProofs

\* A running dispatch holds its ticket's slot, and no two are of one ticket.
OneEach ==
    /\ qm.clocked \subseteq qm.active
    /\ \A d \in Dispatches : Running(d) => dispatch[d].ticket \in qm.active
    /\ \A d, e \in Dispatches :
         Running(d) /\ Running(e) /\ dispatch[d].ticket = dispatch[e].ticket
            => d = e

\* A dispatch that has not counted its attempt yet may still do so.
BelowLimit ==
    /\ AttemptsWithinBreaker
    /\ \A d \in Dispatches :
         At(d, "entering")
            => qm.count[dispatch[d].ticket] < MaxDispatchAttempts

\* A ticket the breaker or a cycle may decide about, and what was true of it.
Waits(t) == t \notin qm.active /\ qm.count[t] < MaxDispatchAttempts

Spent(t) ==
    /\ t \notin qm.active
    /\ qm.count[t] >= MaxDispatchAttempts
    /\ ticket[t] # "dead_letter"

ListedWait ==
    \A p \in Polls :
        poll[p] # NoCycle =>
            /\ \A t \in poll[p].candidates \cup poll[p].batch : Waits(t)
            /\ poll[p].pc = "launching" => poll[p].candidates = {}

Escalates(t) ==
    \E seen \in OshalTicketState \cup {None} : <<t, seen>> \in escalating

EscalatedSpent == \A t \in Tickets : Escalates(t) => Spent(t)

\* The inductive invariant.
DispatchInv == IInv /\ OneEach /\ BelowLimit /\ ListedWait /\ EscalatedSpent

(***************************************************************************)
(* A step of a dispatch touches its own ticket only.                       *)
(***************************************************************************)

\* The tracking r differs from q for the ticket t only, whose attempts are the
\* same or forgotten.
Touches(q, r, t) ==
    /\ r \in Tracking
    /\ \A u \in Tickets \ {t} :
         /\ u \in r.active <=> u \in q.active
         /\ u \in r.clocked <=> u \in q.clocked
         /\ r.count[u] = q.count[u]
    /\ r.clocked \subseteq q.clocked
    /\ r.count[t] \in {0, q.count[t]}

LEMMA TouchesTrans ==
    ASSUME NEW q \in Tracking, NEW r, NEW s, NEW t \in Tickets,
           Touches(q, r, t), Touches(r, s, t)
    PROVE  Touches(q, s, t)
BY DEF Touches

LEMMA TrackingTouches ==
    ASSUME NEW q \in Tracking, NEW t \in Tickets, NEW from, NEW to
    PROVE  /\ Touches(q, q, t)
           /\ Touches(q, Forgotten(q, t), t)
           /\ Touches(q, Released(q, t), t)
           /\ t \notin Released(q, t).active \cup Released(q, t).clocked
           /\ Touches(q, Observed(q, t, from, to), t)
           /\ to \notin {"escalated", "cancelled"}
                 => Observed(q, t, from, to).active = q.active
<1>1. Touches(q, q, t)
  BY DEF Touches, Tracking
<1>2. Touches(q, Forgotten(q, t), t)
  BY DEF Touches, Tracking, Forgotten
<1>3. /\ Touches(q, Released(q, t), t)
      /\ t \notin Released(q, t).active \cup Released(q, t).clocked
  BY DEF Touches, Tracking, Released, Freed
<1>4. Touches(q, Observed(q, t, from, to), t)
  BY DEF Touches, Tracking, Observed, Freed, Forgotten
<1>5. to \notin {"escalated", "cancelled"}
         => Observed(q, t, from, to).active = q.active
  BY DEF Tracking, Observed, Forgotten
<1> QED BY <1>1, <1>2, <1>3, <1>4, <1>5

\* What the step of a dispatch may do to the tracking and to the dispatches:
\* it goes on with its slot, or returns and takes the slot with it.
OwnOnly(d, t) ==
    /\ \A u \in Tickets \ {t} :
         /\ u \in qm'.active <=> u \in qm.active
         /\ u \in qm'.clocked <=> u \in qm.clocked
         /\ qm'.count[u] = qm.count[u]
    /\ qm'.clocked \subseteq qm.clocked
    /\ \A e \in Dispatches \ {d} : dispatch'[e] = dispatch[e]
    /\ \/ /\ dispatch'[d] = NoCall
          /\ t \notin qm'.active \cup qm'.clocked
       \/ /\ dispatch'[d] # NoCall
          /\ dispatch'[d].ticket = t
          /\ dispatch'[d].pc # "entering"
          /\ t \in qm.active => t \in qm'.active

Counts(d, t) ==
    \/ qm'.count[t] \in {0, qm.count[t]}
    \/ At(d, "entering") /\ qm'.count[t] = qm.count[t] + 1

LEMMA ContinueOwn ==
    ASSUME TypeOK, NEW d \in Dispatches, Running(d),
           NEW pc \in Step \ {"entering"},
           NEW q \in Tracking, Touches(qm, q, dispatch[d].ticket),
           q.active = qm.active,
           Continue(d, pc, q)
    PROVE  /\ OwnOnly(d, dispatch[d].ticket)
           /\ Counts(d, dispatch[d].ticket)
<1> DEFINE call == [[dispatch[d] EXCEPT !.pc = pc] EXCEPT !.seen = None]
<1>1. call \in Call /\ call.ticket = dispatch[d].ticket /\ call.pc = pc
  BY RunningCall DEF Call
<1>2. dispatch' = [dispatch EXCEPT ![d] = call]
  BY DEF Continue, TypeOK
<1>3. /\ dispatch'[d] = call
      /\ \A e \in Dispatches \ {d} : dispatch'[e] = dispatch[e]
  BY <1>2 DEF TypeOK
<1>4. qm' = q
  BY DEF Continue
<1> HIDE DEF call
<1> QED BY <1>1, <1>3, <1>4, CallIsNoNoCall DEF OwnOnly, Counts, Touches

LEMMA FinishOwn ==
    ASSUME TypeOK, NEW d \in Dispatches, Running(d),
           NEW q \in Tracking, Touches(qm, q, dispatch[d].ticket),
           Finish(d, q)
    PROVE  /\ OwnOnly(d, dispatch[d].ticket)
           /\ Counts(d, dispatch[d].ticket)
<1> DEFINE t == dispatch[d].ticket
<1>1. t \in Tickets /\ qm \in Tracking
  BY RunningCall DEF TypeOK
<1>2. /\ Touches(q, Released(q, t), t)
      /\ t \notin Released(q, t).active \cup Released(q, t).clocked
  BY <1>1, TrackingTouches
<1>3. Touches(qm, Released(q, t), t)
  BY <1>1, <1>2, TouchesTrans
<1>4. /\ dispatch'[d] = NoCall /\ qm' = Released(q, t)
      /\ \A e \in Dispatches \ {d} : dispatch'[e] = dispatch[e]
  BY DEF TypeOK, Finish
<1> QED BY <1>2, <1>3, <1>4 DEF OwnOnly, Counts, Touches

\* A write that went through: only a dispatch that then returns has asked for
\* a status whose listener frees the slot.
LEMMA WrittenOwn ==
    ASSUME TypeOK, NEW d \in Dispatches, Running(d),
           NEW q \in Tracking, Touches(qm, q, dispatch[d].ticket),
           Target(d) \notin {"escalated", "cancelled"}
              => q.active = qm.active,
           Written(d, q)
    PROVE  /\ OwnOnly(d, dispatch[d].ticket)
           /\ Counts(d, dispatch[d].ticket)
<1> DEFINE t == dispatch[d].ticket
           f == Forgotten(q, t)
<1>1. t \in Tickets /\ qm \in Tracking
  BY RunningCall DEF TypeOK
<1>2. f \in Tracking /\ f.active = q.active /\ Touches(q, f, t)
  BY <1>1, TrackingType, TrackingTouches
<1>3. Touches(qm, f, t)
  BY <1>1, <1>2, TouchesTrans
<1>4. {"claimed", "closing"} \subseteq Step \ {"entering"}
  BY DEF Step
<1> HIDE DEF f
<1>5. CASE At(d, "claiming") /\ Continue(d, "claimed", q)
  <2>1. Target(d) \notin {"escalated", "cancelled"}
    BY <1>5 DEF At, Target, resolveDispatchEntryState
  <2> QED BY <1>4, <1>5, <2>1, ContinueOwn
<1>6. CASE At(d, "completing") /\ Continue(d, "closing", f)
  <2>1. Target(d) \notin {"escalated", "cancelled"}
    BY <1>6 DEF At, Target
  <2>2. f.active = qm.active
    BY <1>2, <2>1
  <2> QED BY <1>2, <1>3, <1>4, <1>6, <2>2, ContinueOwn
<1>7. CASE Finish(d, f) \/ Finish(d, q)
  BY <1>2, <1>3, <1>7, FinishOwn
<1> QED BY <1>5, <1>6, <1>7 DEF Written, f

LEMMA DispatchStepOwn ==
    ASSUME TypeOK, NEW d \in Dispatches, DispatchStep(d)
    PROVE  /\ Running(d) /\ dispatch[d].ticket \in Tickets
           /\ OwnOnly(d, dispatch[d].ticket)
           /\ Counts(d, dispatch[d].ticket)
           /\ \A u \in Tickets \ {dispatch[d].ticket} : ticket'[u] = ticket[u]
           /\ UNCHANGED <<poll, escalating>>
<1> DEFINE t == dispatch[d].ticket
           Own == OwnOnly(d, t) /\ Counts(d, t)
<1>1. qm \in Tracking
  BY DEF TypeOK
<1>2. {"claiming", "claimed", "preparing", "submitted", "failed", "closing",
       "completing", "items_failed", "no_work", "escalating",
       "rolling_back", "breaking"} \subseteq Step \ {"entering"}
  BY DEF Step, Writing
<1>3. Running(d) /\ t \in Tickets
  <2>1. Running(d)
    BY DEF DispatchStep, Rollback, Enter, ReadForWrite, CommitWrite,
           LoseWrite, Prepare, Submit, PipelineReturns, Defer, Throw,
           FailForGood, Close, At
  <2> QED BY <2>1, RunningCall
<1>4. /\ Touches(qm, qm, t) /\ Touches(qm, Forgotten(qm, t), t)
      /\ Forgotten(qm, t) \in Tracking
      /\ Forgotten(qm, t).active = qm.active
  BY <1>1, <1>3, TrackingType, TrackingTouches
<1>5. \A u \in Tickets \ {t} : ticket'[u] = ticket[u]
  <2>1. UNCHANGED ticket \/ \E to : Move(t, to)
    BY DEF DispatchStep, Rollback, Enter, ReadForWrite, CommitWrite,
           LoseWrite, Prepare, Submit, PipelineReturns, Defer, Throw,
           FailForGood, Close
  <2> QED BY <1>3, <2>1 DEF Move, TypeOK
<1>6. UNCHANGED <<poll, escalating>>
  BY DEF DispatchStep, Rollback, Enter, ReadForWrite, CommitWrite,
         LoseWrite, Prepare, Submit, PipelineReturns, Defer, Throw,
         FailForGood, Close
<1>7. ASSUME \/ Finish(d, qm) \/ Finish(d, Forgotten(qm, t))
             \/ \E pc \in {"preparing", "submitted", "completing",
                           "items_failed", "no_work", "failed", "escalating",
                           "rolling_back", "breaking"} : Continue(d, pc, qm)
      PROVE  Own
  BY <1>1, <1>2, <1>3, <1>4, <1>7, ContinueOwn, FinishOwn
<1>8. CASE Rollback(d)
  <2>1. \/ Finish(d, Forgotten(qm, t)) \/ Finish(d, qm)
        \/ Continue(d, "rolling_back", qm) \/ Continue(d, "breaking", qm)
    BY <1>8 DEF Rollback
  <2> QED BY <1>3, <1>5, <1>6, <1>7, <2>1
<1>9. CASE Enter(d)
  <2> DEFINE counted == [qm EXCEPT !.count[t] = @ + 1]
  <2>1. /\ counted \in Tracking /\ counted.active = qm.active
        /\ counted.clocked = qm.clocked
        /\ counted.count[t] = qm.count[t] + 1
        /\ \A u \in Tickets \ {t} : counted.count[u] = qm.count[u]
    BY <1>1, <1>3 DEF Tracking
  <2>2. At(d, "entering")
    BY <1>9 DEF Enter
  <2>3. \/ Continue(d, "claiming", counted) \/ Continue(d, "failed", counted)
        \/ Finish(d, counted)
    BY <1>9 DEF Enter
  <2> HIDE DEF counted
  <2>4. CASE \E pc \in {"claiming", "failed"} : Continue(d, pc, counted)
    <3>1. PICK pc \in {"claiming", "failed"} : Continue(d, pc, counted)
      BY <2>4
    <3> DEFINE call == [[dispatch[d] EXCEPT !.pc = pc] EXCEPT !.seen = None]
    <3>2. call \in Call /\ call.ticket = t /\ call.pc = pc
      BY <1>2, <1>3, RunningCall DEF Call
    <3>3. dispatch' = [dispatch EXCEPT ![d] = call]
      BY <3>1 DEF Continue, TypeOK
    <3>4. /\ dispatch'[d] = call
          /\ \A e \in Dispatches \ {d} : dispatch'[e] = dispatch[e]
      BY <3>3 DEF TypeOK
    <3>5. qm' = counted
      BY <3>1 DEF Continue
    <3> HIDE DEF call
    <3>6. OwnOnly(d, t)
      BY <2>1, <3>2, <3>4, <3>5, CallIsNoNoCall DEF OwnOnly
    <3> QED BY <1>3, <1>5, <1>6, <2>1, <2>2, <3>5, <3>6 DEF Counts
  <2>5. CASE Finish(d, counted)
    <3>1. /\ Touches(counted, Released(counted, t), t)
          /\ t \notin Released(counted, t).active
                        \cup Released(counted, t).clocked
          /\ Released(counted, t).count = counted.count
      BY <1>3, <2>1, TrackingTouches DEF Released, Freed, Tracking
    <3>2. /\ dispatch'[d] = NoCall /\ qm' = Released(counted, t)
          /\ \A e \in Dispatches \ {d} : dispatch'[e] = dispatch[e]
      BY <2>5 DEF TypeOK, Finish
    <3>3. OwnOnly(d, t)
      BY <2>1, <3>1, <3>2 DEF OwnOnly, Touches
    <3> QED BY <1>3, <1>5, <1>6, <2>1, <2>2, <3>1, <3>2, <3>3 DEF Counts
  <2> QED BY <2>3, <2>4, <2>5
<1>10. CASE ReadForWrite(d)
  <2>1. \/ Written(d, qm) \/ Continue(d, "failed", qm) \/ Finish(d, qm)
        \/ /\ dispatch' = [dispatch EXCEPT ![d].seen = ticket[t]]
           /\ dispatch[d].pc \in Writing
           /\ UNCHANGED qm
    BY <1>10 DEF ReadForWrite, WriteFailed
  <2>2. CASE /\ dispatch' = [dispatch EXCEPT ![d].seen = ticket[t]]
             /\ dispatch[d].pc \in Writing
             /\ UNCHANGED qm
    <3> DEFINE call == [dispatch[d] EXCEPT !.seen = ticket[t]]
    <3>1. call \in Call /\ call.ticket = t /\ call.pc = dispatch[d].pc
      BY <1>3, RunningCall DEF Call, TypeOK
    <3>2. /\ dispatch'[d] = call
          /\ \A e \in Dispatches \ {d} : dispatch'[e] = dispatch[e]
      BY <2>2 DEF TypeOK
    <3>3. dispatch[d].pc # "entering"
      BY <2>2 DEF Writing
    <3> HIDE DEF call
    <3>4. Own
      BY <2>2, <3>1, <3>2, <3>3, CallIsNoNoCall DEF OwnOnly, Counts
    <3> QED BY <1>3, <1>5, <1>6, <3>4
  <2>3. CASE Written(d, qm)
    BY <1>1, <1>3, <1>4, <1>5, <1>6, <2>3, WrittenOwn
  <2> QED BY <1>3, <1>5, <1>6, <1>7, <2>1, <2>2, <2>3
<1>11. CASE CommitWrite(d)
  <2> DEFINE q == Observed(qm, t, ticket[t], Target(d))
  <2>1. /\ q \in Tracking /\ Touches(qm, q, t)
        /\ Target(d) \notin {"escalated", "cancelled"}
              => q.active = qm.active
    BY <1>1, <1>3, TrackingType, TrackingTouches
  <2>2. Written(d, q)
    BY <1>11 DEF CommitWrite
  <2> HIDE DEF q
  <2> QED BY <1>3, <1>5, <1>6, <2>1, <2>2, WrittenOwn
<1>12. CASE \/ LoseWrite(d) \/ Prepare(d) \/ Submit(d) \/ PipelineReturns(d)
            \/ Defer(d) \/ Throw(d) \/ FailForGood(d) \/ Close(d)
  <2>1. \/ Finish(d, qm)
        \/ \E pc \in {"preparing", "submitted", "completing", "items_failed",
                      "no_work", "failed", "escalating"} : Continue(d, pc, qm)
    BY <1>12 DEF LoseWrite, Prepare, Submit, PipelineReturns, Defer, Throw,
                 FailForGood, Close, Proceed
  <2> QED BY <1>3, <1>5, <1>6, <1>7, <2>1
<1> QED
  BY <1>8, <1>9, <1>10, <1>11, <1>12 DEF DispatchStep

LEMMA DispatchStepKeepsOne ==
    ASSUME DispatchInv, NEW d \in Dispatches, DispatchStep(d), IInv'
    PROVE  DispatchInv'
<1> DEFINE t == dispatch[d].ticket
<1>1. /\ Running(d) /\ t \in Tickets /\ OwnOnly(d, t) /\ Counts(d, t)
      /\ \A u \in Tickets \ {t} : ticket'[u] = ticket[u]
      /\ UNCHANGED <<poll, escalating>>
  BY DispatchStepOwn DEF DispatchInv, IInv
<1>2. /\ qm \in Tracking /\ qm' \in Tracking
      /\ qm.count \in [Tickets -> Nat] /\ qm'.count \in [Tickets -> Nat]
      /\ qm'.active \in SUBSET Tickets
  BY DEF DispatchInv, IInv, TypeOK, Tracking
<1>3. t \in qm.active
  BY <1>1 DEF DispatchInv, OneEach
<1>4. \A e \in Dispatches : Running(e) => dispatch[e].ticket \in Tickets
  BY RunningCall DEF DispatchInv, IInv
<1>5. \A e \in Dispatches \ {d} :
        Running(e)' => /\ Running(e) /\ dispatch'[e] = dispatch[e]
                       /\ dispatch[e].ticket \in Tickets \ {t}
  BY <1>1, <1>4 DEF OwnOnly, Running, DispatchInv, OneEach
<1>6. Running(d)' => /\ dispatch'[d].ticket = t /\ t \in qm'.active
                     /\ dispatch'[d].pc # "entering"
  BY <1>1, <1>3 DEF OwnOnly, Running
<1>7. OneEach'
  <2>1. qm'.clocked \subseteq qm'.active
    <3>1. ASSUME NEW u \in qm'.clocked PROVE u \in qm'.active
      <4>1. u \in qm.clocked /\ u \in qm.active /\ u \in Tickets
        BY <1>1, <1>2 DEF OwnOnly, DispatchInv, OneEach, Tracking
      <4>2. CASE u = t
        BY <1>1, <1>3, <3>1, <4>2 DEF OwnOnly
      <4>3. CASE u # t
        BY <1>1, <4>1, <4>3 DEF OwnOnly
      <4> QED BY <4>2, <4>3
    <3> QED BY <3>1
  <2>2. ASSUME NEW e \in Dispatches, Running(e)'
        PROVE  dispatch'[e].ticket \in qm'.active
    BY <1>1, <1>5, <1>6, <2>2 DEF OwnOnly, DispatchInv, OneEach
  <2>3. ASSUME NEW e \in Dispatches, NEW f \in Dispatches, Running(e)',
               Running(f)', dispatch'[e].ticket = dispatch'[f].ticket
        PROVE  e = f
    BY <1>5, <1>6, <2>3 DEF DispatchInv, OneEach
  <2> QED BY <2>1, <2>2, <2>3 DEF OneEach
<1>8. BelowLimit'
  <2>1. ASSUME NEW u \in Tickets
        PROVE  qm'.count[u] <= MaxDispatchAttempts
    <3>1. /\ qm.count[u] <= MaxDispatchAttempts
          /\ qm.count[u] \in Nat /\ qm'.count[u] \in Nat
      BY <1>2 DEF DispatchInv, BelowLimit, AttemptsWithinBreaker
    <3>2. CASE u # t
      BY <1>1, <3>1, <3>2 DEF OwnOnly
    <3>3. CASE qm'.count[u] \in {0, qm.count[u]}
      BY <3>1, <3>3, LimitsAssumption
    <3>4. CASE At(d, "entering") /\ qm'.count[t] = qm.count[t] + 1 /\ u = t
      <4>1. qm.count[t] < MaxDispatchAttempts
        BY <3>4 DEF DispatchInv, BelowLimit
      <4> QED BY <3>1, <3>4, <4>1, LimitsAssumption
    <3> QED BY <1>1, <3>2, <3>3, <3>4 DEF Counts
  <2>2. ASSUME NEW e \in Dispatches, At(e, "entering")'
        PROVE  qm'.count[dispatch'[e].ticket] < MaxDispatchAttempts
    <3>1. e # d /\ Running(e)'
      BY <1>6, <2>2 DEF At
    <3>2. /\ At(e, "entering") /\ dispatch'[e].ticket = dispatch[e].ticket
          /\ dispatch[e].ticket \in Tickets \ {t}
      BY <1>5, <2>2, <3>1 DEF At
    <3> QED BY <1>1, <3>2 DEF OwnOnly, DispatchInv, BelowLimit
  <2> QED BY <2>1, <2>2 DEF BelowLimit, AttemptsWithinBreaker
\* What waits has no slot, so it is not the ticket of this dispatch.
<1>9. ASSUME NEW u \in Tickets, u \notin qm.active
      PROVE  /\ u \notin qm'.active /\ qm'.count[u] = qm.count[u]
             /\ ticket'[u] = ticket[u]
  BY <1>1, <1>3, <1>9 DEF OwnOnly
<1>10. ListedWait'
  <2> SUFFICES ASSUME NEW p \in Polls, poll[p] # NoCycle
               PROVE  /\ \A u \in poll[p].candidates \cup poll[p].batch :
                           Waits(u)'
                      /\ poll[p].pc = "launching" => poll[p].candidates = {}
    BY <1>1 DEF ListedWait
  <2>1. poll[p].candidates \cup poll[p].batch \subseteq Tickets
    BY DEF DispatchInv, IInv, TypeOK, Cycle
  <2> QED BY <1>9, <2>1 DEF DispatchInv, ListedWait, Waits
<1>11. EscalatedSpent'
  BY <1>1, <1>9 DEF DispatchInv, EscalatedSpent, Escalates, Spent
<1> QED BY <1>7, <1>8, <1>10, <1>11 DEF DispatchInv

(***************************************************************************)
(* A launch: what was listed still waits, so the new dispatch is the only  *)
(* one of its ticket.                                                      *)
(***************************************************************************)
LEMMA LaunchKeepsOne ==
    ASSUME DispatchInv, NEW p \in Polls, NEW t \in Tickets, Launch(p, t),
           UNCHANGED escalating, UNCHANGED ticket, IInv'
    PROVE  DispatchInv'
<1>1. PICK d \in Dispatches :
        /\ ~Running(d)
        /\ dispatch' = [dispatch EXCEPT ![d] =
             [pc |-> "entering", ticket |-> t, seen |-> None]]
  BY DEF Launch
<1>2. /\ qm \in Tracking /\ TypeOK
      /\ qm.count \in [Tickets -> Nat]
  BY DEF DispatchInv, IInv, TypeOK, Tracking
<1>3. /\ dispatch'[d] = [pc |-> "entering", ticket |-> t, seen |-> None]
      /\ \A e \in Dispatches \ {d} : dispatch'[e] = dispatch[e]
  BY <1>1, <1>2 DEF TypeOK
<1>4. dispatch'[d].ticket = t /\ dispatch'[d].pc = "entering"
  BY <1>3
<1>5. /\ poll[p] \in Cycle /\ poll[p] # NoCycle
      /\ poll[p].pc = "launching" /\ t \in poll[p].batch
  BY <1>2, PollingType DEF Launch
<1>6. Waits(t) /\ poll[p].candidates = {}
  BY <1>5 DEF DispatchInv, ListedWait
<1>7. /\ qm'.active = qm.active \cup {t} /\ qm'.clocked = qm.clocked \cup {t}
      /\ qm'.count = qm.count
  BY <1>2 DEF Launch, Tracking
<1>8. \A e \in Dispatches :
        Running(e) => dispatch[e].ticket \in qm.active
                        /\ dispatch[e].ticket # t /\ e # d
  BY <1>1, <1>6 DEF DispatchInv, OneEach, Waits
<1>9. \A e \in Dispatches \ {d} :
        Running(e)' => Running(e) /\ dispatch'[e] = dispatch[e]
  BY <1>3 DEF Running
<1>10. OneEach'
  <2>1. qm'.clocked \subseteq qm'.active
    BY <1>7 DEF DispatchInv, OneEach
  <2>2. ASSUME NEW e \in Dispatches, Running(e)'
        PROVE  dispatch'[e].ticket \in qm'.active
    BY <1>4, <1>7, <1>8, <1>9, <2>2
  <2>3. ASSUME NEW e \in Dispatches, NEW f \in Dispatches, Running(e)',
               Running(f)', dispatch'[e].ticket = dispatch'[f].ticket
        PROVE  e = f
    BY <1>4, <1>8, <1>9, <2>3 DEF DispatchInv, OneEach
  <2> QED BY <2>1, <2>2, <2>3 DEF OneEach
<1>11. BelowLimit'
  <2>1. AttemptsWithinBreaker'
    BY <1>7 DEF DispatchInv, BelowLimit, AttemptsWithinBreaker
  <2>2. ASSUME NEW e \in Dispatches, At(e, "entering")'
        PROVE  qm'.count[dispatch'[e].ticket] < MaxDispatchAttempts
    <3>1. CASE e = d
      BY <1>4, <1>6, <1>7, <3>1 DEF Waits
    <3>2. CASE e # d
      <4>1. At(e, "entering") /\ dispatch'[e] = dispatch[e]
        BY <1>9, <2>2, <3>2 DEF At
      <4> QED BY <1>7, <4>1 DEF DispatchInv, BelowLimit
    <3> QED BY <3>1, <3>2
  <2> QED BY <2>1, <2>2 DEF BelowLimit
<1>12. ListedWait'
  <2> DEFINE cycle == [poll[p] EXCEPT !.batch = @ \ {t}]
  <2>1. /\ cycle \in Cycle /\ cycle.candidates = {}
        /\ cycle.batch = poll[p].batch \ {t}
    BY <1>5, <1>6 DEF Cycle
  <2>2. Advance(p, cycle)
    BY DEF Launch
  <2> HIDE DEF cycle
  <2>3. poll'[p] = cycle /\ \A o \in Polls \ {p} : poll'[o] = NoCycle
    <3>1. \A o \in Polls \ {p} : poll[o] = NoCycle
      BY <1>5 DEF DispatchInv, IInv, OneCycle
    <3> QED BY <1>2, <2>2, <3>1 DEF Advance, TypeOK
  <2>4. \A u \in cycle.batch : Waits(u)'
    <3>1. \A u \in poll[p].batch : Waits(u)
      BY <1>5 DEF DispatchInv, ListedWait
    <3> QED BY <1>7, <2>1, <3>1 DEF Waits
  <2> QED BY <2>1, <2>3, <2>4 DEF ListedWait
<1>13. EscalatedSpent'
  <2>1. ~Escalates(t)
    BY <1>2, <1>6, LimitsAssumption
       DEF DispatchInv, EscalatedSpent, Spent, Waits
  <2>2. ASSUME NEW u \in Tickets, Escalates(u)'
        PROVE  Spent(u)'
    <3>1. Escalates(u) /\ u # t
      BY <2>1, <2>2 DEF Escalates
    <3> QED BY <1>7, <3>1 DEF DispatchInv, EscalatedSpent, Spent
  <2> QED BY <2>2 DEF EscalatedSpent
<1> QED BY <1>10, <1>11, <1>12, <1>13 DEF DispatchInv

(***************************************************************************)
(* Every other step takes and frees no slot, and forgets the attempts of a *)
(* dead letter at most.                                                    *)
(***************************************************************************)
Calm ==
    /\ UNCHANGED dispatch
    /\ qm'.active = qm.active
    /\ qm'.clocked = qm.clocked
    /\ \A t \in Tickets :
         \/ qm'.count[t] = qm.count[t]
         \/ qm'.count[t] = 0 /\ ticket[t] = "dead_letter"

\* Whoever makes it, a move that frees no slot is calm.
LEMMA MoveCalm ==
    ASSUME NEW q \in Tracking, NEW t \in Tickets, NEW to,
           q.active = qm.active, q.clocked = qm.clocked, q.count = qm.count,
           qm' = Observed(q, t, ticket[t], to),
           t \notin qm.active \/ qm'.active = qm.active,
           UNCHANGED dispatch
    PROVE  Calm
<1>1. ~(to \in {"escalated", "cancelled"} /\ t \in q.active)
  BY DEF Observed, Freed, Tracking
<1>2. CASE ticket[t] = "dead_letter" /\ to = "approved"
  <2>1. qm' = [Forgotten(q, t) EXCEPT !.recovered = @ \ {t},
                                      !.aborted = @ \ {t}]
    BY <1>1, <1>2 DEF Observed
  <2>2. /\ qm'.active = q.active /\ qm'.clocked = q.clocked
        /\ qm'.count = [q.count EXCEPT ![t] = 0]
    BY <2>1 DEF Tracking, Forgotten
  <2>3. q.count \in [Tickets -> Nat]
    BY DEF Tracking
  <2>4. \A u \in Tickets : \/ qm'.count[u] = qm.count[u]
                           \/ qm'.count[u] = 0 /\ ticket[u] = "dead_letter"
    BY <1>2, <2>2, <2>3
  <2> QED BY <2>2, <2>4 DEF Calm
<1>3. CASE ~(ticket[t] = "dead_letter" /\ to = "approved")
  <2>1. qm' = q
    BY <1>1, <1>3 DEF Observed
  <2> QED BY <2>1 DEF Calm
<1> QED BY <1>2, <1>3

\* The cycles' lists after the step hold what waited before it.
ListsAfter ==
    \A p \in Polls :
        poll'[p] # NoCycle =>
            /\ \A t \in poll'[p].candidates \cup poll'[p].batch : Waits(t)
            /\ poll'[p].pc = "launching" => poll'[p].candidates = {}

\* What is being escalated after the step was spent before it.
EscalationsAfter ==
    \A t \in Tickets : Escalates(t)' => Spent(t) /\ ticket'[t] # "dead_letter"

LEMMA CalmKeepsOne ==
    ASSUME DispatchInv, Calm, IInv', ListsAfter, EscalationsAfter
    PROVE  DispatchInv'
<1>1. /\ qm.count \in [Tickets -> Nat] /\ qm'.count \in [Tickets -> Nat]
      /\ \A t \in Tickets :
           qm'.count[t] \in Nat /\ qm.count[t] \in Nat
             /\ qm'.count[t] <= qm.count[t]
  <2>1. qm.count \in [Tickets -> Nat] /\ qm'.count \in [Tickets -> Nat]
    BY DEF DispatchInv, IInv, TypeOK, Tracking
  <2> QED BY <2>1 DEF Calm
<1>2. OneEach'
  BY DEF Calm, DispatchInv, OneEach, Running
<1>3. BelowLimit'
  <2>1. AttemptsWithinBreaker'
    BY <1>1, LimitsAssumption
       DEF DispatchInv, BelowLimit, AttemptsWithinBreaker
  <2>2. ASSUME NEW e \in Dispatches, At(e, "entering")'
        PROVE  qm'.count[dispatch'[e].ticket] < MaxDispatchAttempts
    <3>1. At(e, "entering") /\ dispatch'[e] = dispatch[e] /\ Running(e)
      BY <2>2 DEF Calm, At, Running
    <3>2. dispatch[e].ticket \in Tickets
      BY <3>1, RunningCall DEF DispatchInv, IInv
    <3>3. qm.count[dispatch[e].ticket] < MaxDispatchAttempts
      BY <3>1 DEF DispatchInv, BelowLimit
    <3> QED BY <1>1, <3>1, <3>2, <3>3, LimitsAssumption
  <2> QED BY <2>1, <2>2 DEF BelowLimit
<1>4. ListedWait'
  <2> SUFFICES ASSUME NEW p \in Polls, poll'[p] # NoCycle
               PROVE  \A t \in poll'[p].candidates \cup poll'[p].batch :
                        Waits(t)'
    BY DEF ListedWait, ListsAfter
  <2>1. poll'[p].candidates \cup poll'[p].batch \subseteq Tickets
    BY DEF DispatchInv, IInv, TypeOK, Cycle
  <2> QED BY <1>1, <2>1, LimitsAssumption DEF Calm, Waits, ListsAfter
<1>5. EscalatedSpent'
  BY <1>1 DEF EscalatedSpent, Calm, Spent, EscalationsAfter
<1> QED BY <1>2, <1>3, <1>4, <1>5 DEF DispatchInv

LEMMA SameLists ==
    ASSUME DispatchInv, UNCHANGED poll
    PROVE  ListsAfter
BY DEF DispatchInv, ListedWait, ListsAfter

\* The only cycle there is ends, or shortens its lists.
LEMMA AdvanceLists ==
    ASSUME DispatchInv, NEW p \in Polls, poll[p] # NoCycle, NEW cycle,
           Advance(p, cycle),
           cycle # NoCycle =>
             /\ \A t \in cycle.candidates \cup cycle.batch : Waits(t)
             /\ cycle.pc = "launching" => cycle.candidates = {}
    PROVE  ListsAfter
<1>1. /\ poll'[p] = cycle
      /\ \A o \in Polls \ {p} : poll'[o] = poll[o]
  BY DEF Advance, DispatchInv, IInv, TypeOK
<1> QED BY <1>1 DEF ListsAfter, DispatchInv, ListedWait

\* An escalation that was pending already, of a ticket that no step of another
\* actor may dead-letter.
LEMMA SameEscalations ==
    ASSUME DispatchInv, escalating' \subseteq escalating,
           \A t \in Tickets :
             Escalates(t) /\ ticket'[t] = "dead_letter"
                => ticket[t] = "dead_letter"
    PROVE  EscalationsAfter
BY DEF DispatchInv, EscalatedSpent, EscalationsAfter, Escalates, Spent

LEMMA MoveWithin ==
    ASSUME TypeOK, NEW t \in Tickets, NEW to, Move(t, to)
    PROVE  ticket'[t] = to /\ \A u \in Tickets \ {t} : ticket'[u] = ticket[u]
BY DEF TypeOK, Move

(***************************************************************************)
(* The poll cycle.                                                         *)
(***************************************************************************)

\* The watchdog disturbs whenever it frees a slot; otherwise the cycle starts
\* with empty lists.
LEMMA PollStartKeepsOne ==
    ASSUME DispatchInv, NEW p \in Polls, PollStart(p), ~Disturbs, IInv'
    PROVE  DispatchInv'
<1>1. PICK stuck \in SUBSET (qm.clocked \cap Hangs) :
        /\ qm' = [qm EXCEPT !.active = @ \ stuck, !.clocked = @ \ stuck]
        /\ escalating' = escalating \cup (stuck \X {None})
        /\ moves' = moves + Cardinality(stuck)
  BY DEF PollStart
<1>2. /\ qm \in Tracking /\ moves \in Nat
      /\ stuck \in SUBSET qm.active /\ stuck \in SUBSET Tickets
  BY LimitsAssumption DEF DispatchInv, IInv, TypeOK, OneEach, Tracking
<1>3. stuck = {}
  <2>1. SUFFICES ASSUME stuck # {} PROVE FALSE
    OBVIOUS
  <2>2. qm'.active = qm.active \ stuck
    BY <1>1, <1>2 DEF Tracking
  <2>3. qm'.active # qm.active
    BY <1>2, <2>1, <2>2
  <2>4. IsFiniteSet(stuck) /\ Cardinality(stuck) \in Nat \ {0}
    BY <1>2, <2>1, TicketsAssumption, FS_Subset, FS_CardinalityType,
       FS_EmptySet
  <2>5. moves' # moves
    BY <1>1, <1>2, <2>4
  <2> QED BY <2>3, <2>5 DEF Disturbs
<1>4. Calm
  BY <1>1, <1>2, <1>3 DEF Calm, PollStart, Tracking
<1> DEFINE cycle == [pc |-> "rerouting", room |-> 0, candidates |-> {},
                     stale |-> {}, batch |-> {}]
<1>5. ListsAfter
  <2>1. \A o \in Polls : poll[o] = NoCycle
    BY DEF PollStart, pollCycleInProgress
  <2>2. poll'[p] = cycle /\ \A o \in Polls \ {p} : poll'[o] = NoCycle
    BY <2>1 DEF PollStart, Advance, DispatchInv, IInv, TypeOK
  <2>3. /\ cycle.candidates \cup cycle.batch = {}
        /\ cycle.pc # "launching"
    OBVIOUS
  <2> HIDE DEF cycle
  <2> QED BY <2>2, <2>3 DEF ListsAfter
<1>6. EscalationsAfter
  <2>1. escalating' = escalating
    BY <1>1, <1>3
  <2> QED BY <2>1, SameEscalations DEF PollStart
<1> QED BY <1>4, <1>5, <1>6, CalmKeepsOne

\* The breaker and the listing part the approved tickets between them.
LEMMA PollListKeepsOne ==
    ASSUME DispatchInv, NEW p \in Polls, PollList(p), IInv'
    PROVE  DispatchInv'
<1> DEFINE waiting == {t \in Tickets \ qm.active : ticket[t] = "approved"}
           broken == {t \in waiting : qm.count[t] >= MaxDispatchAttempts}
           cycle == [poll[p] EXCEPT !.pc = "deferred",
                                    !.candidates = waiting \ broken]
<1>1. poll[p] \in Cycle /\ poll[p] # NoCycle /\ poll[p].pc = "listing"
  BY PollingType DEF PollList, DispatchInv, IInv
<1>2. /\ Advance(p, cycle) /\ UNCHANGED <<ticket, qm, dispatch>>
      /\ escalating' = escalating \cup (broken \X {None})
  BY DEF PollList
<1>3. /\ cycle.pc = "deferred" /\ cycle.batch = poll[p].batch
      /\ cycle.candidates = waiting \ broken
  BY <1>1 DEF Cycle
<1>4. \A t \in broken : t \in Tickets /\ Spent(t)
  BY DEF Spent
<1>5. \A t \in waiting \ broken : Waits(t)
  <2>1. qm.count \in [Tickets -> Nat]
    BY DEF DispatchInv, IInv, TypeOK, Tracking
  <2> QED BY <2>1, LimitsAssumption DEF Waits
<1>6. Calm
  BY <1>2 DEF Calm
<1> HIDE DEF broken, waiting, cycle
<1>7. ListsAfter
  <2>1. \A t \in cycle.candidates \cup cycle.batch : Waits(t)
    BY <1>1, <1>3, <1>5 DEF DispatchInv, ListedWait
  <2> QED BY <1>1, <1>2, <1>3, <2>1, AdvanceLists
<1>8. EscalationsAfter
  <2> SUFFICES ASSUME NEW t \in Tickets, Escalates(t)'
               PROVE  Spent(t) /\ ticket'[t] # "dead_letter"
    BY DEF EscalationsAfter
  <2>1. Escalates(t) \/ t \in broken
    BY <1>2 DEF Escalates
  <2>2. Spent(t)
    BY <1>4, <2>1 DEF DispatchInv, EscalatedSpent
  <2> QED BY <1>2, <2>2 DEF Spent
<1> QED BY <1>6, <1>7, <1>8, CalmKeepsOne

\* The phases that move no ticket and touch no tracking, and only shorten what
\* the cycle has listed.
QuietPhase(p) ==
    \/ PollCapacity(p) \/ PollFails(p) \/ PollDeferred(p)
    \/ PollRecovered(p) \/ PollBatched(p) \/ PollEnd(p)
    \/ \E t \in Tickets : Consider(p, t) \/ Skip(p, t)

LEMMA QuietPhaseKeepsOne ==
    ASSUME DispatchInv, NEW p \in Polls, QuietPhase(p), IInv'
    PROVE  DispatchInv'
<1>1. TypeOK /\ UNCHANGED <<ticket, qm, dispatch, escalating>>
  BY DEF DispatchInv, IInv, QuietPhase, PollCapacity, PollFails, PollDeferred,
         PollRecovered, PollBatched, PollEnd, Consider, Skip
<1>2. poll[p] \in Cycle /\ poll[p] # NoCycle
  <2>1. \E pc : Polling(p, pc)
    BY DEF QuietPhase, PollCapacity, PollFails, PollDeferred, PollRecovered,
           PollBatched, PollEnd, Consider, Skip
  <2> QED BY <1>1, <2>1, PollingType
<1>3. /\ \A t \in poll[p].candidates \cup poll[p].batch : Waits(t)
      /\ poll[p].pc = "launching" => poll[p].candidates = {}
  BY <1>2 DEF DispatchInv, ListedWait
<1>4. ASSUME NEW cycle, Advance(p, cycle), cycle # NoCycle =>
               /\ cycle.candidates \cup cycle.batch
                    \subseteq poll[p].candidates \cup poll[p].batch
               /\ cycle.pc = "launching" => cycle.candidates = {}
      PROVE  DispatchInv'
  <2>1. Calm
    BY <1>1 DEF Calm
  <2>2. ListsAfter
    BY <1>2, <1>3, <1>4, AdvanceLists
  <2>3. EscalationsAfter
    BY <1>1, SameEscalations
  <2> QED BY <2>1, <2>2, <2>3, CalmKeepsOne
<1>5. CASE PollCapacity(p)
  <2> DEFINE cycle == [poll[p] EXCEPT !.pc = "listing", !.room =
                         MaxConcurrent - Cardinality(qm.active)]
  <2>1. Advance(p, NoCycle) \/ Advance(p, cycle)
    BY <1>5 DEF PollCapacity
  <2>2. /\ cycle.candidates = poll[p].candidates
        /\ cycle.batch = poll[p].batch /\ cycle.pc = "listing"
    BY <1>2 DEF Cycle
  <2> HIDE DEF cycle
  <2> QED BY <1>4, <2>1, <2>2
<1>6. CASE PollFails(p) \/ PollEnd(p)
  BY <1>4, <1>6 DEF PollFails, PollEnd
<1>7. CASE PollDeferred(p)
  <2>1. PICK S : Advance(p, [poll[p] EXCEPT !.pc = "recovering",
                                            !.stale = S])
    BY <1>7 DEF PollDeferred
  <2> DEFINE cycle == [poll[p] EXCEPT !.pc = "recovering", !.stale = S]
  <2>2. /\ cycle.candidates = poll[p].candidates
        /\ cycle.batch = poll[p].batch /\ cycle.pc = "recovering"
    BY <1>2 DEF Cycle
  <2>3. Advance(p, cycle)
    BY <2>1
  <2> HIDE DEF cycle
  <2> QED BY <1>4, <2>2, <2>3
<1>8. CASE PollRecovered(p)
  <2> DEFINE cycle == [poll[p] EXCEPT !.pc = "batching"]
  <2>1. /\ cycle.candidates = poll[p].candidates
        /\ cycle.batch = poll[p].batch /\ cycle.pc = "batching"
    BY <1>2 DEF Cycle
  <2>2. Advance(p, cycle)
    BY <1>8 DEF PollRecovered
  <2> HIDE DEF cycle
  <2> QED BY <1>4, <2>1, <2>2
<1>9. CASE PollBatched(p)
  <2> DEFINE cycle == [poll[p] EXCEPT !.pc = "launching", !.candidates = {}]
  <2>1. cycle.candidates = {} /\ cycle.batch = poll[p].batch
    BY <1>2 DEF Cycle
  <2>2. Advance(p, cycle)
    BY <1>9 DEF PollBatched
  <2> HIDE DEF cycle
  <2> QED BY <1>4, <2>1, <2>2
<1>10. ASSUME NEW t \in Tickets, Consider(p, t)
       PROVE  DispatchInv'
  <2>1. PICK B \in {poll[p].batch, poll[p].batch \cup {t}} :
          Advance(p, [poll[p] EXCEPT !.candidates = @ \ {t}, !.batch = B])
    BY <1>10 DEF Consider
  <2> DEFINE cycle == [poll[p] EXCEPT !.candidates = @ \ {t}, !.batch = B]
  <2>2. t \in poll[p].candidates /\ poll[p].pc = "batching"
    BY <1>10 DEF Consider, Polling
  <2>3. /\ cycle.candidates = poll[p].candidates \ {t}
        /\ cycle.batch = B /\ cycle.pc = "batching"
    BY <1>2, <2>2 DEF Cycle
  <2>4. Advance(p, cycle)
    BY <2>1
  <2> HIDE DEF cycle
  <2>5. cycle.candidates \cup cycle.batch
          \subseteq poll[p].candidates \cup poll[p].batch
    BY <2>2, <2>3
  <2> QED BY <1>4, <2>3, <2>4, <2>5
<1>11. ASSUME NEW t \in Tickets, Skip(p, t)
       PROVE  DispatchInv'
  <2> DEFINE cycle == [poll[p] EXCEPT !.batch = @ \ {t}]
  <2>1. /\ cycle.candidates = poll[p].candidates
        /\ cycle.batch = poll[p].batch \ {t} /\ cycle.pc = poll[p].pc
    BY <1>2 DEF Cycle
  <2>2. Advance(p, cycle)
    BY <1>11 DEF Skip
  <2> HIDE DEF cycle
  <2> QED BY <1>3, <1>4, <2>1, <2>2
<1> QED
  BY <1>5, <1>6, <1>7, <1>8, <1>9, <1>10, <1>11 DEF QuietPhase

\* A move of any actor that frees no slot and leaves escalating tickets out of
\* the dead letters.
LEMMA MoveKeepsOne ==
    ASSUME DispatchInv, NEW t \in Tickets, NEW to, ObservedMove(t, to),
           t \notin qm.active \/ qm'.active = qm.active,
           Escalates(t) => to # "dead_letter",
           UNCHANGED dispatch, escalating' \subseteq escalating,
           ListsAfter, IInv'
    PROVE  DispatchInv'
<1>1. TypeOK /\ qm \in Tracking
  BY DEF DispatchInv, IInv, TypeOK
<1>2. Calm
  BY <1>1, MoveCalm DEF ObservedMove
<1>3. EscalationsAfter
  <2>1. ticket'[t] = to /\ \A u \in Tickets \ {t} : ticket'[u] = ticket[u]
    BY <1>1, MoveWithin DEF ObservedMove
  <2> QED BY <2>1, SameEscalations
<1> QED BY <1>2, <1>3, CalmKeepsOne

LEMMA ApprovalFreesNothing ==
    ASSUME TypeOK, NEW t \in Tickets, NEW to, ObservedMove(t, to),
           to \notin {"escalated", "cancelled"}
    PROVE  qm'.active = qm.active
<1>1. qm \in Tracking
  BY DEF TypeOK
<1> QED BY <1>1, TrackingTouches DEF ObservedMove

LEMMA AutoStartKeepsOne ==
    ASSUME DispatchInv, NEW p \in Polls, NEW t \in Tickets,
           sweepAutoStartTickets(p, t), IInv'
    PROVE  DispatchInv'
<1>1. qm'.active = qm.active
  BY ApprovalFreesNothing DEF sweepAutoStartTickets, DispatchInv, IInv
<1>2. ListsAfter
  BY SameLists DEF sweepAutoStartTickets
<1> QED BY <1>1, <1>2, MoveKeepsOne DEF sweepAutoStartTickets

\* A deferred ticket is recovered only while it has no dispatch.
LEMMA RecoverKeepsOne ==
    ASSUME DispatchInv, NEW p \in Polls, NEW t \in Tickets, Recover(p, t),
           UNCHANGED escalating, IInv'
    PROVE  DispatchInv'
<1> DEFINE to == IF qm.count[t] >= MaxDispatchAttempts THEN "escalated"
                                                        ELSE "approved"
           tried == IF to = "approved"
                      THEN [qm EXCEPT !.recovered = @ \cup {t}] ELSE qm
<1>1. TypeOK /\ qm \in Tracking
  BY DEF DispatchInv, IInv, TypeOK
<1>2. /\ tried \in Tracking /\ tried.active = qm.active
      /\ tried.clocked = qm.clocked /\ tried.count = qm.count
  BY <1>1 DEF Tracking
<1>3. /\ UNCHANGED dispatch
      /\ \/ UNCHANGED <<ticket, qm>>
         \/ UNCHANGED ticket /\ qm' = tried
         \/ /\ t \notin qm.active /\ Move(t, to)
            /\ qm' = Observed(tried, t, ticket[t], to)
  BY DEF Recover
<1>4. to # "dead_letter"
  OBVIOUS
<1> HIDE DEF to, tried
<1>5. Calm
  BY <1>1, <1>2, <1>3, MoveCalm DEF Calm
<1>6. poll[p] \in Cycle /\ poll[p] # NoCycle /\ poll[p].pc = "recovering"
  BY <1>1, PollingType DEF Recover
<1>7. ListsAfter
  <2>1. PICK S : Advance(p, [poll[p] EXCEPT !.stale = S])
    <3>1. \/ Advance(p, [poll[p] EXCEPT !.stale = @ \ {t}])
          \/ Advance(p, [poll[p] EXCEPT !.stale = {}])
      BY DEF Recover
    <3> QED BY <3>1
  <2> DEFINE cycle == [poll[p] EXCEPT !.stale = S]
  <2>2. /\ cycle.candidates = poll[p].candidates
        /\ cycle.batch = poll[p].batch /\ cycle.pc = "recovering"
    BY <1>6 DEF Cycle
  <2>3. Advance(p, cycle)
    BY <2>1
  <2> HIDE DEF cycle
  <2>4. \A u \in cycle.candidates \cup cycle.batch : Waits(u)
    BY <1>6, <2>2 DEF DispatchInv, ListedWait
  <2> QED BY <1>6, <2>2, <2>3, <2>4, AdvanceLists
<1>8. EscalationsAfter
  <2>1. UNCHANGED ticket \/ Move(t, to)
    BY <1>3
  <2>2. \A u \in Tickets : ticket'[u] = "dead_letter"
                             => ticket[u] = "dead_letter"
    BY <1>1, <1>4, <2>1, MoveWithin
  <2> QED BY <2>2, SameEscalations
<1> QED BY <1>5, <1>7, <1>8, CalmKeepsOne

\* What is refused was listed, so the escalation frees no slot.
LEMMA RefuseKeepsOne ==
    ASSUME DispatchInv, NEW p \in Polls, NEW t \in Tickets, Refuse(p, t), IInv'
    PROVE  DispatchInv'
<1>1. poll[p] \in Cycle /\ poll[p] # NoCycle /\ poll[p].pc = "launching"
  BY PollingType DEF Refuse, DispatchInv, IInv
<1>2. /\ \A u \in poll[p].candidates \cup poll[p].batch : Waits(u)
      /\ poll[p].candidates = {}
  BY <1>1 DEF DispatchInv, ListedWait
<1> DEFINE cycle == [poll[p] EXCEPT !.batch = @ \ {t}]
<1>3. cycle.candidates = {} /\ cycle.batch = poll[p].batch \ {t}
  BY <1>1, <1>2 DEF Cycle
<1>4. Advance(p, cycle)
  BY DEF Refuse
<1> HIDE DEF cycle
<1>5. ListsAfter
  BY <1>1, <1>2, <1>3, <1>4, AdvanceLists
<1>6. t \notin qm.active
  BY <1>2 DEF Refuse, Waits
<1> QED BY <1>5, <1>6, MoveKeepsOne DEF Refuse

LEMMA PollPhaseKeepsOne ==
    ASSUME DispatchInv, NEW p \in Polls, PollPhase(p), IInv'
    PROVE  DispatchInv'
<1>1. CASE PollList(p) \/ QuietPhase(p)
  BY <1>1, PollListKeepsOne, QuietPhaseKeepsOne
<1>2. CASE \E t \in Tickets : sweepAutoStartTickets(p, t)
  BY <1>2, AutoStartKeepsOne
<1>3. CASE \E t \in Tickets : Recover(p, t)
  BY <1>3, RecoverKeepsOne DEF Recover
<1>4. CASE \E t \in Tickets : Launch(p, t)
  BY <1>4, LaunchKeepsOne DEF Launch
<1>5. CASE \E t \in Tickets : Refuse(p, t)
  BY <1>5, RefuseKeepsOne
<1> QED BY <1>1, <1>2, <1>3, <1>4, <1>5 DEF PollPhase, QuietPhase

(***************************************************************************)
(* The steps outside the cycle and the dispatches.                         *)
(***************************************************************************)

\* Of the moves of other actors ~Disturbs says what MoveKeepsOne asks.
LEMMA OthersKeepOne ==
    ASSUME DispatchInv, NEW t \in Tickets, NEW to, ObservedMove(t, to),
           moves < MoveBound, moves' = moves + 1,
           UNCHANGED <<poll, dispatch, escalating>>, ~Disturbs, IInv'
    PROVE  DispatchInv'
<1>1. TypeOK /\ moves' # moves
  BY LimitsAssumption DEF DispatchInv, IInv, TypeOK
<1>2. qm'.active = qm.active
  BY <1>1 DEF Disturbs
<1>3. Escalates(t) => to # "dead_letter"
  <2>1. ticket'[t] = to
    BY <1>1, MoveWithin DEF ObservedMove
  <2> QED BY <1>1, <2>1 DEF Disturbs, Escalates
<1> QED BY <1>2, <1>3, SameLists, MoveKeepsOne

LEMMA EscalationKeepsOne ==
    ASSUME DispatchInv, NEW t \in Tickets, EscalationStep(t), IInv'
    PROVE  DispatchInv'
<1>1. ListsAfter /\ UNCHANGED dispatch
  BY SameLists DEF EscalationStep, EscalationOnly
<1>2. CASE ReadForEscalation(t)
  <2>1. Calm
    BY <1>1, <1>2 DEF ReadForEscalation, Calm
  <2>2. \A u \in Tickets : Escalates(u)' => Escalates(u)
    <3> SUFFICES ASSUME NEW u \in Tickets,
                        NEW seen \in OshalTicketState \cup {None},
                        <<u, seen>> \in escalating'
                 PROVE  Escalates(u)
      BY DEF Escalates
    <3>1. <<u, seen>> \in escalating \/ <<u, seen>> = <<t, ticket[t]>>
      BY <1>2 DEF ReadForEscalation
    <3>2. <<t, None>> \in escalating
      BY <1>2 DEF ReadForEscalation
    <3> QED BY <3>1, <3>2 DEF Escalates
  <2>3. EscalationsAfter
    BY <1>2, <2>2 DEF ReadForEscalation, DispatchInv, EscalatedSpent,
                      EscalationsAfter, Spent
  <2> QED BY <1>1, <2>1, <2>3, CalmKeepsOne
<1>3. ASSUME NEW seen \in OshalTicketState, CommitEscalation(t, seen)
      PROVE  DispatchInv'
  <2>1. escalating' \subseteq escalating
    BY <1>3 DEF CommitEscalation
  <2>2. t \notin qm.active
    BY <1>3 DEF CommitEscalation, DispatchInv, EscalatedSpent, Escalates,
                Spent
  <2>3. CASE ObservedMove(t, "escalated")
    BY <1>1, <2>1, <2>2, <2>3, MoveKeepsOne
  <2>4. CASE UNCHANGED <<ticket, qm>>
    <3>1. Calm
      BY <1>1, <2>4 DEF Calm
    <3> QED BY <1>1, <2>1, <2>4, <3>1, SameEscalations, CalmKeepsOne
  <2> QED BY <1>3, <2>3, <2>4 DEF CommitEscalation
<1> QED BY <1>2, <1>3 DEF EscalationStep

LEMMA OutsideKeepsOne ==
    ASSUME DispatchInv, Outside, ~Disturbs, IInv'
    PROVE  DispatchInv'
<1>1. CASE \E p \in Polls, t \in Tickets : Reroute(p, t)
  BY <1>1, OthersKeepOne DEF Reroute
<1>2. CASE \E t \in Tickets : EscalationStep(t)
  BY <1>2, EscalationKeepsOne
<1>3. CASE \E t \in Tickets : OtherActor(t)
  <2>1. PICK t \in Tickets : OtherActor(t)
    BY <1>3
  <2>2. \E to : ObservedMove(t, to)
    BY <2>1
       DEF OtherActor, OperatorMove, QuarantineEscalated, RequeueDeadLetter
  <2> QED BY <2>1, <2>2, OthersKeepOne DEF OtherActor
<1>4. ASSUME UNCHANGED <<ticket, qm, poll, dispatch, escalating>>
      PROVE  DispatchInv'
  BY <1>4, SameLists, SameEscalations, CalmKeepsOne DEF Calm
<1>5. CASE \E t \in Tickets : recoverOrphanedTickets(t)
  <2>1. PICK t \in Tickets : recoverOrphanedTickets(t)
    BY <1>5
  <2>2. CASE ObservedMove(t, "approved")
    <3>1. qm'.active = qm.active
      BY <2>2, ApprovalFreesNothing DEF DispatchInv, IInv
    <3> QED BY <2>1, <2>2, <3>1, SameLists, MoveKeepsOne
            DEF recoverOrphanedTickets
  <2> QED BY <1>4, <2>1, <2>2 DEF recoverOrphanedTickets
<1>6. CASE ListOrphans
  BY <1>4, <1>6 DEF ListOrphans
<1> QED BY <1>1, <1>2, <1>3, <1>5, <1>6 DEF Outside

LEMMA DispatchInvInit ==
    ASSUME Init
    PROVE  DispatchInv
<1>1. /\ qm.active = {} /\ qm.clocked = {}
      /\ \A t \in Tickets : qm.count[t] = 0
      /\ \A d \in Dispatches : dispatch[d] = NoCall
  BY DEF Init, NoTracking
<1>2. OneEach
  BY <1>1 DEF OneEach, Running
<1>3. BelowLimit
  BY <1>1, LimitsAssumption DEF BelowLimit, AttemptsWithinBreaker, At, Running
<1>4. ListedWait /\ EscalatedSpent
  BY DEF Init, ListedWait, EscalatedSpent, Escalates
<1> QED BY <1>2, <1>3, <1>4, IInvInit DEF DispatchInv

LEMMA DispatchInvStep ==
    ASSUME DispatchInv, [Next /\ ~Disturbs]_vars
    PROVE  DispatchInv'
<1>1. IInv'
  BY IInvStep DEF DispatchInv
<1>2. CASE UNCHANGED vars
  BY <1>1, <1>2, SameLists, SameEscalations, CalmKeepsOne DEF Calm, vars
<1>3. CASE Restart
  <2>1. /\ qm' = NoTracking /\ escalating' = {}
        /\ \A p \in Polls : poll'[p] = NoCycle
        /\ \A d \in Dispatches : dispatch'[d] = NoCall
    BY <1>3 DEF Restart
  <2>2. /\ qm'.active = {} /\ qm'.clocked = {}
        /\ \A t \in Tickets : qm'.count[t] = 0
    BY <2>1 DEF NoTracking
  <2>3. OneEach'
    BY <2>1, <2>2 DEF OneEach, Running
  <2>4. BelowLimit'
    BY <2>1, <2>2, LimitsAssumption
       DEF BelowLimit, AttemptsWithinBreaker, At, Running
  <2>5. ListedWait' /\ EscalatedSpent'
    BY <2>1 DEF ListedWait, EscalatedSpent, Escalates
  <2> QED BY <1>1, <2>3, <2>4, <2>5 DEF DispatchInv
<1>4. CASE \E d \in Dispatches : DispatchStep(d)
  BY <1>1, <1>4, DispatchStepKeepsOne
<1>5. CASE (\E p \in Polls : PollStart(p)) /\ ~Disturbs
  BY <1>1, <1>5, PollStartKeepsOne
<1>6. CASE \E p \in Polls : PollPhase(p)
  BY <1>1, <1>6, PollPhaseKeepsOne
<1>7. CASE Outside /\ ~Disturbs
  BY <1>1, <1>7, OutsideKeepsOne
<1> QED
  BY <1>2, <1>3, <1>4, <1>5, <1>6, <1>7, NextCases DEF PollStep

\* No step of a process start is a move of another actor.
LEMMA UndisturbedSteps ==
    ASSUME UndisturbedNext
    PROVE  Next /\ ~Disturbs
<1>1. CASE RunStep /\ ~Disturbs
  BY <1>1 DEF Next
<1>2. CASE StartStep
  <2>1. moves' = moves
    BY <1>2 DEF StartStep, Restart, ListOrphans, recoverOrphanedTickets
  <2> QED BY <1>2, <2>1 DEF Next, Disturbs
<1> QED BY <1>1, <1>2 DEF UndisturbedNext

LEMMA DispatchInvHolds == UndisturbedSpec => []DispatchInv
<1>1. Init => DispatchInv
  BY DispatchInvInit
<1>2. DispatchInv /\ [UndisturbedNext]_vars => DispatchInv'
  BY DispatchInvStep, UndisturbedSteps
<1> QED BY <1>1, <1>2, PTL DEF UndisturbedSpec

\* Undisturbed, overlapping ticks, sweeps, startup recovery and whatever else
\* other actors do to a ticket never give it a second dispatch, and never take
\* the slot from the one it has.
THEOREM OneDispatchAtATime == UndisturbedSpec => []OneDispatchPerTicket
<1>1. ASSUME DispatchInv, NEW t \in Tickets
      PROVE  Cardinality(DispatchesOf(t)) <= 1
  <2>1. DispatchesOf(t) = {} \/ \E d : DispatchesOf(t) = {d}
    BY <1>1 DEF DispatchInv, OneEach, DispatchesOf
  <2>2. CASE DispatchesOf(t) = {}
    BY <2>2, FS_EmptySet
  <2>3. CASE \E d : DispatchesOf(t) = {d}
    BY <2>3, FS_Singleton
  <2> QED BY <2>1, <2>2, <2>3
<1>2. DispatchInv => OneDispatchPerTicket
  BY <1>1 DEF OneDispatchPerTicket, DispatchInv, OneEach, DispatchesOf
<1> QED BY <1>2, DispatchInvHolds, PTL

\* Undisturbed, the attempts of a ticket never pass the breaker's limit, though
\* they are compared at the listing and counted several awaits later.
THEOREM BreakerHolds == UndisturbedSpec => []AttemptsWithinBreaker
<1>1. DispatchInv => AttemptsWithinBreaker
  BY DEF DispatchInv, BelowLimit
<1> QED BY <1>1, DispatchInvHolds, PTL
=============================================================================
