------------------------ MODULE ParentAssemblyProofs ------------------------
(***************************************************************************)
(* What ParentAssembly guarantees for every number of units, plans,        *)
(* failures and restarts, whether or not successes report a stalled        *)
(* provider and listings fail, and whatever tickets operators cancel.      *)
(***************************************************************************)
EXTENDS ParentAssembly, TLAPS

(***************************************************************************)
(* The family.                                                             *)
(***************************************************************************)
LEMMA FamilyFacts ==
    /\ Root \in Family /\ Root \notin Children
    /\ Children \subseteq Family /\ Children \subseteq Nat \ {0}
    /\ Family \subseteq Checkers /\ Sweep \in Checkers /\ Sweep \notin Family
    /\ \A t \in Family : t # Root => t \in Children
<1>1. Units * Plans \in Nat
  BY UnitsAssumption
<1> QED BY <1>1 DEF Root, Children, Family, Checkers, Sweep

Statuses == OshalTicketState \cup {Absent}

LEMMA TableStates ==
    {"approved", "complete", "customer_action", "escalated", "dead_letter",
     "cancelled", "approval_required", "in_process_build",
     "in_process_discovery"} \subseteq OshalTicketState
BY DEF OshalTicketState

(***************************************************************************)
(* Type correctness.                                                       *)
(***************************************************************************)
LEMMA WrittenType ==
    ASSUME TypeOK, NEW t \in Family, NEW to \in Statuses
    PROVE  Written(t, to) \in [Family -> Statuses]
BY DEF TypeOK, Written, Statuses

LEMMA ObservedType ==
    ASSUME NEW q \in Tracking, NEW t \in Family, NEW to
    PROVE  Observed(q, t, to) \in Tracking /\ Released(q, t) \in Tracking
BY DEF Tracking, Observed, Released

LEMMA TrackedType ==
    ASSUME TypeOK, NEW t \in Family, NEW to
    PROVE  /\ Tracked(t, to) \in Tracking
           /\ Released(Tracked(t, to), t) \in Tracking
           /\ \A u \in Family : Released(Tracked(t, to), u) \in Tracking
           /\ Released(qm, t) \in Tracking
<1>1. qm \in Tracking
  BY DEF TypeOK
<1>2. Tracked(t, to) \in Tracking
  BY <1>1, ObservedType DEF Tracked
<1> QED BY <1>1, <1>2, ObservedType

LEMMA ConsequenceType ==
    ASSUME TypeOK, NEW k \in Checkers
    PROVE  Consequence(k) \in Statuses
BY FamilyFacts, TableStates DEF TypeOK, Consequence, Statuses

LEMMA JudgementType ==
    ASSUME NEW children
    PROVE  Judgement(children) \in Verdict
BY DEF Judgement, Verdict

LEMMA ContinueType ==
    ASSUME TypeOK, NEW t \in Family, NEW pc \in Run, Continue(t, pc)
    PROVE  run' \in [Family -> Run]
BY DEF TypeOK, Continue

LEMMA ListType ==
    ASSUME TypeOK, NEW k \in Checkers, ListChildren(k)
    PROVE  /\ verdict' \in [Checkers -> Verdict]
           /\ listed' \in [Checkers -> SUBSET Children]
BY JudgementType DEF TypeOK, ListChildren, Created

LEMMA AnsweredType ==
    ASSUME TypeOK, NEW k \in Checkers, Answered(k)
    PROVE  /\ verdict' \in [Checkers -> Verdict]
           /\ listed' \in [Checkers -> SUBSET Children]
BY DEF TypeOK, Answered, Verdict

LEMMA RunStepType ==
    ASSUME TypeOK, NEW t \in Family, RunStep(t)
    PROVE  TypeOK'
<1>1. Run = {"idle", "planning", "creating", "working", "gating", "hooking"}
  BY DEF Run
<1>2. {"approved", "complete", "escalated", "dead_letter",
       "approval_required"} \subseteq Statuses
  BY TableStates DEF Statuses
<1>3. ASSUME t = Root, PlanningReturns PROVE TypeOK'
  <2>1. CASE Proceed(Root, "creating") /\ plan < Plans /\ plan' = plan + 1
               /\ unit' = 1 /\ UNCHANGED status
    <3>1. run' \in [Family -> Run]
      BY <1>1, <2>1, FamilyFacts, ContinueType DEF Proceed, Return
    <3>2. qm' \in Tracking
      BY <2>1, FamilyFacts, TrackedType DEF Proceed, TypeOK
    <3>3. plan' \in 0 .. Plans /\ unit' \in 1 .. Units + 1
      BY <2>1, UnitsAssumption DEF TypeOK
    <3> QED BY <1>3, <2>1, <3>1, <3>2, <3>3
            DEF PlanningReturns, RunStep, TypeOK
  <2>2. CASE /\ status' = Written(Root, "escalated")
             /\ qm' = Released(Tracked(Root, "escalated"), Root)
             /\ Return(Root) /\ UNCHANGED <<plan, unit>>
    <3>1. run' \in [Family -> Run]
      BY <1>1, <2>2, FamilyFacts, ContinueType DEF Return
    <3>2. status' \in [Family -> Statuses] /\ qm' \in Tracking
      BY <1>2, <2>2, FamilyFacts, WrittenType, TrackedType
    <3> QED BY <1>3, <2>2, <3>1, <3>2
            DEF PlanningReturns, RunStep, TypeOK, Statuses
  <2> QED BY <1>3, <2>1, <2>2 DEF PlanningReturns
<1>4. ASSUME t = Root, CreateChild PROVE TypeOK'
  <2>1. status' \in [Family -> Statuses]
    BY <1>2, <1>4 DEF CreateChild, TypeOK, Statuses
  <2>2. unit' \in 1 .. Units + 1
    BY <1>4, UnitsAssumption DEF CreateChild, TypeOK
  <2> QED BY <1>4, <2>1, <2>2 DEF CreateChild, RunStep, TypeOK, Statuses
<1>5. ASSUME t = Root, PlanCreated PROVE TypeOK'
  <2>1. run' \in [Family -> Run]
    BY <1>1, <1>5, FamilyFacts, ContinueType DEF PlanCreated, Return
  <2>2. status' \in [Family -> Statuses] /\ qm' \in Tracking
    BY <1>2, <1>5, FamilyFacts, WrittenType, TrackedType
       DEF PlanCreated, TypeOK, Statuses
  <2> QED BY <1>5, <2>1, <2>2 DEF PlanCreated, RunStep, TypeOK, Statuses
<1>6. ASSUME t # Root, WorkReturns(t) PROVE TypeOK'
  <2>1. run' \in [Family -> Run]
    BY <1>1, <1>6, ContinueType DEF WorkReturns, Return
  <2>2. status' \in [Family -> Statuses] /\ qm' \in Tracking
    <3>1. CASE UNCHANGED status /\ qm' = Released(qm, t)
      BY <3>1, TrackedType DEF TypeOK, Statuses
    <3>2. CASE TryMove(t, "complete")
      BY <1>2, <3>2, WrittenType, TrackedType DEF TryMove
    <3> QED BY <1>6, <3>1, <3>2 DEF WorkReturns
  <2>3. item' \in [Children -> WorkItems]
    BY <1>6 DEF WorkReturns, TypeOK, WorkItems
  <2> QED BY <1>6, <2>1, <2>2, <2>3 DEF WorkReturns, RunStep, TypeOK, Statuses
<1>7. ASSUME AskForParent(t) PROVE TypeOK'
  <2>1. /\ verdict' \in [Checkers -> Verdict]
        /\ listed' \in [Checkers -> SUBSET Children]
    BY <1>7, FamilyFacts, ListType DEF AskForParent
  <2> QED BY <1>7, <2>1 DEF AskForParent, RunStep, TypeOK
<1>8. ASSUME ParentAnswered(t) PROVE TypeOK'
  <2>1. run' \in [Family -> Run]
    BY <1>1, <1>8, ContinueType DEF ParentAnswered, Return
  <2>2. Consequence(t) \in Statuses
    BY FamilyFacts, ConsequenceType
  <2>3. status' \in [Family -> Statuses] /\ qm' \in Tracking
    BY <1>8, <2>2, FamilyFacts, WrittenType, TrackedType DEF ParentAnswered
  <2>4. /\ verdict' \in [Checkers -> Verdict]
        /\ listed' \in [Checkers -> SUBSET Children]
    BY <1>8, FamilyFacts, AnsweredType DEF ParentAnswered
  <2> QED BY <1>8, <2>1, <2>3, <2>4
          DEF ParentAnswered, RunStep, TypeOK, Statuses
<1>9. ASSUME WorkFails(t) PROVE TypeOK'
  <2>1. run' \in [Family -> Run]
    BY <1>1, <1>9, ContinueType DEF WorkFails, Return
  <2>2. status' \in [Family -> Statuses] /\ qm' \in Tracking
    <3>1. \A to \in {"approved", "escalated", "dead_letter"} :
            /\ Written(t, to) \in [Family -> Statuses]
            /\ Released(Tracked(t, to), t) \in Tracking
      BY <1>2, WrittenType, TrackedType
    <3>2. status \in [Family -> Statuses] /\ Released(qm, t) \in Tracking
      BY TrackedType DEF TypeOK, Statuses
    <3> QED BY <1>9, <3>1, <3>2 DEF WorkFails, Fail
  <2>3. failures' \in 0 .. FailureBound
    BY <1>9, BoundsAssumption DEF WorkFails, TypeOK
  <2> QED BY <1>9, <2>1, <2>2, <2>3 DEF WorkFails, RunStep, TypeOK, Statuses
<1> QED
  BY <1>3, <1>4, <1>5, <1>6, <1>7, <1>8, <1>9 DEF RunStep

\* A cycle keeps its type when its lists are replaced by parts of the family.
LEMMA CycleUpdates ==
    ASSUME NEW c \in Cycle, NEW S \in SUBSET Family,
           NEW B \in SUBSET Family,
           NEW pc \in {"idle", "deferred", "recovering", "reconciling",
                       "checking", "gating", "launching"},
           NEW o \in {"none", "running", "terminal"}
    PROVE  /\ [c EXCEPT !.pc = pc] \in Cycle
           /\ [c EXCEPT !.pc = pc, !.candidates = S] \in Cycle
           /\ [c EXCEPT !.pc = pc, !.todo = S] \in Cycle
           /\ [c EXCEPT !.pc = pc, !.todo = S, !.offspring = o] \in Cycle
           /\ [c EXCEPT !.todo = S] \in Cycle
           /\ [c EXCEPT !.batch = S] \in Cycle
           /\ [c EXCEPT !.candidates = S, !.batch = B] \in Cycle
BY DEF Cycle

LEMMA TryMoveType ==
    ASSUME TypeOK, NEW t \in Family, NEW to \in Statuses, TryMove(t, to)
    PROVE  status' \in [Family -> Statuses] /\ qm' \in Tracking
BY WrittenType, TrackedType DEF TryMove

LEMMA PollStepType ==
    ASSUME TypeOK, PollStep
    PROVE  TypeOK'
<1> DEFINE Typed == /\ status' \in [Family -> Statuses]
                    /\ item' \in [Children -> WorkItems]
                    /\ run' \in [Family -> Run]
                    /\ verdict' \in [Checkers -> Verdict]
                    /\ listed' \in [Checkers -> SUBSET Children]
                    /\ qm' \in Tracking
                    /\ poll' \in Cycle
<1>1. /\ poll \in Cycle /\ qm \in Tracking
      /\ status \in [Family -> Statuses] /\ item \in [Children -> WorkItems]
      /\ run \in [Family -> Run] /\ verdict \in [Checkers -> Verdict]
      /\ listed \in [Checkers -> SUBSET Children]
  BY DEF TypeOK, Statuses
<1>2. /\ poll.todo \in SUBSET Family /\ poll.candidates \in SUBSET Family
      /\ poll.batch \in SUBSET Family
  BY <1>1 DEF Cycle
<1>3. {"approved", "complete", "escalated", "cancelled", "in_process_build",
       "in_process_discovery", Absent} \subseteq Statuses
  BY TableStates DEF Statuses
<1>4. ASSUME PollStart PROVE Typed
  <2> DEFINE S == {t \in Family \ qm.active : status[t] = "approved"}
  <2>1. NoCycle \in Cycle /\ S \in SUBSET Family
    BY DEF NoCycle, Cycle
  <2>2. poll' = [NoCycle EXCEPT !.pc = "deferred", !.candidates = S]
    BY <1>4 DEF PollStart
  <2> HIDE DEF S
  <2>3. poll' \in Cycle
    BY <2>1, <2>2, CycleUpdates
  <2> QED BY <1>1, <1>4, <2>3 DEF PollStart
<1>5. ASSUME PollDeferred PROVE Typed
  <2>1. PICK stale \in SUBSET Family, o \in {"none", "running", "terminal"} :
          poll' = [poll EXCEPT !.pc = "recovering", !.todo = stale,
                               !.offspring = o]
    <3> DEFINE o == IF Created = {} THEN "none"
                    ELSE IF \A c \in Created : status[c] \in
                              Fail \cup {"complete", "cancelled"}
                      THEN "terminal"
                    ELSE "running"
    <3>1. o \in {"none", "running", "terminal"}
      OBVIOUS
    <3>2. \E stale \in SUBSET Family :
            poll' = [poll EXCEPT !.pc = "recovering", !.todo = stale,
                                 !.offspring = o]
      BY <1>5 DEF PollDeferred
    <3> QED BY <3>1, <3>2
  <2>2. poll' \in Cycle
    BY <1>1, <2>1, CycleUpdates
  <2> QED BY <1>1, <1>5, <2>2 DEF PollDeferred
<1>6. ASSUME NEW t \in Family, Recover(t) PROVE Typed
  <2>1. PICK S \in SUBSET Family : poll' = [poll EXCEPT !.todo = S]
    <3>1. \/ poll' = [poll EXCEPT !.todo = @ \ {t}]
          \/ poll' = [poll EXCEPT !.todo = {}]
      BY <1>6 DEF Recover
    <3> QED BY <1>2, <3>1
  <2>2. poll' \in Cycle
    BY <1>1, <2>1, CycleUpdates
  <2>3. /\ verdict' \in [Checkers -> Verdict]
        /\ listed' \in [Checkers -> SUBSET Children]
    BY <1>1, <1>6, FamilyFacts, ListType DEF Recover
  <2>4. status' \in [Family -> Statuses] /\ qm' \in Tracking
    <3>1. CASE UNCHANGED <<status, qm>>
      BY <1>1, <3>1
    <3>2. CASE \E to \in {"approved", "escalated"} :
                 /\ status' = Written(t, to)
                 /\ qm' = IF to = "approved"
                            THEN [Tracked(t, to) EXCEPT
                                    !.recovered = @ \cup {t}]
                            ELSE Tracked(t, to)
      <4>1. PICK to \in {"approved", "escalated"} :
                 /\ status' = Written(t, to)
                 /\ qm' = IF to = "approved"
                            THEN [Tracked(t, to) EXCEPT
                                    !.recovered = @ \cup {t}]
                            ELSE Tracked(t, to)
        BY <3>2
      <4>2. status' \in [Family -> Statuses]
        BY <1>3, <4>1, WrittenType
      <4>3. Tracked(t, to) \in Tracking
        BY TrackedType
      <4>4. qm' \in Tracking
        BY <4>1, <4>3 DEF Tracking
      <4> QED BY <4>2, <4>4
    <3> QED BY <1>6, <3>1, <3>2 DEF Recover
  <2> QED BY <1>1, <1>6, <2>2, <2>3, <2>4 DEF Recover
<1>7. ASSUME SweepAnswered PROVE Typed
  <2>1. status' \in [Family -> Statuses] /\ qm' \in Tracking
    BY <1>7, FamilyFacts, ConsequenceType, TryMoveType DEF SweepAnswered
  <2>2. poll' \in Cycle
    <3>1. [poll EXCEPT !.pc = "gating"] \in Cycle
      BY <1>1, <1>2, CycleUpdates
    <3> QED BY <1>1, <1>7, <3>1 DEF SweepAnswered
  <2>3. /\ verdict' \in [Checkers -> Verdict]
        /\ listed' \in [Checkers -> SUBSET Children]
    BY <1>7, FamilyFacts, AnsweredType DEF SweepAnswered
  <2> QED BY <1>1, <1>7, <2>1, <2>2, <2>3 DEF SweepAnswered
<1>8. ASSUME sweepStaleParents PROVE Typed
  <2>1. PICK S \in SUBSET Family :
          \/ poll' = [poll EXCEPT !.pc = "reconciling", !.todo = S]
          \/ poll' = [poll EXCEPT !.pc = "gating"]
    <3> DEFINE S == {c \in Created :
                       status[c] \in WORK_ITEM_RECONCILABLE_CHILD_STATES}
    <3>1. S \in SUBSET Family
      BY FamilyFacts DEF Created
    <3>2. \/ poll' = [poll EXCEPT !.pc = "reconciling", !.todo = S]
          \/ poll' = [poll EXCEPT !.pc = "gating"]
      BY <1>8 DEF sweepStaleParents
    <3> QED BY <3>1, <3>2
  <2>2. /\ [poll EXCEPT !.pc = "reconciling", !.todo = S] \in Cycle
        /\ [poll EXCEPT !.pc = "gating"] \in Cycle
    BY <1>1, CycleUpdates
  <2>3. poll' \in Cycle
    BY <2>1, <2>2
  <2> QED BY <1>1, <1>8, <2>3 DEF sweepStaleParents
<1>9. ASSUME NEW c \in Children, reconcileChildTicketsFromWorkItems(c)
      PROVE  Typed
  <2>1. PICK to \in Statuses : TryMove(c, to)
    <3>1. c \in Family
      BY FamilyFacts
    <3>2. status[c] \in Statuses
      BY <1>1, <3>1
    <3> QED BY <1>3, <1>9, <3>2 DEF reconcileChildTicketsFromWorkItems
  <2>2. status' \in [Family -> Statuses] /\ qm' \in Tracking
    BY <2>1, FamilyFacts, TryMoveType
  <2>3. poll' \in Cycle
    BY <1>1, <1>2, <1>9, CycleUpdates DEF reconcileChildTicketsFromWorkItems
  <2> QED BY <1>1, <1>9, <2>2, <2>3 DEF reconcileChildTicketsFromWorkItems
<1>10. ASSUME CheckStaleParent PROVE Typed
  <2>1. /\ verdict' \in [Checkers -> Verdict]
        /\ listed' \in [Checkers -> SUBSET Children]
    BY <1>10, FamilyFacts, ListType DEF CheckStaleParent
  <2>2. poll' \in Cycle
    BY <1>1, <1>2, <1>10, CycleUpdates DEF CheckStaleParent
  <2> QED BY <1>1, <1>10, <2>1, <2>2 DEF CheckStaleParent
<1>11. ASSUME NEW t \in Family, Consider(t) PROVE Typed
  <2>1. PICK B \in SUBSET Family :
          poll' = [poll EXCEPT !.candidates = @ \ {t}, !.batch = B]
    <3>1. \/ poll' = [poll EXCEPT !.candidates = @ \ {t},
                                   !.batch = poll.batch \cup {t}]
          \/ poll' = [poll EXCEPT !.candidates = @ \ {t},
                                   !.batch = poll.batch]
      BY <1>11 DEF Consider
    <3> QED BY <1>2, <3>1
  <2>2. poll' \in Cycle
    BY <1>1, <1>2, <2>1, CycleUpdates
  <2>3. terminalChildStatusForParentState(status[Root]) \in Statuses
    BY <1>3 DEF terminalChildStatusForParentState
  <2>4. status' \in [Family -> Statuses] /\ qm' \in Tracking
    BY <1>1, <1>11, <2>3, TryMoveType DEF Consider
  <2> QED BY <1>1, <1>11, <2>2, <2>4 DEF Consider
<1>12. ASSUME PollBatched PROVE Typed
  BY <1>1, <1>2, <1>12, CycleUpdates DEF PollBatched
<1>13. ASSUME NEW t \in Family, Launch(t) PROVE Typed
  <2>1. poll' \in Cycle
    BY <1>1, <1>2, <1>13, CycleUpdates DEF Launch
  <2>2. EntryState(t) \in Statuses
    BY <1>3 DEF EntryState
  <2>3. status' \in [Family -> Statuses] /\ qm' \in Tracking
    <3>1. CASE /\ status' = Written(t, EntryState(t))
               /\ qm' = [qm EXCEPT !.active = @ \cup {t}]
      BY <1>1, <2>2, <3>1, WrittenType DEF Tracking
    <3>2. CASE TryMove(t, "approved")
      BY <1>3, <3>2, TryMoveType
    <3> QED BY <1>13, <3>1, <3>2 DEF Launch
  <2>4. run' \in [Family -> Run]
    <3>1. {"planning", "working"} \subseteq Run
      BY DEF Run
    <3> QED BY <1>1, <1>13, <3>1, ContinueType DEF Launch
  <2>5. item' \in [Children -> WorkItems]
    <3>1. "active" \in WorkItems
      BY DEF WorkItems
    <3> QED BY <1>1, <1>13, <3>1 DEF Launch
  <2> QED BY <1>1, <1>13, <2>1, <2>3, <2>4, <2>5 DEF Launch
<1>14. ASSUME NEW t \in Family, Skip(t) PROVE Typed
  BY <1>1, <1>2, <1>14, CycleUpdates DEF Skip
<1>15. ASSUME PollEnd PROVE Typed
  BY <1>1, <1>15 DEF PollEnd, NoCycle, Cycle
<1>16. Typed
  BY <1>4, <1>5, <1>6, <1>7, <1>8, <1>9, <1>10, <1>11, <1>12, <1>13, <1>14,
     <1>15 DEF PollStep
<1> QED BY <1>16 DEF PollStep, PollOnly, TypeOK, Statuses

LEMMA OtherStepType ==
    ASSUME TypeOK,
           \/ \E c \in Children : \/ recordResult(c)
                                  \/ updateTicketTerminalState(c)
           \/ \E t \in Family : Cancel(t)
           \/ OpenBuildGate \/ Restart
    PROVE  TypeOK'
<1>1. {"approved", "complete", "escalated", "cancelled", "in_process_build"}
        \subseteq Statuses
  BY TableStates DEF Statuses
<1>2. ASSUME NEW c \in Children, recordResult(c) PROVE TypeOK'
  BY <1>2 DEF recordResult, TypeOK, WorkItems
<1>3. ASSUME NEW c \in Children, updateTicketTerminalState(c) PROVE TypeOK'
  <2>1. c \in Family /\ tells[c] \in Statuses /\ qm \in Tracking
    BY <1>1, <1>3, FamilyFacts DEF updateTicketTerminalState, TypeOK
  <2>2. status' \in [Family -> Statuses] /\ qm' \in Tracking
    BY <1>3, <2>1, WrittenType, TrackedType
       DEF updateTicketTerminalState, TypeOK, Statuses
  <2> QED BY <1>3, <2>2 DEF updateTicketTerminalState, TypeOK, Statuses
<1>4. ASSUME NEW t \in Family, Cancel(t) PROVE TypeOK'
  <2>1. status' \in [Family -> Statuses] /\ qm' \in Tracking
    BY <1>1, <1>4, TryMoveType DEF Cancel
  <2>2. cutShort' \in BOOLEAN
    BY <1>4 DEF Cancel
  <2> QED BY <1>4, <2>1, <2>2 DEF Cancel, TypeOK, Statuses
<1>5. ASSUME OpenBuildGate PROVE TypeOK'
  <2>1. status' \in [Family -> Statuses] /\ qm' \in Tracking
    BY <1>1, <1>5, FamilyFacts, TryMoveType DEF OpenBuildGate
  <2> QED BY <1>5, <2>1 DEF OpenBuildGate, TypeOK, Statuses
<1>6. ASSUME Restart PROVE TypeOK'
  <2>1. status' \in [Family -> Statuses]
    BY <1>1, <1>6, FamilyFacts, WrittenType DEF Restart, TypeOK, Statuses
  <2>2. NoTracking \in Tracking /\ NoCycle \in Cycle
    BY DEF NoTracking, Tracking, NoCycle, Cycle
  <2>3. restarts' \in 0 .. RestartBound
    BY <1>6, BoundsAssumption DEF Restart, TypeOK
  <2> QED BY <1>6, <2>1, <2>2, <2>3
          DEF Restart, TypeOK, Statuses, Run, Verdict
<1> QED BY <1>2, <1>3, <1>4, <1>5, <1>6

LEMMA TypeInit ==
    ASSUME Init
    PROVE  TypeOK
<1>1. NoTracking \in Tracking /\ NoCycle \in Cycle
  BY DEF NoTracking, Tracking, NoCycle, Cycle
<1>2. 0 \in 0 .. Plans /\ 1 \in 1 .. Units + 1
  BY UnitsAssumption
<1>3. 0 \in 0 .. FailureBound /\ 0 \in 0 .. RestartBound
  BY BoundsAssumption
<1> QED BY <1>1, <1>2, <1>3, TableStates
        DEF Init, TypeOK, WorkItems, Run, Verdict

LEMMA TypeStep ==
    ASSUME TypeOK, [Next]_vars
    PROVE  TypeOK'
<1>1. CASE UNCHANGED vars
  BY <1>1 DEF TypeOK, vars
<1> QED BY <1>1, RunStepType, PollStepType, OtherStepType DEF Next

\* Whatever interleaves, the family, its work items, the cycle and the checks
\* under way are what their declarations say.
THEOREM FamilyTypeCorrect == Spec => []TypeOK
<1>1. Init => TypeOK
  BY TypeInit
<1>2. TypeOK /\ [Next]_vars => TypeOK'
  BY TypeStep
<1> QED BY <1>1, <1>2, PTL DEF Spec

(***************************************************************************)
(* What both orders rest on: the children are created in planning order,   *)
(* one plan after the other, only created ones are ever listed, worked on  *)
(* or dispatched, and a ticket that is complete or cancelled stays so.     *)
(***************************************************************************)
ChildTargets == {"approved", "in_process_build", "complete", "escalated",
                 "dead_letter", "cancelled"}

Busy(c) ==
    \/ run[c] # "idle" \/ item[c] # "none" \/ tells[c] # "none"
    \/ c \in poll.candidates \cup poll.batch \cup poll.todo

Base ==
    /\ TypeOK
    /\ \A c \in Children : status[c] \in ChildTargets \cup {Absent}
    /\ \A c \in Created : plan # 0 /\ c < Child(unit)
    /\ run[Root] = "creating" => plan # 0
    /\ \A c \in Children : Busy(c) => c \in Created
    /\ \A c \in Children : run[c] \in {"idle", "working", "hooking"}
    /\ run[Root] \in {"idle", "planning", "creating", "gating"}
    /\ status[Root] # Absent

Done(c) == status[c] \in {"complete", "cancelled"}

\* The numbers of the children of a plan, and of the next one.
LEMMA PlanNumbers ==
    ASSUME NEW p \in 1 .. Plans
    PROVE  /\ (p - 1) * Units \in Nat
           /\ p * Units = (p - 1) * Units + Units
           /\ p * Units <= Units * Plans
<1>1. Units \in Nat \ {0} /\ Plans \in Nat \ {0} /\ p \in Nat \ {0}
  BY UnitsAssumption
<1>2. p * Units = (p - 1) * Units + Units
  BY <1>1
<1>3. (p - 1) * Units \in Nat
  BY <1>1
<1>4. (Plans - p) * Units \in Nat
  BY <1>1
<1>5. Units * Plans = p * Units + (Plans - p) * Units
  BY <1>1
<1>6. p * Units \in Nat
  BY <1>1
<1> HIDE DEF Root
<1> QED BY <1>2, <1>3, <1>4, <1>5, <1>6

LEMMA ChildNumbers ==
    ASSUME TypeOK, plan # 0
    PROVE  /\ Child(unit) \in Nat \ {0}
           /\ Child(unit + 1) = Child(unit) + 1
           /\ unit <= Units => Child(unit) \in Children
           /\ Child(unit) <= plan * Units + 1
           /\ plan = 1 => \A u \in Nat : Child(u) = u
<1>1. Units \in Nat \ {0} /\ Plans \in Nat \ {0}
  BY UnitsAssumption
<1>2. plan \in 1 .. Plans /\ unit \in 1 .. Units + 1
  BY <1>1 DEF TypeOK
<1> DEFINE before == (plan - 1) * Units
           all == Units * Plans
           upto == plan * Units
<1>3. before \in Nat /\ upto = before + Units /\ upto <= all
  BY <1>2, PlanNumbers
<1>4. all \in Nat
  BY <1>1
<1>5. Child(unit) = before + unit /\ Child(unit + 1) = before + (unit + 1)
  BY DEF Child
<1>6. Children = 1 .. all
  BY DEF Children
<1>7. ASSUME plan = 1, NEW u \in Nat PROVE Child(u) = u
  <2>1. (plan - 1) * Units = 0
    BY <1>1, <1>7
  <2> QED BY <2>1 DEF Child
<1>8. Child(unit) <= upto + 1
  <2> HIDE DEF before, upto
  <2> QED BY <1>1, <1>2, <1>3, <1>5
<1> HIDE DEF before, all, upto
<1>9. /\ Child(unit) \in Nat \ {0} /\ Child(unit + 1) = Child(unit) + 1
      /\ unit <= Units => Child(unit) \in 1 .. all
  BY <1>1, <1>2, <1>3, <1>4, <1>5
<1> QED BY <1>6, <1>7, <1>8, <1>9 DEF upto

\* What the table says of the states nothing in this module leaves.
LEMMA TableRows ==
    /\ VALID_TRANSITIONS["complete"] = {"backlog"}
    /\ VALID_TRANSITIONS["cancelled"] = {"backlog"}
    /\ \A s \in OshalTicketState : s \notin VALID_TRANSITIONS[s]
<1>1. /\ VALID_TRANSITIONS["complete"] = {"backlog"}
      /\ VALID_TRANSITIONS["cancelled"] = {"backlog"}
  BY DEF VALID_TRANSITIONS
<1>2. \A s \in OshalTicketState : s \notin VALID_TRANSITIONS[s]
  BY DEF VALID_TRANSITIONS, OshalTicketState, Fail, Park
<1> QED BY <1>1, <1>2

LEMMA WrittenMoves ==
    ASSUME TypeOK, NEW t \in Family, NEW to
    PROVE  /\ Allowed(t, to) => Written(t, to)[t] = to
           /\ ~Allowed(t, to) => Written(t, to) = status
           /\ \A u \in Family : u # t => Written(t, to)[u] = status[u]
BY DEF TypeOK, Written

\* What a write may do to a child, and to the root.
ChildSafe(c) ==
    \/ status'[c] = status[c]
    \/ /\ status[c] # Absent
       /\ \E to \in ChildTargets : Allowed(c, to) /\ status'[c] = to

RootSafe ==
    \/ status'[Root] = status[Root]
    \/ \E to \in OshalTicketState \ {"backlog"} :
         Allowed(Root, to) /\ status'[Root] = to

LEMMA ChildWrite ==
    ASSUME Base, NEW c \in Children, c \in Created,
           NEW to \in ChildTargets \cup {status[c]}, status' = Written(c, to)
    PROVE  /\ \A d \in Children : ChildSafe(d)
           /\ status'[Root] = status[Root]
           /\ \A d \in Children : d # c => status'[d] = status[d]
<1>1. TypeOK /\ c \in Family /\ c # Root
  BY FamilyFacts DEF Base
<1>2. \A u \in Family : u # c => status'[u] = status[u]
  BY <1>1, WrittenMoves
<1>3. ChildSafe(c)
  BY <1>1, WrittenMoves DEF ChildSafe, Created
<1> QED BY <1>1, <1>2, <1>3, FamilyFacts DEF ChildSafe

LEMMA RootWrite ==
    ASSUME Base, NEW to \in (OshalTicketState \ {"backlog"})
                               \cup {status[Root]},
           status' = Written(Root, to)
    PROVE  RootSafe /\ \A d \in Children : status'[d] = status[d]
<1>1. TypeOK
  BY DEF Base
<1>2. \A u \in Family : u # Root => status'[u] = status[u]
  BY <1>1, FamilyFacts, WrittenMoves
<1>3. RootSafe
  BY <1>1, FamilyFacts, WrittenMoves DEF RootSafe
<1> QED BY <1>2, <1>3, FamilyFacts

\* Complete and cancelled are final, for a child and for the root.
LEMMA FinalStays ==
    /\ \A c \in Children : ChildSafe(c) /\ Done(c) => status'[c] = status[c]
    /\ RootSafe /\ Done(Root) => status'[Root] = status[Root]
BY TableRows DEF ChildSafe, RootSafe, Allowed, ChildTargets, Done

\* Writes and releases leave the tracking of every other ticket alone, and a
\* write takes a ticket out of it only when it leaves its dead letter.
LEMMA TrackedFacts ==
    ASSUME TypeOK, NEW t \in Family, NEW to, NEW q, q = Tracked(t, to)
    PROVE  /\ \A u \in Family : u # t =>
                /\ u \in q.active <=> u \in qm.active
                /\ u \in q.aborted <=> u \in qm.aborted
           /\ to \notin {"escalated", "cancelled", "approved"} => q = qm
           /\ ~Allowed(t, to) => q = qm
           /\ t \in q.active => t \in qm.active
           /\ t \in q.active \cup q.aborted => t \in qm.active \cup qm.aborted
           /\ t \in qm.active => t \in q.active \cup q.aborted
           /\ t \in qm.aborted /\ t \notin q.aborted =>
                status[t] = "dead_letter"
           /\ t \in qm.active /\ t \notin q.active =>
                to \in {"escalated", "cancelled"}
<1>1. qm \in Tracking
  BY DEF TypeOK
<1>2. CASE ~Allowed(t, to)
  BY <1>1, <1>2 DEF Tracked
<1>3. CASE Allowed(t, to) /\ to \in {"escalated", "cancelled"}
                          /\ t \in qm.active
  BY <1>1, <1>3 DEF Tracked, Observed, Tracking
<1>4. CASE /\ Allowed(t, to) /\ ~(to \in {"escalated", "cancelled"}
                                    /\ t \in qm.active)
           /\ status[t] = "dead_letter" /\ to = "approved"
  BY <1>1, <1>4 DEF Tracked, Observed, Tracking
<1>5. CASE /\ Allowed(t, to) /\ ~(to \in {"escalated", "cancelled"}
                                    /\ t \in qm.active)
           /\ ~(status[t] = "dead_letter" /\ to = "approved")
  BY <1>1, <1>5 DEF Tracked, Observed, Tracking
<1> QED BY <1>2, <1>3, <1>4, <1>5

LEMMA ReleasedFacts ==
    ASSUME NEW q \in Tracking, NEW t
    PROVE  /\ \A u : u # t =>
                /\ u \in Released(q, t).active <=> u \in q.active
                /\ u \in Released(q, t).aborted <=> u \in q.aborted
           /\ t \notin Released(q, t).active
           /\ t \notin Released(q, t).aborted
BY DEF Released, Tracking

(***************************************************************************)
(* What a step leaves alone, and the tickets it writes.                    *)
(***************************************************************************)
SameTracking(d) ==
    /\ d \in qm'.active <=> d \in qm.active
    /\ d \in qm'.aborted <=> d \in qm.aborted

SameChild(d) ==
    /\ status'[d] = status[d]
    /\ item'[d] = item[d]
    /\ run'[d] = run[d]
    /\ SameTracking(d)

\* A step of ticket t, which may write the root as well.
Local(t) ==
    /\ \A d \in Children : d # t => SameChild(d)
    /\ \A d \in Children : ChildSafe(d)
    /\ RootSafe

LEMMA WriteTracking ==
    ASSUME TypeOK, NEW t \in Family, NEW to, NEW r \in Family, NEW q,
           q \in {qm, Tracked(t, to), Released(qm, r),
                  Released(Tracked(t, to), r)}
    PROVE  \A d \in Family : d # t /\ d # r =>
              /\ d \in q.active <=> d \in qm.active
              /\ d \in q.aborted <=> d \in qm.aborted
<1>1. qm \in Tracking /\ Tracked(t, to) \in Tracking
  BY TrackedType DEF TypeOK
<1>2. \A d \in Family : d # t =>
        /\ d \in Tracked(t, to).active <=> d \in qm.active
        /\ d \in Tracked(t, to).aborted <=> d \in qm.aborted
  BY TrackedFacts
<1> QED BY <1>1, <1>2, ReleasedFacts

\* A write of child c, by a step of its own.
LEMMA ChildMove ==
    ASSUME Base, NEW c \in Children, c \in Created,
           NEW to \in ChildTargets \cup {status[c]},
           status' = Written(c, to),
           qm' \in {qm, Tracked(c, to), Released(qm, c),
                    Released(Tracked(c, to), c)},
           \A d \in Children : d # c =>
              item'[d] = item[d] /\ run'[d] = run[d]
    PROVE  Local(c) /\ status'[Root] = status[Root]
<1>1. TypeOK /\ c \in Family
  BY FamilyFacts DEF Base
<1>2. /\ \A d \in Children : ChildSafe(d)
      /\ status'[Root] = status[Root]
      /\ \A d \in Children : d # c => status'[d] = status[d]
  BY ChildWrite
<1>3. \A d \in Family : d # c => SameTracking(d)
  BY <1>1, WriteTracking DEF SameTracking
<1> QED BY <1>2, <1>3, FamilyFacts DEF Local, SameChild, RootSafe

\* A write of the root, by a step of t.
LEMMA RootMove ==
    ASSUME Base, NEW t \in Family,
           NEW to \in (OshalTicketState \ {"backlog"}) \cup {status[Root]},
           status' = Written(Root, to),
           qm' \in {qm, Tracked(Root, to), Released(qm, t),
                    Released(Tracked(Root, to), t)},
           \A d \in Children : d # t =>
              item'[d] = item[d] /\ run'[d] = run[d]
    PROVE  Local(t) /\ \A d \in Children : status'[d] = status[d]
<1>1. TypeOK /\ Root \in Family
  BY FamilyFacts DEF Base
<1>2. RootSafe /\ \A d \in Children : status'[d] = status[d]
  BY RootWrite
<1>3. \A d \in Family : d # Root /\ d # t => SameTracking(d)
  <2> DEFINE Apart(q) == \A d \in Family : d # Root /\ d # t =>
                            /\ d \in q.active <=> d \in qm.active
                            /\ d \in q.aborted <=> d \in qm.aborted
  <2>1. \A q \in {qm, Tracked(Root, to), Released(qm, t),
                  Released(Tracked(Root, to), t)} : Apart(q)
    <3> HIDE DEF Apart
    <3>1. ASSUME NEW q, q \in {qm, Tracked(Root, to), Released(qm, t),
                               Released(Tracked(Root, to), t)}
          PROVE  Apart(q)
      <4>1. CASE q \in {qm, Tracked(Root, to)}
        BY <1>1, <4>1, TrackedFacts DEF Apart
      <4>2. CASE q \in {Released(qm, t), Released(Tracked(Root, to), t)}
        <5>1. qm \in Tracking /\ Tracked(Root, to) \in Tracking
          BY <1>1, TrackedType DEF TypeOK
        <5>2. Apart(qm) /\ Apart(Tracked(Root, to))
          BY <1>1, TrackedFacts DEF Apart
        <5> QED BY <4>2, <5>1, <5>2, ReleasedFacts DEF Apart
      <4> QED BY <3>1, <4>1, <4>2
    <3> QED BY <3>1
  <2>2. Apart(qm')
    BY <2>1
  <2> QED BY <2>2 DEF SameTracking
<1>4. ASSUME NEW d \in Children, d # t PROVE SameChild(d)
  BY <1>2, <1>3, <1>4, FamilyFacts DEF SameChild
<1> QED BY <1>2, <1>4 DEF Local, ChildSafe

LEMMA Unwritten ==
    ASSUME Base, UNCHANGED status
    PROVE  /\ \A t \in Family : status' = Written(t, status[t])
           /\ \A d \in Children : ChildSafe(d)
           /\ RootSafe
<1>1. ASSUME NEW t \in Family PROVE status' = Written(t, status[t])
  BY DEF Base, TypeOK, Written
<1> QED BY <1>1 DEF ChildSafe, RootSafe

LEMMA ContinueElsewhere ==
    ASSUME TypeOK, NEW t \in Family, NEW pc, Continue(t, pc)
    PROVE  run'[t] = pc /\ \A d \in Family : d # t => run'[d] = run[d]
BY DEF TypeOK, Continue

LEMMA ConsequenceStates ==
    ASSUME Base, NEW k \in Checkers
    PROVE  Consequence(k) \in (OshalTicketState \ {"backlog"})
                                 \cup {status[Root]}
BY TableStates DEF Consequence

LEMMA RootStates ==
    {"approved", "escalated", "dead_letter", "cancelled", "in_process_build",
     "in_process_discovery", "approval_required"}
        \subseteq OshalTicketState \ {"backlog"}
BY DEF OshalTicketState

\* A dispatch touches its own child, and the root.
LEMMA RunStepLocal ==
    ASSUME Base, NEW t \in Family, RunStep(t), t = Root => ~CreateChild
    PROVE  Local(t)
<1>1. TypeOK /\ (t # Root => t \in Children)
  BY FamilyFacts DEF Base
<1>2. ASSUME t = Root, PlanningReturns PROVE Local(t)
  <2>1. \A d \in Children : item'[d] = item[d] /\ run'[d] = run[d]
    BY <1>1, <1>2, FamilyFacts, ContinueElsewhere
       DEF PlanningReturns, Proceed, Return
  <2>2. CASE /\ UNCHANGED status
             /\ Proceed(Root, "creating")
    <3>1. qm' \in {qm, Released(qm, Root)}
      BY <2>2 DEF Proceed
    <3> QED BY <1>2, <2>1, <2>2, <3>1, FamilyFacts, Unwritten, RootMove
  <2>3. CASE /\ status' = Written(Root, "escalated")
             /\ qm' = Released(Tracked(Root, "escalated"), Root)
    BY <1>2, <2>1, <2>3, FamilyFacts, RootStates, RootMove
  <2> QED BY <1>2, <2>2, <2>3 DEF PlanningReturns
<1>3. ASSUME t = Root, PlanCreated PROVE Local(t)
  <2>1. \A d \in Children : item'[d] = item[d] /\ run'[d] = run[d]
    BY <1>1, <1>3, FamilyFacts, ContinueElsewhere DEF PlanCreated, Return
  <2>2. CASE UNCHANGED <<status, qm>>
    BY <1>3, <2>1, <2>2, FamilyFacts, Unwritten, RootMove
  <2>3. CASE /\ status' = Written(Root, "approval_required")
             /\ qm' = Released(qm, Root)
    BY <1>3, <2>1, <2>3, FamilyFacts, RootStates, RootMove
  <2> QED BY <1>3, <2>2, <2>3 DEF PlanCreated
<1>4. ASSUME t # Root, WorkReturns(t) PROVE Local(t)
  <2>1. t \in Children /\ t \in Created
    BY <1>1, <1>4 DEF Base, Busy, WorkReturns
  <2>2. \A d \in Children : d # t => item'[d] = item[d] /\ run'[d] = run[d]
    BY <1>1, <1>4, FamilyFacts, ContinueElsewhere
       DEF WorkReturns, Return, TypeOK
  <2>3. CASE UNCHANGED status /\ qm' = Released(qm, t)
    BY <2>1, <2>2, <2>3, Unwritten, ChildMove
  <2>4. CASE TryMove(t, "complete")
    BY <2>1, <2>2, <2>4, ChildMove DEF TryMove, ChildTargets
  <2> QED BY <1>4, <2>3, <2>4 DEF WorkReturns
<1>5. ASSUME AskForParent(t) PROVE Local(t)
  BY <1>5, Unwritten DEF AskForParent, Local, SameChild, SameTracking
<1>6. ASSUME ParentAnswered(t) PROVE Local(t)
  <2>1. \A d \in Children : d # t => item'[d] = item[d] /\ run'[d] = run[d]
    BY <1>1, <1>6, FamilyFacts, ContinueElsewhere DEF ParentAnswered, Return
  <2>2. Consequence(t) \in (OshalTicketState \ {"backlog"}) \cup {status[Root]}
    BY FamilyFacts, ConsequenceStates
  <2> QED BY <1>6, <2>1, <2>2, RootMove DEF ParentAnswered
<1>7. ASSUME WorkFails(t) PROVE Local(t)
  <2>1. \A d \in Children : d # t => item'[d] = item[d] /\ run'[d] = run[d]
    BY <1>1, <1>7, FamilyFacts, ContinueElsewhere DEF WorkFails, Return
  <2>2. PICK to \in {"approved", "escalated", "dead_letter", status[t]} :
          /\ status' = Written(t, to)
          /\ qm' \in {Released(qm, t), Released(Tracked(t, to), t)}
    <3>1. CASE UNCHANGED status /\ qm' = Released(qm, t)
      BY <3>1, Unwritten
    <3>2. CASE \E to \in Fail : /\ status' = Written(t, to)
                                /\ qm' = Released(Tracked(t, to), t)
      BY <3>2 DEF Fail
    <3>3. CASE /\ status' = Written(t, "approved")
               /\ qm' = Released(Tracked(t, "approved"), t)
      BY <3>3
    <3> QED BY <1>7, <3>1, <3>2, <3>3 DEF WorkFails
  <2>3. CASE t = Root
    BY <2>1, <2>2, <2>3, RootStates, RootMove
  <2>4. CASE t # Root
    <3>1. t \in Children /\ t \in Created
      BY <1>1, <1>7, <2>4 DEF Base, Busy, WorkFails
    <3> QED BY <2>1, <2>2, <3>1, ChildMove DEF ChildTargets
  <2> QED BY <2>3, <2>4
<1> QED
  BY <1>2, <1>3, <1>4, <1>5, <1>6, <1>7 DEF RunStep

\* A step of the cycle touches one ticket at most.
LEMMA PollStepLocal ==
    ASSUME Base, PollStep
    PROVE  /\ \A t \in Family : Recover(t) \/ Consider(t) \/ Launch(t)
                                   => Local(t)
           /\ \A c \in Children : reconcileChildTicketsFromWorkItems(c)
                                     => Local(c)
           /\ SweepAnswered => Local(Root)
           /\ PollStart \/ PollDeferred \/ sweepStaleParents
              \/ CheckStaleParent \/ PollBatched \/ PollEnd
              \/ (\E t \in Family : Skip(t))
                 => Local(Root) /\ UNCHANGED <<status, item, run, qm>>
<1>1. TypeOK /\ qm \in Tracking
  BY DEF Base, TypeOK
<1>2. ASSUME NEW t \in Family, Recover(t) PROVE Local(t)
  <2>1. UNCHANGED <<item, run>>
    BY <1>2 DEF Recover
  <2>2. CASE UNCHANGED <<status, qm>>
    BY <2>1, <2>2, Unwritten DEF Local, SameChild, SameTracking
  <2>3. CASE \E to \in {"approved", "escalated"} :
               /\ status' = Written(t, to)
               /\ qm' = IF to = "approved"
                          THEN [Tracked(t, to) EXCEPT
                                  !.recovered = @ \cup {t}]
                          ELSE Tracked(t, to)
    <3>1. PICK to \in {"approved", "escalated"} :
               /\ status' = Written(t, to)
               /\ qm' = IF to = "approved"
                          THEN [Tracked(t, to) EXCEPT
                                  !.recovered = @ \cup {t}]
                          ELSE Tracked(t, to)
      BY <2>3
    <3>2. Tracked(t, to) \in Tracking
      BY <1>1, TrackedType
    <3>3. /\ qm'.active = Tracked(t, to).active
          /\ qm'.aborted = Tracked(t, to).aborted
      BY <3>1, <3>2 DEF Tracking
    <3>4. \A d \in Family : d # t => SameTracking(d)
      BY <1>1, <3>3, TrackedFacts DEF SameTracking
    <3>5. CASE t = Root
      <4>1. RootSafe /\ \A d \in Children : status'[d] = status[d]
        BY <3>1, <3>5, RootStates, RootWrite
      <4> QED BY <2>1, <3>4, <3>5, <4>1, FamilyFacts
              DEF Local, SameChild, ChildSafe
    <3>6. CASE t # Root
      <4>1. CASE ~Allowed(t, to)
        <5>1. UNCHANGED status
          BY <3>1, <4>1 DEF Written
        <5> QED BY <2>1, <3>4, <5>1, Unwritten, FamilyFacts
                DEF Local, SameChild
      <4>2. CASE Allowed(t, to)
        <5>1. t \in Children /\ t \in Created
          BY <1>2, <3>6, FamilyFacts DEF Recover, Base, Busy
        <5>2. /\ \A d \in Children : ChildSafe(d)
              /\ status'[Root] = status[Root]
              /\ \A d \in Children : d # t => status'[d] = status[d]
          BY <3>1, <5>1, ChildWrite DEF ChildTargets
        <5> QED BY <2>1, <3>4, <5>2, FamilyFacts
                DEF Local, SameChild, RootSafe
      <4> QED BY <4>1, <4>2
    <3> QED BY <3>5, <3>6
  <2> QED BY <1>2, <2>2, <2>3 DEF Recover
<1>3. ASSUME NEW t \in Family, Consider(t) PROVE Local(t)
  <2> DEFINE park == terminalChildStatusForParentState(status[Root])
  <2>1. UNCHANGED <<item, run>>
    BY <1>3 DEF Consider
  <2>2. CASE UNCHANGED <<status, qm>>
    BY <2>1, <2>2, Unwritten DEF Local, SameChild, SameTracking
  <2>3. CASE t # Root /\ park # Absent /\ TryMove(t, park)
    <3>1. t \in Children /\ t \in Created
      BY <1>3, <2>3, FamilyFacts DEF Consider, Base, Busy
    <3>2. park \in ChildTargets
      BY <2>3 DEF terminalChildStatusForParentState, ChildTargets
    <3>3. TryMove(t, park)
      BY <2>3
    <3> HIDE DEF park
    <3> QED BY <2>1, <3>1, <3>2, <3>3, ChildMove DEF TryMove
  <2> QED BY <1>3, <2>2, <2>3 DEF Consider
<1>4. ASSUME NEW t \in Family, Launch(t) PROVE Local(t)
  <2>1. \A d \in Children : d # t => item'[d] = item[d] /\ run'[d] = run[d]
    BY <1>1, <1>4, FamilyFacts, ContinueElsewhere DEF Launch, TypeOK
  <2>2. PICK to \in {"in_process_build", "in_process_discovery",
                     "approved"} : /\ status' = Written(t, to)
                                   /\ t # Root => to # "in_process_discovery"
    BY <1>4 DEF Launch, TryMove, EntryState
  <2>3. \A d \in Family : d # t => SameTracking(d)
    <3>1. CASE qm' = [qm EXCEPT !.active = @ \cup {t}]
      BY <1>1, <3>1 DEF SameTracking, Tracking
    <3>2. CASE TryMove(t, "approved")
      BY <1>1, <3>2, WriteTracking DEF SameTracking, TryMove
    <3> QED BY <1>4, <3>1, <3>2 DEF Launch
  <2>4. CASE t = Root
    <3>1. RootSafe /\ \A d \in Children : status'[d] = status[d]
      BY <2>2, <2>4, RootStates, RootWrite
    <3> QED BY <2>1, <2>3, <2>4, <3>1, FamilyFacts
            DEF Local, SameChild, ChildSafe
  <2>5. CASE t # Root
    <3>1. t \in Children /\ t \in Created
      BY <1>4, <2>5, FamilyFacts DEF Launch, Base, Busy
    <3>2. /\ \A d \in Children : ChildSafe(d)
          /\ status'[Root] = status[Root]
          /\ \A d \in Children : d # t => status'[d] = status[d]
      BY <2>2, <2>5, <3>1, ChildWrite DEF ChildTargets
    <3> QED BY <2>1, <2>3, <3>2, FamilyFacts
            DEF Local, SameChild, RootSafe
  <2> QED BY <2>4, <2>5
<1>5. ASSUME NEW c \in Children, reconcileChildTicketsFromWorkItems(c)
      PROVE  Local(c)
  <2>1. c \in Created
    BY <1>5 DEF reconcileChildTicketsFromWorkItems, Base, Busy
  <2>2. PICK to \in ChildTargets \cup {status[c]} : TryMove(c, to)
    BY <1>5 DEF reconcileChildTicketsFromWorkItems, ChildTargets
  <2> QED BY <1>5, <2>1, <2>2, ChildMove
          DEF reconcileChildTicketsFromWorkItems, TryMove
<1>6. ASSUME SweepAnswered PROVE Local(Root)
  <2>1. Consequence(Sweep) \in (OshalTicketState \ {"backlog"})
                                  \cup {status[Root]}
    BY FamilyFacts, ConsequenceStates
  <2> QED BY <1>6, <2>1, FamilyFacts, RootMove DEF SweepAnswered, TryMove
<1>7. ASSUME UNCHANGED <<status, item, run, qm>> PROVE Local(Root)
  BY <1>7, Unwritten DEF Local, SameChild, SameTracking
<1>8. PollStart \/ PollDeferred \/ sweepStaleParents \/ CheckStaleParent
      \/ PollBatched \/ PollEnd \/ (\E t \in Family : Skip(t))
         => UNCHANGED <<status, item, run, qm>>
  BY DEF PollStart, PollDeferred, sweepStaleParents, CheckStaleParent,
         PollBatched, PollEnd, Skip
<1> QED BY <1>2, <1>3, <1>4, <1>5, <1>6, <1>7, <1>8

\* Workers and operators touch one ticket each.
LEMMA OtherStepLocal ==
    ASSUME Base
    PROVE  /\ \A c \in Children :
                recordResult(c) \/ updateTicketTerminalState(c)
                   => Local(c) /\ UNCHANGED <<run, poll>>
           /\ \A t \in Family : Cancel(t)
                => Local(t) /\ UNCHANGED <<item, tells, run, poll>>
           /\ OpenBuildGate
                => Local(Root) /\ UNCHANGED <<item, tells, run, poll>>
           /\ Restart => /\ \A d \in Children : status'[d] = status[d]
                         /\ RootSafe
<1>1. TypeOK
  BY DEF Base
<1>2. ASSUME NEW c \in Children, recordResult(c)
      PROVE  Local(c) /\ UNCHANGED <<run, poll>>
  BY <1>1, <1>2, Unwritten
     DEF recordResult, TypeOK, Local, SameChild, SameTracking
<1>3. ASSUME NEW c \in Children, updateTicketTerminalState(c)
      PROVE  Local(c) /\ UNCHANGED <<run, poll>>
  <2>1. c \in Created /\ tells[c] \in ChildTargets
    BY <1>1, <1>3
       DEF updateTicketTerminalState, Base, Busy, TypeOK, ChildTargets
  <2>2. UNCHANGED <<item, run, poll>>
    BY <1>3 DEF updateTicketTerminalState
  <2>3. CASE UNCHANGED <<status, qm>>
    BY <2>2, <2>3, Unwritten DEF Local, SameChild, SameTracking
  <2>4. CASE /\ status' = Written(c, tells[c])
             /\ qm' \in {qm, Tracked(c, tells[c])}
    BY <2>1, <2>2, <2>4, ChildMove
  <2> QED BY <1>3, <2>2, <2>3, <2>4 DEF updateTicketTerminalState
<1>4. ASSUME NEW t \in Family, Cancel(t)
      PROVE  Local(t) /\ UNCHANGED <<item, tells, run, poll>>
  <2>1. TryMove(t, "cancelled") /\ UNCHANGED <<item, tells, run, poll>>
    BY <1>4 DEF Cancel
  <2>2. CASE t = Root
    BY <2>1, <2>2, RootStates, RootMove DEF TryMove
  <2>3. CASE t # Root
    <3>1. t \in Children /\ t \in Created
      BY <1>4, <2>3, FamilyFacts DEF Cancel, Created
    <3> QED BY <2>1, <3>1, ChildMove DEF TryMove, ChildTargets
  <2> QED BY <2>1, <2>2, <2>3
<1>5. ASSUME OpenBuildGate
      PROVE  Local(Root) /\ UNCHANGED <<item, tells, run, poll>>
  <2>1. PICK to \in {"approved", "in_process_build"} : TryMove(Root, to)
    BY <1>5 DEF OpenBuildGate
  <2>2. UNCHANGED <<item, tells, run, poll>>
    BY <1>5 DEF OpenBuildGate
  <2> QED BY <2>1, <2>2, FamilyFacts, RootStates, RootMove DEF TryMove
<1>6. ASSUME Restart PROVE /\ \A d \in Children : status'[d] = status[d]
                           /\ RootSafe
  <2>1. CASE status' = Written(Root, "approved")
    BY <2>1, RootStates, RootWrite
  <2>2. CASE UNCHANGED status
    BY <2>2 DEF RootSafe
  <2> QED BY <1>6, <2>1, <2>2 DEF Restart
<1> QED BY <1>2, <1>3, <1>4, <1>5, <1>6

LEMMA CreateStep ==
    ASSUME Base, CreateChild
    PROVE  /\ Child(unit) \in Children /\ status[Child(unit)] = Absent
           /\ plan # 0 /\ unit' = unit + 1
           /\ UNCHANGED <<item, run, plan, qm>>
           /\ status'[Root] = status[Root]
           /\ \A d \in Children :
                \/ status'[d] = status[d]
                \/ d = Child(unit) /\ status'[d] = "approved"
<1>1. plan # 0 /\ unit <= Units /\ TypeOK
  BY DEF CreateChild, Base
<1> DEFINE new == Child(unit)
<1>2. new \in Children
  BY <1>1, ChildNumbers
<1>3. \/ UNCHANGED status
      \/ status' = [status EXCEPT ![new] = "approved"]
  BY DEF CreateChild
<1> HIDE DEF new
<1>4. status[new] = Absent
  <2>1. new \in Nat /\ ~(new < new)
    BY <1>2, FamilyFacts
  <2> QED BY <1>2, <2>1 DEF Base, Created, new
<1>5. /\ status'[Root] = status[Root]
      /\ \A d \in Children : \/ status'[d] = status[d]
                             \/ d = new /\ status'[d] = "approved"
  BY <1>1, <1>2, <1>3, FamilyFacts DEF TypeOK
<1> QED BY <1>1, <1>2, <1>4, <1>5 DEF CreateChild, new

\* The status writes of every step.
LEMMA StatusStep ==
    ASSUME Base, Next
    PROVE  /\ RootSafe
           /\ \A d \in Children :
                \/ ChildSafe(d)
                \/ /\ CreateChild /\ d = Child(unit)
                   /\ status[d] = Absent /\ status'[d] = "approved"
<1>1. CASE CreateChild
  BY <1>1, CreateStep DEF ChildSafe, RootSafe
<1>2. CASE ~CreateChild
  <2>1. ASSUME NEW t \in Family, RunStep(t)
        PROVE  RootSafe /\ \A d \in Children : ChildSafe(d)
    BY <1>2, <2>1, RunStepLocal DEF Local
  <2>2. ASSUME PollStep
        PROVE  RootSafe /\ \A d \in Children : ChildSafe(d)
    <3>1. PICK t : Local(t)
      BY <2>2, PollStepLocal DEF PollStep
    <3> QED BY <3>1 DEF Local
  <2>3. ASSUME \/ \E c \in Children : recordResult(c)
                                      \/ updateTicketTerminalState(c)
               \/ \E t \in Family : Cancel(t)
               \/ OpenBuildGate \/ Restart
        PROVE  RootSafe /\ \A d \in Children : ChildSafe(d)
    BY <2>3, OtherStepLocal DEF Local, ChildSafe
  <2> QED BY <2>1, <2>2, <2>3 DEF Next
<1> QED BY <1>1, <1>2

\* No child is ever unmade, and what is final is not written again.
LEMMA Lasting ==
    ASSUME Base, Next
    PROVE  /\ Created \subseteq Created'
           /\ \A c \in Created' :
                c \in Created \/ (CreateChild /\ c = Child(unit))
           /\ \A c \in Children : Done(c) => status'[c] = status[c] /\ Done(c)'
           /\ status[Root] = "cancelled" => status'[Root] = "cancelled"
<1>1. ASSUME NEW c \in Children, c \in Created PROVE c \in Created'
  BY <1>1, StatusStep DEF Created, ChildSafe, ChildTargets, Absent
<1>2. ASSUME NEW c \in Created'
      PROVE  c \in Created \/ (CreateChild /\ c = Child(unit))
  <2>1. c \in Children /\ status'[c] # Absent
    BY <1>2 DEF Created
  <2>2. ChildSafe(c) \/ (CreateChild /\ c = Child(unit))
    BY <2>1, StatusStep
  <2> QED BY <2>1, <2>2 DEF Created, ChildSafe
<1>3. ASSUME NEW c \in Children, Done(c)
      PROVE  status'[c] = status[c] /\ Done(c)'
  BY <1>3, StatusStep, FinalStays DEF Done, Absent
<1>4. status[Root] = "cancelled" => status'[Root] = "cancelled"
  BY StatusStep, FinalStays DEF Done
<1> QED BY <1>1, <1>2, <1>3, <1>4 DEF Created

\* The cycle starts dispatches by launching them, and moves none on.
LEMMA PollRun ==
    ASSUME PollStep
    PROVE  \/ UNCHANGED run
           \/ \E t \in Family : \E pc \in {"planning", "working"} :
                run[t] = "idle" /\ Continue(t, pc)
BY DEF PollStep, PollStart, PollDeferred, SweepAnswered, sweepStaleParents,
       CheckStaleParent, PollBatched, PollEnd, Recover, Consider, Launch, Skip,
       reconcileChildTicketsFromWorkItems

LEMMA PlanStep ==
    ASSUME Base, Next
    PROVE  \/ /\ UNCHANGED <<plan, unit>> /\ ~CreateChild
              /\ run'[Root] = "creating" => run[Root] = "creating"
           \/ plan' = plan + 1 /\ unit' = 1 /\ PlanningReturns
           \/ CreateChild /\ plan # 0 /\ plan' = plan /\ unit' = unit + 1
<1>1. TypeOK /\ Root \in Family
  BY FamilyFacts DEF Base
<1>2. ASSUME NEW t \in Family, RunStep(t), ~PlanningReturns, ~CreateChild
      PROVE  /\ UNCHANGED <<plan, unit>>
             /\ run'[Root] = "creating" => run[Root] = "creating"
  <2>1. UNCHANGED <<plan, unit>>
    BY <1>2 DEF RunStep, PlanCreated, WorkReturns, AskForParent,
                ParentAnswered, WorkFails
  <2>2. \/ UNCHANGED run
        \/ \E pc \in {"idle", "gating", "hooking"} : Continue(t, pc)
    BY <1>2 DEF RunStep, PlanCreated, WorkReturns, AskForParent,
                ParentAnswered, WorkFails, Return
  <2> QED BY <1>1, <2>1, <2>2, ContinueElsewhere
<1>3. ASSUME PlanningReturns
      PROVE  \/ plan' = plan + 1 /\ unit' = 1
             \/ UNCHANGED <<plan, unit>> /\ run'[Root] = "idle"
  BY <1>1, <1>3, ContinueElsewhere DEF PlanningReturns, Return
<1>4. ASSUME CreateChild
      PROVE  plan # 0 /\ plan' = plan /\ unit' = unit + 1
  BY <1>4, CreateStep
<1>5. ASSUME PollStep
      PROVE  /\ UNCHANGED <<plan, unit>>
             /\ run'[Root] = "creating" => run[Root] = "creating"
  BY <1>1, <1>5, PollRun, ContinueElsewhere DEF PollStep, PollOnly
<1>6. ASSUME \/ \E c \in Children : recordResult(c)
                                    \/ updateTicketTerminalState(c)
             \/ \E t \in Family : Cancel(t)
             \/ OpenBuildGate \/ Restart
      PROVE  /\ UNCHANGED <<plan, unit>>
             /\ run'[Root] = "creating" => run[Root] = "creating"
  BY <1>1, <1>6 DEF recordResult, updateTicketTerminalState, Cancel,
                     OpenBuildGate, Restart
<1>7. CreateChild => run[Root] = "creating"
  BY DEF CreateChild
<1>8. PlanningReturns => run[Root] = "planning"
  BY DEF PlanningReturns
<1>9. PollStep => ~CreateChild
  BY DEF PollStep, PollOnly, CreateChild, Base, TypeOK
<1>10. ASSUME \/ \E c \in Children : recordResult(c)
                                     \/ updateTicketTerminalState(c)
              \/ \E t \in Family : Cancel(t)
              \/ OpenBuildGate \/ Restart
       PROVE  ~CreateChild
  BY <1>10 DEF recordResult, updateTicketTerminalState, Cancel,
               OpenBuildGate, Restart, CreateChild, Base, TypeOK
<1> QED BY <1>2, <1>3, <1>4, <1>5, <1>6, <1>7, <1>8, <1>9, <1>10 DEF Next

\* What each step of the cycle makes of its lists.
LEMMA PollLists ==
    ASSUME TypeOK
    PROVE  /\ PollStart => /\ poll'.pc = "deferred" /\ poll'.batch = {}
                           /\ poll'.todo = {}
                           /\ poll'.candidates =
                                {t \in Family \ qm.active :
                                   status[t] = "approved"}
           /\ PollDeferred => /\ poll'.pc = "recovering"
                              /\ poll'.batch = poll.batch
                              /\ poll'.candidates = poll.candidates
                              /\ poll'.todo \subseteq
                                   {t \in Family : status[t] \in DispatchStates}
           /\ \A t \in Family : Recover(t) =>
                /\ poll'.pc = "recovering" /\ poll'.batch = poll.batch
                /\ poll'.candidates = poll.candidates
                /\ poll'.todo \subseteq poll.todo
           /\ SweepAnswered =>
                /\ poll'.pc \in {poll.pc, "gating"} /\ poll'.batch = poll.batch
                /\ poll'.candidates = poll.candidates /\ poll'.todo = poll.todo
           /\ sweepStaleParents =>
                /\ poll'.pc \in {"reconciling", "gating"}
                /\ poll'.batch = poll.batch
                /\ poll'.candidates = poll.candidates
                /\ poll'.todo \subseteq Created
           /\ \A c \in Children : reconcileChildTicketsFromWorkItems(c) =>
                /\ poll'.pc = "reconciling" /\ poll'.batch = poll.batch
                /\ poll'.candidates = poll.candidates
                /\ poll'.todo = poll.todo \ {c}
           /\ CheckStaleParent =>
                /\ poll'.pc = "checking" /\ poll'.batch = poll.batch
                /\ poll'.candidates = poll.candidates /\ poll'.todo = poll.todo
           /\ \A t \in Family : Consider(t) =>
                /\ poll'.pc = "gating" /\ poll'.todo = poll.todo
                /\ poll'.candidates = poll.candidates \ {t}
                /\ poll'.batch \subseteq poll.batch \cup {t}
                /\ t \in poll'.batch \ poll.batch =>
                     /\ status[t] = "approved"
                     /\ t # Root =>
                          /\ status[Root] \in
                               PARENT_READY_FOR_CHILD_DISPATCH_STATES
                          /\ ~isHeldBehindEarlierSibling(t)
           /\ PollBatched =>
                /\ poll'.pc = "launching" /\ poll.candidates = {}
                /\ poll'.batch = poll.batch
                /\ poll'.candidates = {} /\ poll'.todo = poll.todo
           /\ \A t \in Family : Launch(t) \/ Skip(t) =>
                /\ poll'.pc = poll.pc /\ poll'.batch = poll.batch \ {t}
                /\ poll'.candidates = poll.candidates /\ poll'.todo = poll.todo
           /\ PollEnd => poll' = NoCycle
<1>1. poll \in Cycle
  BY DEF TypeOK
<1>2. ASSUME PollStart
      PROVE  /\ poll'.pc = "deferred" /\ poll'.batch = {} /\ poll'.todo = {}
             /\ poll'.candidates =
                  {t \in Family \ qm.active : status[t] = "approved"}
  BY <1>2 DEF PollStart, NoCycle
<1>3. ASSUME PollDeferred
      PROVE  /\ poll'.pc = "recovering" /\ poll'.batch = poll.batch
             /\ poll'.candidates = poll.candidates
             /\ poll'.todo \subseteq
                  {t \in Family : status[t] \in DispatchStates}
  <2> DEFINE S == {t \in Family : status[t] \in DispatchStates}
             o == IF Created = {} THEN "none"
                  ELSE IF \A c \in Created : status[c] \in
                            Fail \cup {"complete", "cancelled"}
                    THEN "terminal"
                  ELSE "running"
  <2>1. PICK stale \in SUBSET S :
          poll' = [poll EXCEPT !.pc = "recovering", !.todo = stale,
                               !.offspring = o]
    BY <1>3 DEF PollDeferred
  <2> HIDE DEF S, o
  <2>2. /\ poll'.pc = "recovering" /\ poll'.batch = poll.batch
        /\ poll'.candidates = poll.candidates /\ poll'.todo \subseteq S
    BY <1>1, <2>1 DEF Cycle
  <2> QED BY <2>2 DEF S
<1>4. ASSUME NEW t \in Family, Recover(t)
      PROVE  /\ poll'.pc = "recovering" /\ poll'.batch = poll.batch
             /\ poll'.candidates = poll.candidates
             /\ poll'.todo \subseteq poll.todo
  <2>1. poll.pc = "recovering" /\ (\/ poll' = [poll EXCEPT !.todo = @ \ {t}]
                                   \/ poll' = [poll EXCEPT !.todo = {}])
    BY <1>4 DEF Recover
  <2> QED BY <1>1, <2>1 DEF Cycle
<1>5. ASSUME SweepAnswered
      PROVE  /\ poll'.pc \in {poll.pc, "gating"} /\ poll'.batch = poll.batch
             /\ poll'.candidates = poll.candidates /\ poll'.todo = poll.todo
  BY <1>1, <1>5 DEF SweepAnswered, Cycle
<1>6. ASSUME sweepStaleParents
      PROVE  /\ poll'.pc \in {"reconciling", "gating"}
             /\ poll'.batch = poll.batch
             /\ poll'.candidates = poll.candidates
             /\ poll'.todo \subseteq Created
  BY <1>1, <1>6 DEF sweepStaleParents, Cycle
<1>7. ASSUME NEW c \in Children, reconcileChildTicketsFromWorkItems(c)
      PROVE  /\ poll'.pc = "reconciling" /\ poll'.batch = poll.batch
             /\ poll'.candidates = poll.candidates
             /\ poll'.todo = poll.todo \ {c}
  BY <1>1, <1>7 DEF reconcileChildTicketsFromWorkItems, Cycle
<1>8. ASSUME CheckStaleParent
      PROVE  /\ poll'.pc = "checking" /\ poll'.batch = poll.batch
             /\ poll'.candidates = poll.candidates /\ poll'.todo = poll.todo
  BY <1>1, <1>8 DEF CheckStaleParent, Cycle
<1>9. ASSUME NEW t \in Family, Consider(t)
      PROVE  /\ poll'.pc = "gating" /\ poll'.todo = poll.todo
             /\ poll'.candidates = poll.candidates \ {t}
             /\ poll'.batch \subseteq poll.batch \cup {t}
             /\ t \in poll'.batch \ poll.batch =>
                  /\ status[t] = "approved"
                  /\ t # Root =>
                       /\ status[Root] \in
                            PARENT_READY_FOR_CHILD_DISPATCH_STATES
                       /\ ~isHeldBehindEarlierSibling(t)
  <2> DEFINE free == t = Root
                     \/ (/\ status[Root] \in
                              PARENT_READY_FOR_CHILD_DISPATCH_STATES
                         /\ ~isHeldBehindEarlierSibling(t))
  <2>1. CASE status[t] = "approved" /\ free
    <3>1. poll' = [poll EXCEPT !.candidates = @ \ {t},
                               !.batch = @ \cup {t}]
      BY <1>9, <2>1 DEF Consider
    <3> HIDE DEF free
    <3>2. /\ poll'.pc = poll.pc /\ poll'.todo = poll.todo
          /\ poll'.candidates = poll.candidates \ {t}
          /\ poll'.batch = poll.batch \cup {t}
      BY <1>1, <3>1 DEF Cycle
    <3> QED BY <1>9, <2>1, <3>2 DEF Consider, free
  <2>2. CASE ~(status[t] = "approved" /\ free)
    <3>1. poll' = [poll EXCEPT !.candidates = @ \ {t}, !.batch = @]
      BY <1>9, <2>2 DEF Consider
    <3> QED BY <1>1, <1>9, <3>1 DEF Consider, Cycle
  <2> QED BY <2>1, <2>2
<1>10. ASSUME PollBatched
       PROVE  /\ poll'.pc = "launching" /\ poll.candidates = {}
              /\ poll'.batch = poll.batch
              /\ poll'.candidates = {} /\ poll'.todo = poll.todo
  BY <1>1, <1>10 DEF PollBatched, Cycle
<1>11. ASSUME NEW t \in Family, Launch(t) \/ Skip(t)
       PROVE  /\ poll'.pc = poll.pc /\ poll'.batch = poll.batch \ {t}
              /\ poll'.candidates = poll.candidates /\ poll'.todo = poll.todo
  BY <1>1, <1>11 DEF Launch, Skip, Cycle
<1> QED
  BY <1>2, <1>3, <1>4, <1>5, <1>6, <1>7, <1>8, <1>9, <1>10, <1>11
     DEF PollEnd

\* Only created children get work items, dispatches and places in a list.
LEMMA BusyStep ==
    ASSUME Base, Next, NEW c \in Children, Busy(c)'
    PROVE  c \in Created'
<1>1. TypeOK /\ c \in Family /\ c # Root
  BY FamilyFacts DEF Base
<1>2. SUFFICES ASSUME ~Busy(c), c \notin Created PROVE FALSE
  BY Lasting DEF Base
<1>3. ASSUME item'[c] = item[c], run'[c] = run[c], tells'[c] = tells[c],
             c \notin poll'.candidates \cup poll'.batch \cup poll'.todo
      PROVE  FALSE
  BY <1>2, <1>3 DEF Busy
<1>4. status[c] = Absent
  BY <1>2 DEF Created
<1>5. ASSUME NEW t \in Family, RunStep(t) PROVE FALSE
  <2>1. run'[c] = run[c] /\ item'[c] = item[c]
    <3>1. CASE CreateChild
      BY <3>1, CreateStep
    <3>2. CASE ~CreateChild
      <4>1. CASE t = c
        <5>1. run[c] = "idle" /\ t # Root
          BY <1>1, <1>2, <4>1 DEF Busy
        <5>2. ParentAnswered(t)
          BY <1>5, <4>1, <5>1
             DEF RunStep, WorkReturns, AskForParent, WorkFails
        <5> QED BY <1>1, <4>1, <5>1, <5>2, ContinueElsewhere
                DEF ParentAnswered, Return
      <4> QED BY <1>5, <3>2, <4>1, RunStepLocal DEF Local, SameChild
    <3> QED BY <3>1, <3>2
  <2> QED BY <1>2, <1>3, <1>5, <2>1 DEF RunStep, Busy
<1>6. ASSUME PollStep PROVE FALSE
  <2>1. tells'[c] = tells[c]
    BY <1>6 DEF PollStep, PollOnly
  <2>2. ASSUME NEW t \in Family,
               Recover(t) \/ Consider(t) \/ Launch(t) \/ Skip(t)
        PROVE  FALSE
    <3>1. t # c
      BY <1>2, <2>2 DEF Busy, Recover, Consider, Launch, Skip
    <3>2. run'[c] = run[c] /\ item'[c] = item[c]
      BY <1>6, <2>2, <3>1, PollStepLocal DEF Local, SameChild, Skip
    <3>3. /\ poll'.candidates \subseteq poll.candidates
          /\ poll'.batch \subseteq poll.batch \cup {t}
          /\ poll'.todo \subseteq poll.todo
      BY <1>1, <2>2, PollLists
    <3> QED BY <1>2, <1>3, <2>1, <3>1, <3>2, <3>3 DEF Busy
  <2>3. ASSUME NEW d \in Children, reconcileChildTicketsFromWorkItems(d)
        PROVE  FALSE
    <3>1. /\ poll'.candidates = poll.candidates /\ poll'.batch = poll.batch
          /\ poll'.todo \subseteq poll.todo
      BY <1>1, <2>3, PollLists
    <3> QED BY <1>2, <1>3, <2>1, <2>3, <3>1
            DEF reconcileChildTicketsFromWorkItems, Busy
  <2>4. ASSUME \/ PollStart \/ PollDeferred \/ SweepAnswered
               \/ sweepStaleParents \/ CheckStaleParent \/ PollBatched
               \/ PollEnd
        PROVE  FALSE
    <3>1. UNCHANGED <<item, run>>
      BY <2>4 DEF PollStart, PollDeferred, SweepAnswered, sweepStaleParents,
                  CheckStaleParent, PollBatched, PollEnd
    <3>2. /\ poll'.candidates \subseteq poll.candidates \cup
               {t \in Family : status[t] = "approved"}
          /\ poll'.batch \subseteq poll.batch
          /\ poll'.todo \subseteq poll.todo \cup Created \cup
               {t \in Family : status[t] \in DispatchStates}
      <4>1. CASE PollStart \/ PollDeferred \/ SweepAnswered
        BY <1>1, <4>1, PollLists
      <4>2. CASE sweepStaleParents \/ CheckStaleParent \/ PollBatched
        BY <1>1, <4>2, PollLists
      <4>3. CASE PollEnd
        BY <1>1, <4>3, PollLists DEF NoCycle
      <4> QED BY <2>4, <4>1, <4>2, <4>3
    <3>3. c \notin {t \in Family : status[t] = "approved"}
      BY <1>4 DEF Absent
    <3>4. c \notin {t \in Family : status[t] \in DispatchStates}
      BY <1>4 DEF Absent, DispatchStates
    <3> QED BY <1>2, <1>3, <2>1, <3>1, <3>2, <3>3, <3>4 DEF Busy
  <2> QED BY <1>6, <2>2, <2>3, <2>4 DEF PollStep
<1>7. ASSUME NEW d \in Children,
             recordResult(d) \/ updateTicketTerminalState(d)
      PROVE  FALSE
  <2>1. d # c
    BY <1>2, <1>7 DEF recordResult, updateTicketTerminalState, Busy
  <2>2. run'[c] = run[c] /\ item'[c] = item[c] /\ UNCHANGED poll
    BY <1>7, <2>1, OtherStepLocal DEF Local, SameChild
  <2>3. tells'[c] = tells[c]
    BY <1>1, <1>7, <2>1 DEF recordResult, updateTicketTerminalState, TypeOK
  <2> QED BY <1>2, <1>3, <2>2, <2>3 DEF Busy
<1>8. ASSUME (\E t \in Family : Cancel(t)) \/ OpenBuildGate PROVE FALSE
  BY <1>2, <1>3, <1>8, OtherStepLocal DEF Busy
<1>9. ASSUME Restart PROVE FALSE
  BY <1>1, <1>2, <1>3, <1>9 DEF Restart, Busy, NoCycle
<1> QED BY <1>5, <1>6, <1>7, <1>8, <1>9 DEF Next

\* Where a dispatch can be: only the root plans and gates, only a child works.
LEMMA RunRange ==
    ASSUME Base, Next
    PROVE  /\ \A c \in Children : run'[c] \in {"idle", "working", "hooking"}
           /\ run'[Root] \in {"idle", "planning", "creating", "gating"}
<1>1. /\ TypeOK /\ Root \in Family /\ Children \subseteq Family
      /\ Root \notin Children
  BY FamilyFacts DEF Base
<1> DEFINE Ranged ==
      /\ \A c \in Children : run'[c] \in {"idle", "working", "hooking"}
      /\ run'[Root] \in {"idle", "planning", "creating", "gating"}
<1>2. ASSUME UNCHANGED run PROVE Ranged
  BY <1>2 DEF Base
<1>3. ASSUME NEW t \in Family,
             NEW pc \in {"idle", "working", "hooking", "planning", "creating",
                         "gating"},
             Continue(t, pc),
             t = Root => pc \in {"idle", "planning", "creating", "gating"},
             t # Root => pc \in {"idle", "working", "hooking"}
      PROVE  Ranged
  <2>1. run'[t] = pc /\ \A d \in Family : d # t => run'[d] = run[d]
    BY <1>1, <1>3, ContinueElsewhere
  <2> QED BY <1>1, <1>3, <2>1 DEF Base
<1> HIDE DEF Ranged
<1>4. ASSUME NEW t \in Family, RunStep(t) PROVE Ranged
  <2>1. CASE t = Root /\ (PlanningReturns \/ CreateChild \/ PlanCreated)
    BY <1>1, <1>2, <1>3, <2>1
       DEF PlanningReturns, CreateChild, PlanCreated, Proceed, Return
  <2>2. CASE t # Root /\ WorkReturns(t)
    BY <1>2, <1>3, <2>2 DEF WorkReturns, Return
  <2>3. CASE AskForParent(t) \/ ParentAnswered(t) \/ WorkFails(t)
    BY <1>2, <1>3, <2>3 DEF AskForParent, ParentAnswered, WorkFails, Return
  <2> QED BY <1>4, <2>1, <2>2, <2>3 DEF RunStep
<1>5. ASSUME PollStep PROVE Ranged
  BY <1>1, <1>2, <1>3, <1>5
     DEF PollStep, PollStart, PollDeferred, SweepAnswered,
         sweepStaleParents, CheckStaleParent, PollBatched, PollEnd, Recover,
         Consider, Launch, Skip, reconcileChildTicketsFromWorkItems
<1>6. ASSUME \/ \E c \in Children : recordResult(c)
                                    \/ updateTicketTerminalState(c)
             \/ \E t \in Family : Cancel(t)
             \/ OpenBuildGate
      PROVE  Ranged
  BY <1>2, <1>6
     DEF recordResult, updateTicketTerminalState, Cancel, OpenBuildGate
<1>7. ASSUME Restart PROVE Ranged
  BY <1>1, <1>7 DEF Restart, Ranged
<1> QED BY <1>4, <1>5, <1>6, <1>7 DEF Next, Ranged

LEMMA BaseInit ==
    ASSUME Init
    PROVE  Base
<1>1. TypeOK
  BY TypeInit
<1>2. /\ \A c \in Children : /\ status[c] = Absent /\ item[c] = "none"
                              /\ tells[c] = "none"
      /\ \A t \in Family : run[t] = "idle"
      /\ status[Root] = "approved"
  BY FamilyFacts DEF Init
<1> QED BY <1>1, <1>2, FamilyFacts
        DEF Init, Base, Created, Busy, NoCycle, Absent

LEMMA BaseStep ==
    ASSUME Base, [Next]_vars
    PROVE  Base'
<1>1. CASE UNCHANGED vars
  BY <1>1 DEF Base, vars, TypeOK, Busy, Created, Child
<1>2. CASE Next
  <2>1. TypeOK'
    BY <1>2, TypeStep DEF Base
  <2>2. \A c \in Children : status'[c] \in ChildTargets \cup {Absent}
    BY <1>2, StatusStep DEF ChildSafe, ChildTargets, Base
  <2>3. \A c \in Created' : plan' # 0 /\ c < Child(unit)'
    <3>1. \A c \in Children : c \in Nat
      BY FamilyFacts
    <3>2. CASE CreateChild
      <4>1. plan # 0 /\ plan' = plan /\ unit' = unit + 1
        BY <3>2, CreateStep
      <4>2. Child(unit) \in Nat /\ Child(unit)' = Child(unit) + 1
        BY <4>1, ChildNumbers DEF Base, Child
      <4>3. ASSUME NEW c \in Created' PROVE c \in Nat /\ c < Child(unit) + 1
        <5>1. c \in Children /\ (c \in Created \/ c = Child(unit))
          BY <1>2, Lasting DEF Created
        <5> QED BY <3>1, <4>2, <5>1 DEF Base
      <4> QED BY <4>1, <4>2, <4>3
    <3>3. CASE UNCHANGED <<plan, unit>> /\ ~CreateChild
      <4>1. \A c \in Created' : c \in Created
        BY <1>2, <3>3, Lasting
      <4>2. Child(unit)' = Child(unit)
        BY <3>3 DEF Child
      <4> QED BY <3>3, <4>1, <4>2 DEF Base
    <3>4. CASE plan' = plan + 1 /\ unit' = 1 /\ ~CreateChild
      <4>1. \A c \in Created' : c \in Created /\ c \in Nat
        BY <1>2, <3>1, <3>4, Lasting DEF Created
      <4>2. plan \in Nat /\ plan' # 0
        BY <3>4 DEF Base, TypeOK
      <4>3. Child(unit)' = plan * Units + 1
        BY <3>4, <4>2 DEF Child
      <4>4. ASSUME NEW c \in Created' PROVE c < plan * Units + 1
        <5> DEFINE next == plan * Units + 1
        <5>1. plan # 0 /\ c < Child(unit) /\ c \in Nat
          BY <4>1, <4>4 DEF Base
        <5>2. Child(unit) \in Nat /\ Child(unit) <= next
          BY <5>1, ChildNumbers DEF Base
        <5>3. next \in Nat
          BY <4>2, UnitsAssumption
        <5> HIDE DEF next
        <5>4. c < next
          BY <5>1, <5>2, <5>3
        <5> QED BY <5>4 DEF next
      <4> QED BY <4>2, <4>3, <4>4
    <3> QED BY <1>2, <3>2, <3>3, <3>4, PlanStep
  <2>4. run'[Root] = "creating" => plan' # 0
    <3>1. plan \in Nat
      BY DEF Base, TypeOK
    <3> QED BY <1>2, <3>1, PlanStep DEF Base
  <2>5. \A c \in Children : Busy(c)' => c \in Created'
    BY <1>2, BusyStep
  <2>6. /\ \A c \in Children : run'[c] \in {"idle", "working", "hooking"}
        /\ run'[Root] \in {"idle", "planning", "creating", "gating"}
    BY <1>2, RunRange
  <2>7. status'[Root] # Absent
    BY <1>2, StatusStep DEF RootSafe, OshalTicketState, Absent, Base
  <2> QED BY <2>1, <2>2, <2>3, <2>4, <2>5, <2>6, <2>7 DEF Base
<1> QED BY <1>1, <1>2

(***************************************************************************)
(* Siblings run one at a time, in planning order.  When a child is chosen  *)
(* for a batch, every child of an earlier place is done and out of the     *)
(* slots.  It stays so: done is final, a ticket that is done is not        *)
(* claimed again, and a child that is still to be created comes after all  *)
(* that exist.  So a child that runs beside a later one runs without a     *)
(* slot.                                                                   *)
(***************************************************************************)
HasPlace(c) ==
    Running(c) => c \in qm.active \cup qm.aborted /\ status[c] # "dead_letter"

InOrder(c, e) ==
    Running(c) \/ c \in poll.batch => Done(e) /\ e \notin qm.active

Order ==
    /\ \A c \in Children : HasPlace(c)
    /\ \A c \in Children, e \in Created : Precedes(e, c) => InOrder(c, e)

OrderInv == Base /\ Order

\* A step that launches nobody keeps both, if what it writes keeps the tracking
\* of the ticket it is about.
LEMMA OrderKept ==
    ASSUME OrderInv, Next, ~CreateChild,
           \A c \in Children :
              /\ HasPlace(c)'
              /\ Running(c)' \/ c \in poll'.batch =>
                   \/ Running(c) \/ c \in poll.batch
                   \/ \A e \in Created :
                        Precedes(e, c) => Done(e) /\ e \notin qm.active
              /\ c \in qm'.active => c \in qm.active \/ ~Done(c)
    PROVE  Order'
<1>1. Base
  BY DEF OrderInv
<1>2. ASSUME NEW c \in Children, NEW e \in Created', Precedes(e, c)
      PROVE  InOrder(c, e)'
  <2>1. e \in Created /\ e \in Children
    BY <1>1, Lasting DEF Created
  <2>2. Running(c)' \/ c \in poll'.batch => Done(e) /\ e \notin qm.active
    BY <1>2, <2>1 DEF OrderInv, Order, InOrder
  <2>3. Done(e) => Done(e)' /\ (e \in qm'.active => e \in qm.active)
    BY <1>1, <2>1, Lasting
  <2> QED BY <2>2, <2>3 DEF InOrder
<1>3. \A c, e : Precedes(e, c)' <=> Precedes(e, c)
  BY DEF Precedes, subtaskIndex
<1> QED BY <1>2, <1>3 DEF Order

\* A write, and a release, put no ticket into the slots, and a running one
\* keeps its place.
LEMMA PlaceKept ==
    ASSUME Base, NEW t \in Family, NEW to, to # "dead_letter",
           status' = Written(t, to),
           qm'.active = Tracked(t, to).active,
           qm'.aborted = Tracked(t, to).aborted,
           \A c \in Children : Running(c)' => Running(c),
           \A c \in Children : HasPlace(c)
    PROVE  \A c \in Children : /\ HasPlace(c)'
                               /\ c \in qm'.active => c \in qm.active
<1>1. TypeOK /\ Children \subseteq Family
  BY FamilyFacts DEF Base
<1>2. ASSUME NEW c \in Children
      PROVE  /\ c \in qm'.active => c \in qm.active
             /\ c \in qm.active => c \in qm'.active \cup qm'.aborted
             /\ c \in qm.aborted /\ c \notin qm'.aborted =>
                  status[c] = "dead_letter"
             /\ status[c] # "dead_letter" => status'[c] # "dead_letter"
  BY <1>1, TrackedFacts, WrittenMoves
<1> QED BY <1>2 DEF HasPlace

LEMMA OrderRunStep ==
    ASSUME OrderInv, Next, NEW t \in Family, RunStep(t), ~CreateChild
    PROVE  Order'
<1>1. Base /\ TypeOK /\ qm \in Tracking /\ Order
  BY DEF OrderInv, Base, TypeOK
<1>2. Local(t) /\ poll' = poll
  BY <1>1, RunStepLocal DEF RunStep
<1>3. ASSUME t \in Children
      PROVE  /\ HasPlace(t)' /\ (Running(t)' => Running(t))
             /\ t \in qm'.active => t \in qm.active
  <2>1. t # Root /\ HasPlace(t)
    BY <1>1, <1>3, FamilyFacts DEF Order
  <2>2. ASSUME NEW q \in Tracking, Return(t), qm' = Released(q, t)
        PROVE  ~Running(t)' /\ t \notin qm'.active
    <3>1. run'[t] = "idle"
      BY <1>1, <2>2, ContinueElsewhere DEF Return
    <3> QED BY <2>2, <3>1, ReleasedFacts DEF Running
  <2>3. CASE WorkReturns(t)
    <3>1. CASE qm' = Released(qm, t) /\ Return(t)
      BY <1>1, <2>2, <3>1 DEF HasPlace
    <3>2. CASE TryMove(t, "complete")
      <4>1. /\ status' = Written(t, "complete")
            /\ qm' = Tracked(t, "complete")
        BY <3>2 DEF TryMove
      <4>2. /\ qm' = qm /\ Running(t)
            /\ status'[t] # "dead_letter" \/ status'[t] = status[t]
        BY <1>1, <2>3, <4>1, TrackedFacts, WrittenMoves
           DEF WorkReturns, Running
      <4> QED BY <2>1, <4>2 DEF HasPlace
    <3> QED BY <2>3, <3>1, <3>2 DEF WorkReturns
  <2>4. CASE AskForParent(t)
    BY <2>1, <2>4 DEF AskForParent, HasPlace, Running
  <2>5. CASE ParentAnswered(t)
    BY <1>1, <2>2, <2>5, FamilyFacts, TrackedType DEF ParentAnswered, HasPlace
  <2>6. CASE WorkFails(t)
    <3>1. Return(t) /\ \E q \in Tracking : qm' = Released(q, t)
      BY <1>1, <2>1, <2>6, TrackedType DEF WorkFails
    <3> QED BY <2>2, <3>1 DEF HasPlace
  <2> QED BY <2>1, <2>3, <2>4, <2>5, <2>6, RunStep(t) DEF RunStep
<1>4. ASSUME NEW d \in Children, d # t
      PROVE  /\ HasPlace(d)' /\ (Running(d)' => Running(d))
             /\ d \in qm'.active => d \in qm.active
  BY <1>1, <1>2, <1>4
     DEF Local, SameChild, SameTracking, Order, HasPlace, Running
<1> QED BY <1>2, <1>3, <1>4, OrderKept

LEMMA OrderCreate ==
    ASSUME OrderInv, Next, CreateChild, poll' = poll
    PROVE  Order'
<1>1. Base /\ Order /\ Base'
  BY BaseStep DEF OrderInv
<1> DEFINE new == Child(unit)
<1>2. /\ new \in Children /\ status[new] = Absent
      /\ UNCHANGED <<run, qm>>
      /\ \A d \in Children : status'[d] \in {status[d], "approved"}
      /\ \A d \in Children : d # new => status'[d] = status[d]
      /\ \A c \in Created' : c \in Created \/ c = new
      /\ \A c \in Created : c < new
  BY <1>1, CreateStep, Lasting DEF Base
<1> HIDE DEF new
<1>3. ASSUME NEW c \in Children PROVE HasPlace(c)'
  BY <1>1, <1>2, <1>3 DEF Order, HasPlace, Running
<1>4. ASSUME NEW c \in Children, NEW e \in Created', Precedes(e, c)
      PROVE  InOrder(c, e)'
  <2>1. CASE e \in Created
    <3>1. Done(e) => Done(e)'
      BY <1>1, <2>1, Lasting DEF Created
    <3> QED BY <1>1, <1>2, <1>4, <2>1, <3>1, poll' = poll
            DEF Order, InOrder, Running
  <2>2. CASE e = new
    <3>1. c \in Nat /\ new \in Nat /\ new < c
      BY <1>2, <1>4, <2>2, FamilyFacts DEF Precedes
    <3>2. c \notin Created'
      BY <1>2, <3>1, FamilyFacts DEF Created
    <3>3. ~Busy(c)'
      BY <1>1, <3>2 DEF Base
    <3> QED BY <3>3 DEF Busy, InOrder, Running
  <2> QED BY <1>2, <2>1, <2>2
<1>5. \A c, e : Precedes(e, c)' <=> Precedes(e, c)
  BY DEF Precedes, subtaskIndex
<1> QED BY <1>3, <1>4, <1>5 DEF Order

LEMMA OrderLaunch ==
    ASSUME OrderInv, Next, NEW t \in Family, Launch(t), PollStep
    PROVE  Order'
<1>1. Base /\ TypeOK /\ qm \in Tracking /\ Order
  BY DEF OrderInv, Base, TypeOK
<1>2. ~CreateChild /\ poll'.batch = poll.batch \ {t} /\ t \in poll.batch
  BY <1>1, PollLists DEF PollStep, PollOnly, CreateChild, Base, TypeOK, Launch
<1>3. CASE /\ status[t] = EntryState(t) \/ Allowed(t, EntryState(t))
           /\ status' = Written(t, EntryState(t))
           /\ qm' = [qm EXCEPT !.active = @ \cup {t}]
           /\ \E pc : Continue(t, pc)
  <2>1. /\ qm'.active = qm.active \cup {t} /\ qm'.aborted = qm.aborted
        /\ \A d \in Family : d # t => run'[d] = run[d]
    BY <1>1, <1>3, ContinueElsewhere DEF Tracking
  <2>2. ASSUME NEW c \in Children PROVE HasPlace(c)'
    <3>1. CASE c # t
      <4>1. status'[c] = status[c] /\ run'[c] = run[c]
        BY <1>1, <1>3, <2>1, <3>1, FamilyFacts, WrittenMoves
      <4> QED BY <1>1, <2>1, <4>1 DEF Order, HasPlace, Running
    <3>2. CASE c = t
      <4>1. status'[c] = EntryState(c)
        BY <1>1, <1>3, <3>2, WrittenMoves DEF TypeOK, Written
      <4>2. EntryState(c) = "in_process_build"
        BY FamilyFacts DEF EntryState
      <4> QED BY <2>1, <3>2, <4>1, <4>2 DEF HasPlace
    <3> QED BY <3>1, <3>2
  <2>3. t \in Children => ~Done(t)
    <3>1. ASSUME t \in Children, Done(t) PROVE FALSE
      <4>1. EntryState(t) = "in_process_build"
        BY <3>1, FamilyFacts DEF EntryState
      <4> QED BY <1>3, <3>1, <4>1, TableRows DEF Done, Allowed
    <3> QED BY <3>1
  <2>4. \A c \in Children : Running(c)' => Running(c) \/ c = t
    BY <2>1, FamilyFacts DEF Running
  <2> QED BY <1>2, <2>1, <2>2, <2>3, <2>4, OrderKept
<1>4. CASE TryMove(t, "approved") /\ UNCHANGED run
  <2>1. \A c \in Children : /\ HasPlace(c)'
                            /\ c \in qm'.active => c \in qm.active
    BY <1>1, <1>4, PlaceKept DEF TryMove, Order, Running
  <2> QED BY <1>2, <1>4, <2>1, OrderKept DEF Running
<1> QED BY <1>3, <1>4 DEF Launch

LEMMA OrderPollStep ==
    ASSUME OrderInv, Next, PollStep
    PROVE  Order'
<1>1. Base /\ TypeOK /\ qm \in Tracking /\ Order
  BY DEF OrderInv, Base, TypeOK
<1>2. ~CreateChild
  BY <1>1 DEF PollStep, PollOnly, CreateChild, Base, TypeOK
<1> DEFINE Chosen ==
      \A c \in poll'.batch : c \in Children =>
          \/ c \in poll.batch
          \/ \A e \in Created : Precedes(e, c) => Done(e) /\ e \notin qm.active
\* A write of one ticket, or none, that chooses no child too early.
<1>3. ASSUME NEW t \in Family, NEW to, to # "dead_letter",
             status' = Written(t, to),
             qm'.active = Tracked(t, to).active,
             qm'.aborted = Tracked(t, to).aborted,
             UNCHANGED run, Chosen
      PROVE  Order'
  <2>1. \A c \in Children : /\ HasPlace(c)'
                            /\ c \in qm'.active => c \in qm.active
    BY <1>1, <1>3, PlaceKept DEF Order, Running
  <2> QED BY <1>2, <1>3, <2>1, OrderKept DEF Running
<1>4. ASSUME UNCHANGED <<status, run, qm>>, Chosen PROVE Order'
  BY <1>1, <1>2, <1>4, OrderKept DEF Order, HasPlace, Running
<1>5. ASSUME NEW t \in Family, Recover(t) PROVE Order'
  <2>1. Chosen /\ UNCHANGED run
    BY <1>1, <1>5, PollLists DEF Recover
  <2>2. CASE UNCHANGED <<status, qm>>
    BY <1>4, <2>1, <2>2
  <2>3. CASE \E to \in {"approved", "escalated"} :
               /\ status' = Written(t, to)
               /\ qm' = IF to = "approved"
                          THEN [Tracked(t, to) EXCEPT
                                  !.recovered = @ \cup {t}]
                          ELSE Tracked(t, to)
    <3>1. PICK to \in {"approved", "escalated"} :
               /\ status' = Written(t, to)
               /\ qm' = IF to = "approved"
                          THEN [Tracked(t, to) EXCEPT
                                  !.recovered = @ \cup {t}]
                          ELSE Tracked(t, to)
      BY <2>3
    <3>2. Tracked(t, to) \in Tracking
      BY <1>1, TrackedType
    <3>3. /\ qm'.active = Tracked(t, to).active
          /\ qm'.aborted = Tracked(t, to).aborted
      BY <3>1, <3>2 DEF Tracking
    <3> QED BY <1>3, <2>1, <3>1, <3>3
  <2> QED BY <1>5, <2>2, <2>3 DEF Recover
<1>6. ASSUME NEW c \in Children, reconcileChildTicketsFromWorkItems(c)
      PROVE  Order'
  <2>1. Chosen /\ UNCHANGED run
    BY <1>1, <1>6, PollLists DEF reconcileChildTicketsFromWorkItems
  <2>2. PICK to \in {"escalated", "complete", status[c]} : TryMove(c, to)
    BY <1>6 DEF reconcileChildTicketsFromWorkItems
  <2>3. CASE to # "dead_letter"
    BY <1>3, <2>1, <2>2, <2>3, FamilyFacts DEF TryMove
  <2>4. CASE to = "dead_letter"
    <3>1. to = status[c] /\ to \in OshalTicketState
      BY <2>2, <2>4 DEF OshalTicketState
    <3>2. ~Allowed(c, to)
      BY <3>1, TableRows DEF Allowed
    <3> QED BY <1>4, <2>1, <2>2, <3>2 DEF TryMove, Written, Tracked
  <2> QED BY <2>3, <2>4
<1>7. ASSUME NEW t \in Family, Consider(t) PROVE Order'
  <2>1. UNCHANGED run
    BY <1>7 DEF Consider
  <2>2. Chosen
    <3>1. SUFFICES ASSUME NEW c \in poll'.batch, c \in Children,
                          c \notin poll.batch, NEW e \in Created,
                          Precedes(e, c)
                   PROVE  Done(e) /\ e \notin qm.active
      OBVIOUS
    <3>2. c = t /\ t # Root /\ ~isHeldBehindEarlierSibling(t)
      BY <1>1, <1>7, <3>1, FamilyFacts, PollLists
    <3>3. status[e] \in COMPLETED_STATES /\ e \notin qm.active
      BY <3>1, <3>2 DEF isHeldBehindEarlierSibling, Precedes
    <3> QED BY <1>1, <3>1, <3>3
            DEF Base, Created, ChildTargets, Absent, COMPLETED_STATES, Done
  <2>3. CASE UNCHANGED <<status, qm>>
    BY <1>4, <2>1, <2>2, <2>3
  <2>4. CASE TryMove(t, terminalChildStatusForParentState(status[Root]))
    <3>1. terminalChildStatusForParentState(status[Root]) # "dead_letter"
      BY DEF terminalChildStatusForParentState, Absent
    <3> QED BY <1>3, <2>1, <2>2, <2>4, <3>1 DEF TryMove
  <2> QED BY <1>7, <2>3, <2>4 DEF Consider
<1>8. ASSUME SweepAnswered PROVE Order'
  <2>1. Chosen /\ UNCHANGED run /\ TryMove(Root, Consequence(Sweep))
    BY <1>1, <1>8, PollLists DEF SweepAnswered
  <2>2. CASE Consequence(Sweep) # "dead_letter"
    BY <1>3, <2>1, <2>2, FamilyFacts DEF TryMove
  <2>3. CASE Consequence(Sweep) = "dead_letter"
    <3>1. /\ Consequence(Sweep) = status[Root]
          /\ status[Root] \in OshalTicketState
      BY <2>3 DEF Consequence, OshalTicketState
    <3>2. ~Allowed(Root, status[Root])
      BY <3>1, TableRows DEF Allowed
    <3> QED BY <1>4, <2>1, <3>1, <3>2 DEF TryMove, Written, Tracked
  <2> QED BY <2>2, <2>3
<1>9. ASSUME \/ PollStart \/ PollDeferred \/ sweepStaleParents
             \/ CheckStaleParent \/ PollBatched \/ PollEnd
             \/ \E t \in Family : Skip(t)
      PROVE  Order'
  <2>1. UNCHANGED <<status, run, qm>>
    BY <1>1, <1>9, PollStepLocal
  <2>2. poll'.batch \subseteq poll.batch
    <3>1. CASE PollStart \/ PollDeferred \/ sweepStaleParents
      BY <1>1, <3>1, PollLists
    <3>2. CASE CheckStaleParent \/ PollBatched
      BY <1>1, <3>2, PollLists
    <3>3. CASE PollEnd \/ \E t \in Family : Skip(t)
      BY <1>1, <3>3, PollLists DEF NoCycle
    <3> QED BY <1>9, <3>1, <3>2, <3>3
  <2> QED BY <1>4, <2>1, <2>2
<1> HIDE DEF Chosen
<1> QED BY <1>5, <1>6, <1>7, <1>8, <1>9, OrderLaunch DEF PollStep

LEMMA OrderOtherStep ==
    ASSUME OrderInv, Next,
           \/ \E c \in Children : \/ recordResult(c)
                                  \/ updateTicketTerminalState(c)
           \/ \E t \in Family : Cancel(t)
           \/ OpenBuildGate \/ Restart
    PROVE  Order'
<1>1. Base /\ TypeOK /\ qm \in Tracking /\ Order
  BY DEF OrderInv, Base, TypeOK
<1>2. ~CreateChild
  BY <1>1 DEF recordResult, updateTicketTerminalState, Cancel, OpenBuildGate,
              Restart, CreateChild, Base, TypeOK
<1>3. ASSUME NEW t \in Family, NEW to, to # "dead_letter",
             TryMove(t, to), UNCHANGED <<run, poll>>
      PROVE  Order'
  <2>1. \A c \in Children : /\ HasPlace(c)'
                            /\ c \in qm'.active => c \in qm.active
    BY <1>1, <1>3, PlaceKept DEF Order, Running, TryMove
  <2> QED BY <1>2, <1>3, <2>1, OrderKept DEF Running
<1>4. ASSUME UNCHANGED <<status, qm, run, poll>> PROVE Order'
  BY <1>1, <1>2, <1>4, OrderKept DEF Order, HasPlace, Running
<1>5. ASSUME NEW c \in Children, updateTicketTerminalState(c) PROVE Order'
  <2>1. UNCHANGED <<run, poll>>
    BY <1>5 DEF updateTicketTerminalState
  <2>2. c \in Family /\ tells[c] # "dead_letter"
    BY <1>1, FamilyFacts DEF TypeOK
  <2>3. CASE UNCHANGED <<status, qm>>
    BY <1>4, <2>1, <2>3
  <2>4. CASE TryMove(c, tells[c])
    BY <1>3, <2>1, <2>2, <2>4
  \* The listener is in another process: the slots do not change.
  <2>5. CASE status' = Written(c, tells[c]) /\ qm' = qm
    <3>1. \A d \in Children :
            status[d] # "dead_letter" => status'[d] # "dead_letter"
      BY <1>1, <2>2, <2>5, FamilyFacts, WrittenMoves
    <3>2. \A d \in Children : HasPlace(d)'
      BY <1>1, <2>1, <2>5, <3>1 DEF Order, HasPlace, Running
    <3> QED BY <1>2, <2>1, <2>5, <3>2, OrderKept DEF Running
  <2> QED BY <1>5, <2>3, <2>4, <2>5 DEF updateTicketTerminalState, TryMove
<1>6. ASSUME Restart PROVE Order'
  <2>1. /\ \A c \in Children : ~Running(c)'
        /\ poll'.batch = {} /\ qm'.active = {}
    BY <1>6, FamilyFacts DEF Restart, Running, NoCycle, NoTracking
  <2> QED BY <1>2, <2>1, OrderKept DEF HasPlace
<1>7. (\E c \in Children : recordResult(c)) => Order'
  BY <1>4 DEF recordResult
<1>8. (\E t \in Family : Cancel(t)) => Order'
  BY <1>3 DEF Cancel
<1>9. OpenBuildGate => Order'
  BY <1>3, FamilyFacts DEF OpenBuildGate
<1> QED BY <1>5, <1>6, <1>7, <1>8, <1>9

LEMMA OrderStep ==
    ASSUME OrderInv, [Next]_vars
    PROVE  OrderInv'
<1>1. Base'
  BY BaseStep DEF OrderInv
<1>2. CASE UNCHANGED vars
  <2>1. \A c, e : Precedes(e, c)' <=> Precedes(e, c)
    BY DEF Precedes, subtaskIndex
  <2> QED BY <1>1, <1>2, <2>1
          DEF OrderInv, Order, HasPlace, InOrder, Running, Done, Created, vars
<1>3. CASE Next
  <2>1. ASSUME NEW t \in Family, RunStep(t) PROVE Order'
    BY <1>3, <2>1, OrderRunStep, OrderCreate DEF RunStep
  <2> QED BY <1>1, <1>3, <2>1, OrderPollStep, OrderOtherStep
          DEF Next, OrderInv
<1> QED BY <1>2, <1>3

\* "Siblings share their root's folder ..., so they run one at a time in
\* planning order": for any number of units and plans, whatever the workers
\* report, the listings answer and the operators cancel, the only dispatch of a
\* child that is running beside that of a child planned after it is one that
\* lost its slot while its ticket was cancelled or completed.
THEOREM SiblingsInOrder == Spec => []SiblingsRunOneAtATime
<1>1. Init => OrderInv
  <2>1. ASSUME Init PROVE Order
    <3>1. /\ \A c \in Children : run[c] = "idle"
          /\ poll.batch = {}
      BY <2>1, FamilyFacts DEF Init, NoCycle
    <3> QED BY <3>1 DEF Order, HasPlace, InOrder, Running
  <2> QED BY <2>1, BaseInit DEF OrderInv
<1>2. OrderInv /\ [Next]_vars => OrderInv'
  BY OrderStep
<1>3. OrderInv => SiblingsRunOneAtATime
  <2>1. SUFFICES ASSUME OrderInv, NEW c \in Children, NEW d \in Children,
                        Precedes(c, d), Running(c), Running(d)
                 PROVE  /\ c \in qm.aborted
                        /\ status[c] \in {"cancelled", "complete"}
    BY DEF SiblingsRunOneAtATime
  <2>2. c \in Created
    BY <2>1 DEF OrderInv, Base, Busy, Running
  <2>3. Done(c) /\ c \notin qm.active
    BY <2>1, <2>2 DEF OrderInv, Order, InOrder
  <2>4. c \in qm.active \cup qm.aborted
    BY <2>1 DEF OrderInv, Order, HasPlace
  <2> QED BY <2>3, <2>4 DEF Done
<1> QED BY <1>1, <1>2, <1>3, PTL DEF Spec

(***************************************************************************)
(* The parent finishes last.  A listing on which every child is done stays *)
(* true while its answer is under way, because done is final and no child  *)
(* is created any more: children are created only from a plan, and while   *)
(* the first plan is made and worked off nothing but its own dispatch, an  *)
(* operator's cancellation and a restart can write to the root, and no     *)
(* child moves but by an operator's cancellation, too.  All of it is said  *)
(* of the time before a second plan, and before a child is cancelled while *)
(* others are still to be created.                                         *)
(***************************************************************************)
Planning == run[Root] = "creating" \/ (run[Root] = "planning" /\ plan = 0)

Fresh(c) ==
    /\ status[c] = "approved" /\ item[c] = "none" /\ tells[c] = "none"
    /\ run[c] = "idle" /\ c \notin poll.batch
    /\ poll.pc = "recovering" => c \notin poll.todo

Calm ==
    /\ status[Root] = "in_process_discovery" /\ Root \in qm.active
    /\ \A c \in Created : Fresh(c)
    /\ verdict[Sweep] \in {"none", "empty", "pending"}

Once == plan < 2 /\ ~cutShort

FinishOnce ==
    /\ Finished(Root) => \A c \in Created : Done(c)
    /\ \A k \in Checkers : verdict[k] = "complete" =>
         status[Root] = "cancelled" \/ \A c \in Created : Done(c)
    /\ run[Root] = "gating" => Created = {}
    /\ Created = {} => \A k \in Checkers : verdict[k] \in {"none", "empty"}
    /\ Planning => status[Root] = "cancelled" \/ Calm

Asking ==
    \A t \in Family : verdict[t] # "none" => run[t] \in {"gating", "hooking"}

FinishInv == Base /\ Asking /\ (Once => FinishOnce)

\* Neither a plan nor a history is taken back.
LEMMA OnceStep ==
    ASSUME Base, Next, Once'
    PROVE  Once
<1>1. plan \in Nat /\ plan' \in Nat /\ cutShort \in BOOLEAN
  BY BaseStep DEF Base, TypeOK
<1>2. plan <= plan'
  BY <1>1, PlanStep
<1>3. cutShort => cutShort'
  BY <1>1 DEF Next, RunStep, PollStep, PollOnly, recordResult,
              updateTicketTerminalState, Cancel, OpenBuildGate, Restart
<1> QED BY <1>1, <1>2, <1>3 DEF Once

\* The verdicts a listing can give, of all children or, when it fails, of none.
LEMMA JudgementFacts ==
    ASSUME Base, NEW children, children \in {Created, {}}
    PROVE  /\ Judgement(children) = "complete" =>
                children = Created /\ \A c \in children : Done(c)
           /\ Judgement(children) = "empty" => children = {}
           /\ Created = {} => Judgement(children) = "empty"
           /\ (\A c \in Created : status[c] = "approved")
                => Judgement(children) \in {"empty", "pending"}
<1> DEFINE in(states) == {c \in children : status[c] \in states}
<1>1. children = {} <=> Judgement(children) = "empty"
  BY DEF Judgement
<1>2. ASSUME Judgement(children) = "complete"
      PROVE  children = Created /\ \A c \in children : Done(c)
  <2>1. children # {} /\ in(COMPLETED_STATES) = children
    BY <1>2 DEF Judgement
  <2> QED BY <2>1
          DEF Base, Created, ChildTargets, COMPLETED_STATES, Done, Absent
<1>3. ASSUME \A c \in Created : status[c] = "approved", children # {}
      PROVE  Judgement(children) = "pending"
  <2>1. /\ in(ESCALATED_STATES) = {} /\ in({"paused"}) = {}
        /\ in(COMPLETED_STATES) = {}
    BY <1>3 DEF ESCALATED_STATES, COMPLETED_STATES
  <2> QED BY <1>3, <2>1 DEF Judgement
<1> QED BY <1>1, <1>2, <1>3

\* Before the first child, nobody is busy with one.
LEMMA CalmFacts ==
    ASSUME FinishInv, Once, Calm, Planning
    PROVE  /\ \A c \in Children :
                /\ run[c] = "idle" /\ item[c] = "none" /\ tells[c] = "none"
                /\ c \notin poll.batch
                /\ poll.pc = "recovering" => c \notin poll.todo
                /\ status[c] \in {"approved", Absent}
           /\ \A t \in Family : verdict[t] = "none"
<1>1. Base /\ Asking /\ FinishOnce
  BY DEF FinishInv
<1>2. ASSUME NEW c \in Children
      PROVE  /\ run[c] = "idle" /\ item[c] = "none" /\ tells[c] = "none"
             /\ c \notin poll.batch
             /\ poll.pc = "recovering" => c \notin poll.todo
             /\ status[c] \in {"approved", Absent}
  <2>1. CASE c \in Created
    BY <2>1 DEF Calm, Fresh
  <2>2. CASE c \notin Created
    BY <1>1, <1>2, <2>2 DEF Base, Busy, Created
  <2> QED BY <2>1, <2>2
<1>3. run[Root] \in {"creating", "planning"}
  BY DEF Planning
<1>4. ASSUME NEW t \in Family PROVE verdict[t] = "none"
  BY <1>1, <1>2, <1>3, <1>4, FamilyFacts DEF Asking
<1> QED BY <1>2, <1>4

\* Before the first plan there is no child to cancel, and while children are
\* created the cancellation is history.
LEMMA NoChildCancelled ==
    ASSUME Base, Next, Once', Planning, NEW t \in Family, t # Root, Cancel(t)
    PROVE  FALSE
<1>1. run[Root] # "creating"
  BY DEF Cancel, Once
<1>2. t \in Created
  BY FamilyFacts DEF Cancel, Created
<1> QED BY <1>1, <1>2 DEF Planning, Base

\* While the first plan is made and worked off, every other step leaves the
\* tickets, their dispatches and the slots where they are.
LEMMA Stillness ==
    ASSUME FinishInv, Once, Next, Calm, Planning,
           Once', ~RunStep(Root), ~Cancel(Root), ~Restart
    PROVE  UNCHANGED <<status, item, run, qm, plan, unit>>
<1>1. Base /\ TypeOK
  BY DEF FinishInv, Base
<1>2. /\ \A c \in Children :
           /\ run[c] = "idle" /\ item[c] = "none" /\ tells[c] = "none"
           /\ c \notin poll.batch
           /\ poll.pc = "recovering" => c \notin poll.todo
           /\ status[c] \in {"approved", Absent}
      /\ \A t \in Family : verdict[t] = "none"
  BY CalmFacts
<1>3. /\ status[Root] = "in_process_discovery" /\ Root \in qm.active
      /\ run[Root] # "idle" /\ verdict[Sweep] \in {"none", "empty", "pending"}
  BY DEF Calm, Planning
<1>4. ASSUME NEW t \in Family, RunStep(t) PROVE FALSE
  <2>1. t \in Children /\ t # Root
    BY <1>4, FamilyFacts
  <2> QED BY <1>2, <1>4, <2>1
          DEF RunStep, WorkReturns, AskForParent, ParentAnswered, WorkFails
<1>5. ASSUME NEW t \in Family, Recover(t)
      PROVE  UNCHANGED <<status, item, run, qm>>
  <2>1. t = Root
    BY <1>2, <1>5, FamilyFacts DEF Recover
  <2> QED BY <1>3, <1>5, <2>1 DEF Recover
<1>6. ASSUME NEW c \in Children, reconcileChildTicketsFromWorkItems(c)
      PROVE  UNCHANGED <<status, item, run, qm>>
  <2>1. TryMove(c, status[c]) /\ UNCHANGED <<item, run>>
    BY <1>2, <1>6 DEF reconcileChildTicketsFromWorkItems
  <2>2. status[c] = "approved"
    BY <1>1, <1>2, <1>6
       DEF reconcileChildTicketsFromWorkItems, Base, Busy, Created
  <2>3. ~Allowed(c, status[c])
    BY <2>2, TableStates, TableRows DEF Allowed
  <2> QED BY <2>1, <2>3 DEF TryMove, Written, Tracked
<1>7. ASSUME NEW t \in Family, Consider(t)
      PROVE  UNCHANGED <<status, item, run, qm>>
  <2>1. terminalChildStatusForParentState(status[Root]) = Absent
    BY <1>3 DEF terminalChildStatusForParentState, Fail
  <2> QED BY <1>7, <2>1 DEF Consider
<1>8. ASSUME NEW t \in Family, Launch(t) PROVE FALSE
  BY <1>2, <1>3, <1>8, FamilyFacts DEF Launch
<1>9. ASSUME SweepAnswered PROVE UNCHANGED <<status, item, run, qm>>
  <2>1. Consequence(Sweep) = status[Root]
    BY <1>3, FamilyFacts DEF Consequence
  <2>2. ~Allowed(Root, status[Root])
    BY <1>3, TableStates, TableRows DEF Allowed
  <2> QED BY <1>9, <2>1, <2>2 DEF SweepAnswered, TryMove, Written, Tracked
<1>10. PollStep => UNCHANGED <<status, item, run, qm, plan, unit>>
  BY <1>1, <1>5, <1>6, <1>7, <1>8, <1>9, PollStepLocal
     DEF PollStep, PollOnly
<1>11. ASSUME NEW c \in Children,
              recordResult(c) \/ updateTicketTerminalState(c)
       PROVE  FALSE
  BY <1>2, <1>11 DEF recordResult, updateTicketTerminalState
<1>12. ASSUME NEW t \in Family, Cancel(t) PROVE FALSE
  BY <1>1, <1>12, NoChildCancelled
<1>13. ~OpenBuildGate
  BY <1>3 DEF OpenBuildGate
<1> QED BY <1>4, <1>10, <1>11, <1>12, <1>13 DEF Next

\* It stays so, or the root's dispatch is over, or an operator cancelled it.
LEMMA CalmStep ==
    ASSUME FinishInv, Once, Next, Calm, Planning, Once', Planning'
    PROVE  status'[Root] = "cancelled" \/ Calm'
<1>1. Base /\ TypeOK /\ Base'
  BY BaseStep DEF FinishInv, Base
<1>2. /\ \A c \in Children :
           /\ run[c] = "idle" /\ item[c] = "none" /\ tells[c] = "none"
           /\ c \notin poll.batch
           /\ poll.pc = "recovering" => c \notin poll.todo
           /\ status[c] \in {"approved", Absent}
      /\ \A t \in Family : verdict[t] = "none"
  BY CalmFacts
<1>3. /\ status[Root] = "in_process_discovery" /\ Root \in qm.active
      /\ run[Root] # "idle" /\ verdict[Sweep] \in {"none", "empty", "pending"}
  BY DEF Calm, Planning
<1>4. ASSUME Restart PROVE FALSE
  BY <1>1, <1>4, FamilyFacts DEF Restart, Planning
<1>5. ASSUME Cancel(Root) PROVE status'[Root] = "cancelled"
  BY <1>1, <1>5, FamilyFacts, WrittenMoves DEF Cancel, TryMove
<1>6. ASSUME RunStep(Root) PROVE Calm'
  <2>1. UNCHANGED poll
    BY <1>6 DEF RunStep
  <2>2. CASE CreateChild
    <3>1. /\ UNCHANGED <<item, run, qm, verdict, poll>>
          /\ status'[Root] = status[Root]
          /\ \A d \in Children : status'[d] = status[d]
                                 \/ status'[d] = "approved"
          /\ UNCHANGED tells
      BY <1>1, <1>6, <2>1, <2>2, CreateStep DEF CreateChild, RunStep
    <3>2. ASSUME NEW c \in Created' PROVE Fresh(c)'
      <4>1. c \in Children /\ status'[c] # Absent
        BY <3>2 DEF Created
      <4> QED BY <1>2, <3>1, <4>1 DEF Fresh
    <3> QED BY <1>3, <3>1, <3>2 DEF Calm
  <2>3. CASE PlanningReturns
    <3>0. ~Return(Root)
      BY <1>1, FamilyFacts, ContinueElsewhere DEF Planning, Return
    <3>1. Proceed(Root, "creating") /\ UNCHANGED <<status, verdict, item>>
      BY <2>3, <3>0 DEF PlanningReturns
    <3>2. Continue(Root, "creating") /\ UNCHANGED qm
      BY <3>0, <3>1 DEF Proceed
    <3>3. \A c \in Children : run'[c] = run[c]
      BY <1>1, <3>2, FamilyFacts, ContinueElsewhere
    <3>4. Created' = Created
      BY <3>1 DEF Created
    <3>5. ASSUME NEW c \in Created PROVE Fresh(c)'
      BY <1>6, <2>1, <3>1, <3>3, <3>5 DEF Calm, Fresh, Created, RunStep
    <3> QED BY <1>3, <3>1, <3>2, <3>4, <3>5 DEF Calm
  <2>4. ASSUME PlanCreated \/ WorkFails(Root) PROVE FALSE
    <3>1. \E pc \in {"idle", "gating"} : Continue(Root, pc)
      BY <2>4 DEF PlanCreated, WorkFails, Return
    <3> QED BY <1>1, <3>1, FamilyFacts, ContinueElsewhere DEF Planning
  <2>5. ~AskForParent(Root) /\ ~ParentAnswered(Root)
    BY <1>2, FamilyFacts DEF AskForParent, ParentAnswered, Planning
  <2> QED BY <1>6, <2>2, <2>3, <2>4, <2>5 DEF RunStep
<1>7. ASSUME ~RunStep(Root), ~Cancel(Root), ~Restart PROVE Calm'
  <2>1. UNCHANGED <<status, item, run, qm, plan, unit>>
    BY <1>7, Stillness
  <2>2. (PollStep \/ UNCHANGED <<poll, verdict>>) /\ UNCHANGED tells
    <3>1. ASSUME NEW t \in Family, RunStep(t) PROVE FALSE
      <4>1. t \in Children /\ t # Root
        BY <1>7, <3>1, FamilyFacts
      <4> QED BY <1>2, <3>1, <4>1
              DEF RunStep, WorkReturns, AskForParent, ParentAnswered, WorkFails
    <3>2. ASSUME NEW c \in Children,
                 recordResult(c) \/ updateTicketTerminalState(c)
          PROVE  FALSE
      BY <1>2, <3>2 DEF recordResult, updateTicketTerminalState
    <3> QED BY <1>7, <3>1, <3>2
            DEF Next, Cancel, OpenBuildGate, PollStep, PollOnly
  <2>3. ASSUME PollStep, NEW c \in Created
        PROVE  /\ c \notin poll'.batch
               /\ poll'.pc = "recovering" => c \notin poll'.todo
    <3>1. /\ c \in Children /\ c \in Family /\ c # Root
          /\ status[c] = "approved" /\ c \notin poll.batch
          /\ poll.pc = "recovering" => c \notin poll.todo
      BY <1>2, FamilyFacts DEF Created
    <3>2. status[c] \notin DispatchStates
      BY <3>1 DEF DispatchStates
    <3>3. status[Root] \notin PARENT_READY_FOR_CHILD_DISPATCH_STATES
      BY <1>3 DEF PARENT_READY_FOR_CHILD_DISPATCH_STATES
    <3>4. CASE PollStart \/ PollDeferred \/ SweepAnswered
      BY <1>1, <3>1, <3>2, <3>4, PollLists
    <3>5. CASE sweepStaleParents \/ CheckStaleParent \/ PollBatched
      BY <1>1, <3>1, <3>5, PollLists
    <3>6. CASE PollEnd
      BY <3>6 DEF PollEnd, NoCycle
    <3>7. CASE \E t \in Family : Recover(t) \/ Consider(t)
      BY <1>1, <3>1, <3>3, <3>7, PollLists DEF Recover
    <3>8. CASE \E t \in Family : Launch(t) \/ Skip(t)
      BY <1>1, <3>1, <3>8, PollLists
    <3>9. CASE \E d \in Children : reconcileChildTicketsFromWorkItems(d)
      BY <1>1, <3>1, <3>9, PollLists
    <3> QED BY <2>3, <3>4, <3>5, <3>6, <3>7, <3>8, <3>9 DEF PollStep
  <2>4. ASSUME PollStep PROVE verdict'[Sweep] \in {"none", "empty", "pending"}
    <3>1. \A children \in {Created, {}} :
            Judgement(children) \in {"empty", "pending"}
      <4>1. \A c \in Created : status[c] = "approved"
        BY DEF Calm, Fresh
      <4> QED BY <1>1, <4>1, JudgementFacts
    <3>2. \/ UNCHANGED verdict \/ ListChildren(Sweep)
          \/ verdict' = [verdict EXCEPT ![Sweep] = "none"]
      BY <2>4 DEF Answered, PollStep, PollStart, PollDeferred, SweepAnswered,
                  sweepStaleParents, CheckStaleParent, PollBatched, PollEnd,
                  Recover, Consider, Launch, Skip,
                  reconcileChildTicketsFromWorkItems
    <3>3. ASSUME ListChildren(Sweep)
          PROVE  verdict'[Sweep] \in {"empty", "pending"}
      <4>1. PICK children \in {Created, {}} :
              verdict' = [verdict EXCEPT ![Sweep] = Judgement(children)]
        BY <3>3 DEF ListChildren
      <4> QED BY <1>1, <3>1, <4>1, FamilyFacts DEF TypeOK
    <3> QED BY <1>1, <1>3, <3>2, <3>3, FamilyFacts DEF TypeOK
  <2>5. ASSUME NEW c \in Created PROVE Fresh(c)'
    BY <2>1, <2>2, <2>3, <2>5 DEF Calm, Fresh
  <2>6. Created' = Created
    BY <2>1 DEF Created
  <2> QED BY <1>3, <2>1, <2>2, <2>4, <2>5, <2>6 DEF Calm
<1> QED BY <1>4, <1>5, <1>6, <1>7

RootTargets == {"approved", "escalated", "dead_letter", "cancelled",
                "in_process_build", "in_process_discovery",
                "approval_required"}

\* Only a parent check writes the root complete, and then no child is written.
LEMMA RootStep ==
    ASSUME Base, Next
    PROVE  \/ status'[Root] \in RootTargets \cup {status[Root]}
           \/ \E k \in Checkers :
                /\ verdict[k] # "none" /\ verdict'[k] = "none"
                /\ Allowed(Root, Consequence(k))
                /\ status' = Written(Root, Consequence(k))
<1>1. TypeOK /\ Root \in Family
  BY FamilyFacts DEF Base
<1> DEFINE Goal ==
      \/ status'[Root] \in RootTargets \cup {status[Root]}
      \/ \E k \in Checkers :
           /\ verdict[k] # "none" /\ verdict'[k] = "none"
           /\ Allowed(Root, Consequence(k))
           /\ status' = Written(Root, Consequence(k))
<1>2. ASSUME NEW t \in Family, NEW to, status' = Written(t, to),
             t = Root => to \in RootTargets \cup {status[Root]}
      PROVE  Goal
  BY <1>1, <1>2, WrittenMoves
<1>3. ASSUME UNCHANGED status PROVE Goal
  BY <1>3
<1>4. ASSUME NEW k \in Checkers, verdict[k] # "none", Answered(k),
             status' = Written(Root, Consequence(k))
      PROVE  Goal
  <2>1. verdict'[k] = "none"
    BY <1>1, <1>4 DEF Answered, TypeOK
  <2> QED BY <1>1, <1>4, <2>1, WrittenMoves
<1> HIDE DEF Goal
<1>5. ASSUME NEW t \in Family, RunStep(t) PROVE Goal
  <2>1. ASSUME PlanningReturns \/ PlanCreated \/ WorkFails(t) PROVE Goal
    BY <1>1, <1>2, <1>3, <2>1
       DEF PlanningReturns, PlanCreated, WorkFails, RootTargets, Fail
  <2>2. ASSUME CreateChild PROVE Goal
    <3>1. CASE UNCHANGED status
      BY <1>3, <3>1
    <3>2. CASE status' = [status EXCEPT ![Child(unit)] = "approved"]
      BY <1>1, <3>2 DEF TypeOK, Goal, RootTargets
    <3> QED BY <2>2, <3>1, <3>2 DEF CreateChild
  <2>3. ASSUME t # Root, WorkReturns(t) PROVE Goal
    BY <1>2, <1>3, <2>3 DEF WorkReturns, TryMove
  <2>4. ASSUME AskForParent(t) \/ ParentAnswered(t) PROVE Goal
    BY <1>3, <1>4, <2>4, FamilyFacts DEF AskForParent, ParentAnswered
  <2> QED BY <1>5, <2>1, <2>2, <2>3, <2>4 DEF RunStep
<1>6. ASSUME PollStep PROVE Goal
  <2>1. ASSUME NEW t \in Family, Recover(t) PROVE Goal
    BY <1>2, <1>3, <2>1 DEF Recover, RootTargets
  <2>2. ASSUME NEW t \in Family, Consider(t) PROVE Goal
    BY <1>2, <1>3, <2>2 DEF Consider, TryMove
  <2>3. ASSUME NEW t \in Family, Launch(t) PROVE Goal
    BY <1>2, <2>3 DEF Launch, TryMove, EntryState, RootTargets
  <2>4. ASSUME NEW c \in Children, reconcileChildTicketsFromWorkItems(c)
        PROVE  Goal
    BY <1>2, <2>4, FamilyFacts
       DEF reconcileChildTicketsFromWorkItems, TryMove
  <2>5. ASSUME SweepAnswered PROVE Goal
    BY <1>4, <2>5, FamilyFacts DEF SweepAnswered, TryMove
  <2> QED BY <1>3, <1>6, <2>1, <2>2, <2>3, <2>4, <2>5, PollStepLocal
          DEF PollStep, PollStart, PollDeferred, sweepStaleParents,
              CheckStaleParent, PollBatched, PollEnd, Skip
<1>7. ASSUME NEW c \in Children,
             recordResult(c) \/ updateTicketTerminalState(c)
      PROVE  Goal
  BY <1>2, <1>3, <1>7, FamilyFacts
     DEF recordResult, updateTicketTerminalState
<1>8. ASSUME (\E t \in Family : Cancel(t)) \/ OpenBuildGate PROVE Goal
  BY <1>1, <1>2, <1>8 DEF Cancel, OpenBuildGate, TryMove, RootTargets
<1>9. ASSUME Restart PROVE Goal
  BY <1>1, <1>2, <1>3, <1>9 DEF Restart, RootTargets
<1> QED BY <1>5, <1>6, <1>7, <1>8, <1>9 DEF Next, Goal

\* What becomes of an answer under way, and of the listing that gives one.
LEMMA VerdictStep ==
    ASSUME Base, Next, NEW k \in Checkers
    PROVE  \/ verdict'[k] = verdict[k] /\ listed'[k] = listed[k]
           \/ verdict'[k] = "none" /\ listed'[k] = {}
           \/ \E children \in {Created, {}} :
                /\ verdict'[k] = Judgement(children) /\ listed'[k] = children
                /\ UNCHANGED <<status, run, plan, cutShort>>
                /\ k # Sweep => run[k] \in {"gating", "hooking"}
<1>1. TypeOK
  BY DEF Base
<1>2. \/ UNCHANGED <<verdict, listed>>
      \/ \E j \in Checkers : Answered(j)
      \/ /\ verdict' = [j \in Checkers |-> "none"]
         /\ listed' = [j \in Checkers |-> {}]
      \/ \E j \in Checkers : /\ ListChildren(j)
                             /\ UNCHANGED <<status, run, plan, cutShort>>
                             /\ j # Sweep => run[j] \in {"gating", "hooking"}
  <2>1. ASSUME NEW t \in Family, RunStep(t)
        PROVE  \/ UNCHANGED <<verdict, listed>>
               \/ Answered(t)
               \/ /\ ListChildren(t)
                  /\ UNCHANGED <<status, run, plan, cutShort>>
                  /\ run[t] \in {"gating", "hooking"}
    BY <2>1 DEF RunStep, PlanningReturns, CreateChild, PlanCreated,
                WorkReturns, AskForParent, ParentAnswered, WorkFails
  <2>2. ASSUME PollStep
        PROVE  \/ UNCHANGED <<verdict, listed>>
               \/ Answered(Sweep)
               \/ /\ ListChildren(Sweep)
                  /\ UNCHANGED <<status, run, plan, cutShort>>
    BY <2>2 DEF PollStep, PollStart, PollDeferred, SweepAnswered,
                sweepStaleParents, CheckStaleParent, PollBatched, PollEnd,
                Recover, Consider, Launch, Skip, PollOnly,
                reconcileChildTicketsFromWorkItems
  <2>3. ASSUME \/ \E c \in Children : \/ recordResult(c)
                                      \/ updateTicketTerminalState(c)
               \/ \E t \in Family : Cancel(t)
               \/ OpenBuildGate
        PROVE  UNCHANGED <<verdict, listed>>
    BY <2>3
       DEF recordResult, updateTicketTerminalState, Cancel, OpenBuildGate
  <2>4. Restart => /\ verdict' = [j \in Checkers |-> "none"]
                   /\ listed' = [j \in Checkers |-> {}]
    BY DEF Restart
  <2> QED BY <2>1, <2>2, <2>3, <2>4, FamilyFacts DEF Next
<1>3. CASE \E j \in Checkers :
             /\ ListChildren(j) /\ UNCHANGED <<status, run, plan, cutShort>>
             /\ j # Sweep => run[j] \in {"gating", "hooking"}
  <2>1. PICK j \in Checkers :
             /\ ListChildren(j) /\ UNCHANGED <<status, run, plan, cutShort>>
             /\ j # Sweep => run[j] \in {"gating", "hooking"}
    BY <1>3
  <2>2. PICK children \in {Created, {}} :
             /\ verdict' = [verdict EXCEPT ![j] = Judgement(children)]
             /\ listed' = [listed EXCEPT ![j] = children]
    BY <2>1 DEF ListChildren
  <2>3. CASE j = k
    BY <1>1, <2>1, <2>2, <2>3 DEF TypeOK
  <2>4. CASE j # k
    BY <1>1, <2>2, <2>4 DEF TypeOK
  <2> QED BY <2>3, <2>4
<1> QED BY <1>1, <1>2, <1>3 DEF TypeOK, Answered

\* A dispatch that waits for its answer is where it asked.
LEMMA WaitsWhereItAsked ==
    ASSUME FinishInv, Next, NEW t \in Family, verdict'[t] # "none"
    PROVE  run'[t] \in {"gating", "hooking"}
<1>1. Base /\ TypeOK /\ Asking
  BY DEF FinishInv, Base
<1>2. t \in Checkers /\ t # Sweep
  BY FamilyFacts
<1>3. CASE UNCHANGED run /\ run[t] \in {"gating", "hooking"}
  BY <1>3
<1>4. CASE verdict'[t] = verdict[t]
  <2>1. run[t] \in {"gating", "hooking"} /\ verdict[t] # "none"
    BY <1>1, <1>4 DEF Asking
  <2>2. ASSUME NEW u \in Family, RunStep(u) PROVE run'[t] = run[t]
    <3>1. CASE u # t
      <4>1. UNCHANGED run \/ \E pc : Continue(u, pc)
        BY <2>2 DEF RunStep, PlanningReturns, Proceed, Return, CreateChild,
                    PlanCreated, WorkReturns, AskForParent, ParentAnswered,
                    WorkFails
      <4> QED BY <1>1, <3>1, <4>1, ContinueElsewhere
    <3>2. CASE u = t
      <4>1. ~ParentAnswered(t)
        BY <1>1, <1>2, <1>4, <2>1 DEF ParentAnswered, Answered, TypeOK
      <4> QED BY <2>1, <2>2, <3>2, <4>1
              DEF RunStep, PlanningReturns, CreateChild, PlanCreated,
                  WorkReturns, AskForParent, WorkFails
    <3> QED BY <3>1, <3>2
  <2>3. ASSUME PollStep PROVE run'[t] = run[t]
    BY <1>1, <2>1, <2>3, PollRun, ContinueElsewhere
  <2>4. ~Restart
    BY <1>2, <1>4, <2>1 DEF Restart
  <2>5. run'[t] = run[t]
    BY <2>2, <2>3, <2>4
       DEF Next, recordResult, updateTicketTerminalState, Cancel, OpenBuildGate
  <2> QED BY <2>1, <2>5
<1> QED BY <1>1, <1>2, <1>3, <1>4, VerdictStep

\* A dispatch of the root enters planning from a launch, which finds no child
\* if nothing was planned, and creation from planning.
LEMMA PlanningBegins ==
    ASSUME FinishInv, Once, Next, ~Planning, Once', Planning'
    PROVE  Calm'
<1>1. Base /\ TypeOK /\ FinishOnce /\ Root \in Family
  BY FamilyFacts DEF FinishInv, Base
<1>2. ASSUME NEW t \in Family, RunStep(t) PROVE FALSE
  <2>1. CASE t = Root
    <3>1. PlanningReturns => run'[Root] = "idle"
      <4>1. plan # 0 => plan' # plan + 1
        BY <1>1 DEF TypeOK, Once
      <4> QED BY <1>1, <4>1, ContinueElsewhere
              DEF PlanningReturns, Return, Planning
    <3>2. ~PlanningReturns /\ ~CreateChild
      BY <3>1 DEF Planning, CreateChild
    <3>3. UNCHANGED plan
      BY <1>2, <2>1, <3>2
         DEF RunStep, PlanCreated, WorkReturns, AskForParent, ParentAnswered,
             WorkFails
    <3>4. UNCHANGED run \/ \E pc \in {"idle", "gating", "hooking"} :
            Continue(Root, pc)
      BY <1>2, <2>1, <3>2
         DEF RunStep, Return, PlanCreated, WorkReturns, AskForParent,
             ParentAnswered, WorkFails
    <3> QED BY <1>1, <3>3, <3>4, ContinueElsewhere DEF Planning
  <2>2. CASE t # Root
    <3>1. UNCHANGED plan
      BY <1>2, <2>2, FamilyFacts, PlanStep
         DEF RunStep, WorkReturns, AskForParent, ParentAnswered, WorkFails
    <3>2. run'[Root] = run[Root]
      <4>1. UNCHANGED run \/ \E pc : Continue(t, pc)
        BY <1>2, <2>2 DEF RunStep, WorkReturns, Return, AskForParent,
                          ParentAnswered, WorkFails
      <4> QED BY <1>1, <2>2, <4>1, ContinueElsewhere
    <3> QED BY <3>1, <3>2 DEF Planning
  <2> QED BY <2>1, <2>2
<1>3. ASSUME PollStep PROVE Calm'
  <2>1. UNCHANGED plan
    BY <1>3 DEF PollStep, PollOnly
  <2>2. PICK t \in Family : Launch(t) /\ run'[Root] # run[Root]
    BY <1>3, <2>1
       DEF PollStep, PollStart, PollDeferred, SweepAnswered,
           sweepStaleParents, CheckStaleParent, PollBatched, PollEnd, Recover,
           Consider, Skip, reconcileChildTicketsFromWorkItems, Planning
  <2>3. t = Root /\ Continue(Root, "planning")
    BY <1>1, <2>2, ContinueElsewhere DEF Launch
  <2>4. run'[Root] = "planning" /\ plan = 0
    BY <1>1, <2>1, <2>3, ContinueElsewhere DEF Planning
  <2>5. Created = {}
    BY <1>1, <2>4 DEF Base
  <2>6. EntryState(Root) = "in_process_discovery"
    BY <2>5 DEF EntryState
  <2>7. /\ status[Root] = EntryState(Root) \/ Allowed(Root, EntryState(Root))
        /\ status' = Written(Root, EntryState(Root))
        /\ qm' = [qm EXCEPT !.active = @ \cup {Root}]
    BY <2>2, <2>3 DEF Launch
  <2>8. status'[Root] = "in_process_discovery"
    BY <1>1, <2>6, <2>7, WrittenMoves
  <2>9. Root \in qm'.active
    BY <1>1, <2>7 DEF TypeOK, Tracking
  <2>10. Created' = {}
    <3>1. ~CreateChild
      BY <1>1, <1>3 DEF PollStep, PollOnly, CreateChild, Base, TypeOK
    <3> QED BY <1>1, <2>5, <3>1, Lasting
  <2>11. verdict'[Sweep] \in {"none", "empty"}
    BY <1>1, <2>2, <2>5, FamilyFacts DEF FinishOnce, Launch
  <2> QED BY <2>8, <2>9, <2>10, <2>11 DEF Calm
<1>4. ASSUME Restart PROVE FALSE
  BY <1>1, <1>4 DEF Restart, Planning
<1> QED BY <1>2, <1>3, <1>4
        DEF Next, recordResult, updateTicketTerminalState, Cancel,
            OpenBuildGate, Planning

LEMMA FinishStep ==
    ASSUME FinishInv, Next, Once'
    PROVE  FinishOnce'
<1>0. Once
  BY OnceStep DEF FinishInv
<1>1. Base /\ TypeOK /\ Asking /\ FinishOnce /\ Base'
  BY <1>0, BaseStep DEF FinishInv, Base
<1>2. /\ Created \subseteq Created'
      /\ \A c \in Created' : c \in Created \/ (CreateChild /\ c = Child(unit))
      /\ \A c \in Children : Done(c) => Done(c)'
      /\ status[Root] = "cancelled" => status'[Root] = "cancelled"
  BY <1>1, Lasting
<1>3. ASSUME status[Root] # "cancelled", CreateChild
      PROVE  /\ status[Root] = "in_process_discovery"
             /\ status'[Root] = status[Root]
             /\ \A k \in Checkers : verdict[k] # "complete"
  <2>1. Calm /\ Planning
    BY <1>1, <1>3 DEF FinishOnce, Planning, CreateChild
  <2>2. status'[Root] = status[Root]
    BY <1>1, <1>3, CreateStep
  <2>3. ASSUME NEW k \in Checkers, verdict[k] = "complete" PROVE FALSE
    <3>1. \A c \in Created : Done(c) /\ status[c] = "approved"
      BY <1>1, <1>3, <2>1, <2>3 DEF FinishOnce, Calm, Fresh
    <3>2. Created = {}
      BY <3>1 DEF Done
    <3> QED BY <1>1, <2>3, <3>2 DEF FinishOnce
  <2> QED BY <2>1, <2>2, <2>3 DEF Calm
\* Every listing that was complete is complete still.
<1>4. ASSUME NEW k \in Checkers, verdict'[k] = "complete"
      PROVE  status'[Root] = "cancelled" \/ \A c \in Created' : Done(c)'
  <2>1. CASE verdict'[k] = verdict[k]
    <3>1. status[Root] = "cancelled" \/ \A c \in Created : Done(c)
      BY <1>1, <1>4, <2>1 DEF FinishOnce
    <3>2. CASE CreateChild
      BY <1>2, <1>3, <1>4, <2>1, <3>2
    <3>3. CASE ~CreateChild
      BY <1>2, <3>1, <3>3 DEF Created
    <3> QED BY <3>2, <3>3
  <2>2. CASE \E children \in {Created, {}} :
               verdict'[k] = Judgement(children) /\ UNCHANGED status
    <3>1. \A c \in Created : Done(c)
      BY <1>1, <1>4, <2>2, JudgementFacts
    <3> QED BY <2>2, <3>1 DEF Created, Done
  <2> QED BY <1>1, <1>4, <2>1, <2>2, VerdictStep
<1>5. Finished(Root)' => \A c \in Created' : Done(c)'
  <2>1. SUFFICES ASSUME status'[Root] \in {"complete", "customer_action"},
                        NEW c \in Created'
                 PROVE  Done(c)'
    BY DEF Finished
  <2>2. CASE status'[Root] \in RootTargets \cup {status[Root]}
    <3>1. status[Root] \in {"complete", "customer_action"}
      BY <2>1, <2>2 DEF RootTargets
    <3>2. ~CreateChild
      BY <1>3, <3>1
    <3>3. c \in Created /\ c \in Children
      BY <1>2, <2>1, <3>2 DEF Created
    <3>4. Done(c)
      BY <1>1, <3>1, <3>3 DEF FinishOnce, Finished
    <3> QED BY <1>2, <3>3, <3>4
  <2>3. CASE \E k \in Checkers :
               /\ verdict[k] # "none" /\ verdict'[k] = "none"
               /\ Allowed(Root, Consequence(k))
               /\ status' = Written(Root, Consequence(k))
    <3>1. PICK k \in Checkers :
               /\ verdict[k] # "none" /\ verdict'[k] = "none"
               /\ Allowed(Root, Consequence(k))
               /\ status' = Written(Root, Consequence(k))
      BY <2>3
    <3>2. status'[Root] = Consequence(k)
      BY <1>1, <3>1, FamilyFacts, WrittenMoves
    <3>3. status[Root] # "cancelled"
      BY <2>1, <3>1, <3>2, TableRows DEF Allowed
    <3>4. \A d \in Children : status'[d] = status[d]
      BY <1>1, <3>1, FamilyFacts, WrittenMoves
    <3>5. c \in Created /\ c \in Children /\ (Done(c) => Done(c)')
      BY <2>1, <3>4 DEF Created, Done
    <3>6. Consequence(k) # status[Root]
      BY <1>1, <3>1, FamilyFacts, TableRows DEF Allowed, Base, TypeOK
    <3>7. verdict[k] = "complete" \/ (k = Root /\ verdict[k] = "empty")
      BY <2>1, <3>2, <3>6 DEF Consequence
    <3>8. CASE verdict[k] = "complete"
      BY <1>1, <3>3, <3>5, <3>8 DEF FinishOnce
    <3>9. CASE k = Root /\ verdict[k] = "empty"
      <4>1. run[Root] = "gating"
        BY <1>1, <3>9, FamilyFacts DEF Asking, Base
      <4> QED BY <1>1, <3>5, <4>1 DEF FinishOnce
    <3> QED BY <3>7, <3>8, <3>9
  <2> QED BY <1>1, <2>2, <2>3, RootStep
<1>6. ASSUME run'[Root] = "gating" PROVE Created' = {}
  <2>1. CASE run[Root] = "gating"
    <3>1. ~CreateChild
      BY <2>1 DEF CreateChild
    <3> QED BY <1>1, <1>2, <2>1, <3>1 DEF FinishOnce
  <2>2. CASE run[Root] # "gating"
    <3>1. RunStep(Root) /\ PlanCreated /\ ~Return(Root)
      <4>1. ~Return(Root)
        BY <1>1, <1>6, FamilyFacts, ContinueElsewhere DEF Return
      <4>2. run'[Root] # run[Root]
        BY <1>6, <2>2
      <4>3. ASSUME NEW t \in Family, NEW pc, Continue(t, pc)
            PROVE  t = Root /\ pc = "gating"
        <5>1. run'[t] = pc /\ \A d \in Family : d # t => run'[d] = run[d]
          BY <1>1, <4>3, ContinueElsewhere
        <5> QED BY <1>6, <4>2, <5>1, FamilyFacts
      <4>4. ~PollStep
        BY <4>2, <4>3, PollRun
      <4>5. ~Restart
        BY <1>6, FamilyFacts DEF Restart
      <4>6. PICK t \in Family : RunStep(t)
        BY <4>2, <4>4, <4>5
           DEF Next, recordResult, updateTicketTerminalState, Cancel,
               OpenBuildGate
      <4>7. t = Root /\ PlanCreated
        BY <4>1, <4>2, <4>3, <4>6, FamilyFacts
           DEF RunStep, PlanningReturns, Proceed, CreateChild, WorkReturns,
               AskForParent, ParentAnswered, WorkFails, Return, PlanCreated
      <4> QED BY <4>1, <4>6, <4>7
    <3>2. ~\E u \in 1 .. Units : Child(u) \in Created
      BY <3>1 DEF PlanCreated
    <3>3. UNCHANGED status /\ plan = 1
      BY <1>0, <1>1, <3>1 DEF PlanCreated, Base, TypeOK, Once
    <3>4. ASSUME NEW c \in Created PROVE FALSE
      <4>1. c \in Nat \ {0} /\ c < Child(unit) /\ Units \in Nat
        BY <1>1, <3>4, FamilyFacts, UnitsAssumption DEF Base, Created
      <4>2. Child(unit) = unit /\ Child(c) = c /\ unit \in 1 .. Units + 1
        BY <1>1, <3>3, <4>1, ChildNumbers DEF TypeOK
      <4>3. c \in 1 .. Units
        BY <4>1, <4>2
      <4> QED BY <3>2, <3>4, <4>2, <4>3
    <3> QED BY <3>3, <3>4 DEF Created
  <2> QED BY <2>1, <2>2
<1>7. ASSUME Created' = {}, NEW k \in Checkers
      PROVE  verdict'[k] \in {"none", "empty"}
  <2>1. Created = {}
    BY <1>2, <1>7
  <2> QED BY <1>1, <2>1, JudgementFacts, VerdictStep DEF FinishOnce
<1>8. ASSUME Planning' PROVE status'[Root] = "cancelled" \/ Calm'
  <2>1. CASE Planning
    BY <1>0, <1>1, <1>2, <1>8, <2>1, CalmStep DEF FinishOnce
  <2>2. CASE ~Planning
    BY <1>0, <1>8, <2>2, PlanningBegins
  <2> QED BY <2>1, <2>2
<1> QED BY <1>4, <1>5, <1>6, <1>7, <1>8 DEF FinishOnce

\* Assembly closes the root last: the gate of its dispatch, the children's
\* hooks and the sweep never leave it closed above an open child, whatever
\* happens between the listing and the write, for any number of units, failures
\* and restarts, whatever the workers report and the listings answer, as long
\* as it is planned once and no child is cancelled while others are being
\* created.
THEOREM ParentLast == Spec => []ParentFinishesLast
<1>1. Init => FinishInv
  <2>1. ASSUME Init PROVE Asking /\ FinishOnce
    <3>1. /\ Created = {} /\ status[Root] = "approved"
          /\ \A t \in Family : run[t] = "idle"
          /\ \A k \in Checkers : verdict[k] = "none"
      BY <2>1, FamilyFacts DEF Init, Created
    <3> QED BY <3>1, FamilyFacts
            DEF FinishOnce, Asking, Finished, Planning
  <2> QED BY <2>1, BaseInit DEF FinishInv
<1>2. FinishInv /\ [Next]_vars => FinishInv'
  <2>1. ASSUME FinishInv, UNCHANGED vars PROVE Asking' /\ (Once => FinishOnce)'
    BY <2>1 DEF FinishInv, FinishOnce, Asking, Once, Finished, Planning, Calm,
                Fresh, Created, Done, vars
  <2>2. FinishInv /\ [Next]_vars => Base'
    BY BaseStep DEF FinishInv
  <2>3. ASSUME FinishInv, Next PROVE Asking'
    BY <2>3, WaitsWhereItAsked DEF Asking
  <2> QED BY <2>1, <2>2, <2>3, FinishStep DEF FinishInv
<1>3. FinishInv => ParentFinishesLast
  <2>1. SUFFICES ASSUME FinishInv, Finished(Root), ~(plan > 1), ~cutShort,
                        NEW c \in Created
                 PROVE  status[c] \in COMPLETED_STATES
    BY DEF ParentFinishesLast, AllDone
  <2>2. Once
    BY <2>1 DEF Once, FinishInv, Base, TypeOK
  <2> QED BY <2>1, <2>2 DEF FinishInv, FinishOnce, Done, COMPLETED_STATES
<1> QED BY <1>1, <1>2, <1>3, PTL DEF Spec

(***************************************************************************)
(* What the root is closed on.                                             *)
(***************************************************************************)
Listed ==
    \A k \in Checkers :
        /\ verdict[k] = "complete" =>
             \A c \in listed[k] : c \in Children /\ Done(c)
        /\ verdict[k] = "empty" => listed[k] = {}

ListedInv == Base /\ Listed

LEMMA ListedStep ==
    ASSUME ListedInv, [Next]_vars
    PROVE  ListedInv'
<1>1. Base /\ Base'
  BY BaseStep DEF ListedInv
<1>2. CASE UNCHANGED vars
  BY <1>1, <1>2 DEF ListedInv, Listed, Done, vars
<1>3. CASE Next
  <2>1. ASSUME NEW k \in Checkers
        PROVE  /\ verdict'[k] = "complete" =>
                    \A c \in listed'[k] : c \in Children /\ Done(c)'
               /\ verdict'[k] = "empty" => listed'[k] = {}
    <3>1. CASE verdict'[k] = verdict[k] /\ listed'[k] = listed[k]
      BY <1>1, <1>3, <3>1, Lasting DEF ListedInv, Listed
    <3>2. CASE verdict'[k] = "none"
      BY <3>2
    <3>3. CASE \E children \in {Created, {}} :
                 /\ verdict'[k] = Judgement(children) /\ listed'[k] = children
                 /\ UNCHANGED status
      <4>1. PICK children \in {Created, {}} :
                 /\ verdict'[k] = Judgement(children) /\ listed'[k] = children
                 /\ UNCHANGED status
        BY <3>3
      <4> QED BY <1>1, <4>1, JudgementFacts DEF Created, Done
    <3> QED BY <1>1, <1>3, <3>1, <3>2, <3>3, VerdictStep
  <2> QED BY <1>1, <2>1 DEF ListedInv, Listed
<1> QED BY <1>2, <1>3

\* Whatever is planned again, cancelled or not listed, the root is closed only
\* in answer to a listing of which every child is done, and done still when the
\* write is made.
THEOREM ClosedOnDone == Spec => ClosedOnDoneChildren
<1>1. Init => ListedInv
  <2>1. ASSUME Init PROVE Listed
    BY <2>1 DEF Init, Listed
  <2> QED BY <2>1, BaseInit DEF ListedInv
<1>2. ListedInv /\ [Next]_vars => ListedInv'
  BY ListedStep
<1>3. ASSUME ListedInv, Next, Finished(Root)', ~Finished(Root)
      PROVE  \E k \in Checkers : /\ verdict[k] # "none"
                                 /\ verdict'[k] = "none"
                                 /\ AllDone(listed[k])
  <2>1. Base /\ TypeOK /\ Listed
    BY <1>3 DEF ListedInv, Base
  <2>2. status'[Root] \notin RootTargets \cup {status[Root]}
    BY <1>3 DEF Finished, RootTargets
  <2>3. PICK k \in Checkers :
          /\ verdict[k] # "none" /\ verdict'[k] = "none"
          /\ Allowed(Root, Consequence(k))
          /\ status' = Written(Root, Consequence(k))
    BY <1>3, <2>1, <2>2, RootStep
  <2>4. status'[Root] = Consequence(k)
    BY <2>1, <2>3, FamilyFacts, WrittenMoves
  <2>5. Consequence(k) \in {"complete", "customer_action"}
    BY <1>3, <2>4 DEF Finished
  <2>6. Consequence(k) # status[Root]
    BY <1>3, <2>5 DEF Finished
  <2>7. verdict[k] \in {"complete", "empty"}
    BY <2>5, <2>6 DEF Consequence
  <2>8. AllDone(listed[k])
    BY <2>1, <2>7 DEF Listed, AllDone, Done, COMPLETED_STATES
  <2> QED BY <2>3, <2>8
<1>4. ListedInv /\ [Next]_vars =>
        [Finished(Root)' /\ ~Finished(Root) =>
           \E k \in Checkers : /\ verdict[k] # "none"
                               /\ verdict'[k] = "none"
                               /\ AllDone(listed[k])]_vars
  BY <1>3
<1> QED BY <1>1, <1>2, <1>4, PTL DEF Spec, ClosedOnDoneChildren
=============================================================================
