--------------------------- MODULE ParentAssembly ---------------------------
(***************************************************************************)
(* A root ticket, the child tickets its planning creates, and the five     *)
(* parts of the system that look at both: the parent gate and the sibling  *)
(* order of the poll cycle, the completion gate and the child hook of      *)
(* dispatchTicket, the work-item reconciliation with the stale-parent      *)
(* sweep, the deferred sweep, and ParentAssemblyService they all ask.      *)
(*                                                                         *)
(* QueueManager has the claims, slots and breaker of one ticket in detail; *)
(* here a claim and a write are one step, a failed pipeline is retried     *)
(* FailureBound times, and a ticket is dispatched again only after its     *)
(* former dispatch has returned.  What stays apart is the listing of the   *)
(* children and the write that follows from it.                            *)
(***************************************************************************)
EXTENDS Naturals, FiniteSets, TicketStates

CONSTANTS
    Units,        \* work units the planner returns, in planning order
    Plans,        \* bound of the model on the times it returns them
    Stalls,       \* whether a worker's success may report a stalled provider
    ListingFails, \* whether listing a ticket's children may fail
    Cancellable,  \* tickets operators may cancel
    FailureBound, \* bound of the model on pipelines that are retried
    RestartBound  \* bound of the model on process restarts

Root == 0
Children == 1 .. Units * Plans
Family == {Root} \cup Children

\* The planning order in a child's metadata.
subtaskIndex(c) == ((c - 1) % Units) + 1

\* Who can be waiting for ParentAssemblyService: the dispatches (the root's
\* completion gate, a child's hook) and the sweeps of the poll cycle.
Sweep == Units * Plans + 1
Checkers == Family \cup {Sweep}

ASSUME UnitsAssumption == Units \in Nat \ {0} /\ Plans \in Nat \ {0}
ASSUME FaultsAssumption == Stalls \in BOOLEAN /\ ListingFails \in BOOLEAN
ASSUME CancellableAssumption == Cancellable \subseteq Family
ASSUME BoundsAssumption == FailureBound \in Nat /\ RestartBound \in Nat

VARIABLES
    status,     \* tickets.status; a child not created yet is "absent"
    item,       \* what the work items of a child add up to
    tells,      \* the ticket status a worker has still to write after them
    run,        \* where the ticket's dispatchTicket is
    verdict,    \* what a checker made of the listing it waits to act on
    listed,     \* the children in that listing
    plan,       \* the latest plan that was returned
    unit,       \* the next unit of it to create a child for
    qm,         \* the queue manager's in-memory tracking
    poll,       \* the poll cycle
    failures,
    restarts,
    cutShort    \* history: a child was cancelled before all were created

vars == <<status, item, tells, run, verdict, listed, plan, unit, qm, poll,
          failures, restarts, cutShort>>

Absent == "absent"

WorkItems == {"none", "active", "completed", "failed"}

Run == {"idle", "planning", "creating", "working", "gating", "hooking"}

Verdict == {"none", "empty", "escalated", "paused", "pending", "progress",
            "complete"}

Tracking == [active : SUBSET Family, aborted : SUBSET Family,
             recovered : SUBSET Family]

NoTracking == [active |-> {}, aborted |-> {}, recovered |-> {}]

Cycle == [pc : {"idle", "deferred", "recovering", "reconciling", "checking",
                "gating", "launching"},
          offspring : {"none", "running", "terminal"},
          candidates : SUBSET Family, todo : SUBSET Family,
          batch : SUBSET Family]

NoCycle == [pc |-> "idle", offspring |-> "none", candidates |-> {},
            todo |-> {}, batch |-> {}]

TypeOK ==
    /\ status \in [Family -> OshalTicketState \cup {Absent}]
    /\ item \in [Children -> WorkItems]
    /\ tells \in [Children -> {"none", "complete", "escalated"}]
    /\ run \in [Family -> Run]
    /\ verdict \in [Checkers -> Verdict]
    /\ listed \in [Checkers -> SUBSET Children]
    /\ plan \in 0 .. Plans
    /\ unit \in 1 .. Units + 1
    /\ qm \in Tracking
    /\ poll \in Cycle
    /\ failures \in 0 .. FailureBound
    /\ restarts \in 0 .. RestartBound
    /\ cutShort \in BOOLEAN

Init ==
    /\ status = [t \in Family |-> IF t = Root THEN "approved" ELSE Absent]
    /\ item = [c \in Children |-> "none"]
    /\ tells = [c \in Children |-> "none"]
    /\ run = [t \in Family |-> "idle"]
    /\ verdict = [k \in Checkers |-> "none"]
    /\ listed = [k \in Checkers |-> {}]
    /\ plan = 0
    /\ unit = 1
    /\ qm = NoTracking
    /\ poll = NoCycle
    /\ failures = 0
    /\ restarts = 0
    /\ cutShort = FALSE

(***************************************************************************)
(* Status writes, and the listener that aborts a running dispatch.         *)
(***************************************************************************)
Created == {c \in Children : status[c] # Absent}

Allowed(t, to) == to \in VALID_TRANSITIONS[status[t]]

Observed(q, t, to) ==
    IF to \in {"escalated", "cancelled"} /\ t \in q.active
      THEN [q EXCEPT !.active = @ \ {t}, !.aborted = @ \cup {t}]
    ELSE IF status[t] = "dead_letter" /\ to = "approved"
      THEN [q EXCEPT !.recovered = @ \ {t}, !.aborted = @ \ {t}]
    ELSE q

\* The status after a write whose refusal by the table is only logged, and the
\* tracking its listener leaves.
Written(t, to) ==
    IF Allowed(t, to) THEN [status EXCEPT ![t] = to] ELSE status

Tracked(t, to) == IF Allowed(t, to) THEN Observed(qm, t, to) ELSE qm

TryMove(t, to) ==
    /\ status' = Written(t, to)
    /\ qm' = Tracked(t, to)

(***************************************************************************)
(* ParentAssemblyService.checkAndAssemble: list the children, then write   *)
(* the parent.  A listing that fails is one without children.              *)
(***************************************************************************)
COMPLETED_STATES == {"complete", "customer_action", "cancelled"}
ESCALATED_STATES == {"escalated", "dead_letter"}

\* Mutant of Judgement: a child that is done speaks for its siblings.
JudgementOfSome(children) ==
    LET in(states) == {c \in children : status[c] \in states}
    IN IF children = {} THEN "empty"
       ELSE IF in(ESCALATED_STATES) # {} THEN "escalated"
       ELSE IF in({"paused"}) # {} THEN "paused"
       ELSE IF in(COMPLETED_STATES) # {} THEN "complete"
       ELSE "pending"

Judgement(children) ==
    LET in(states) == {c \in children : status[c] \in states}
    IN IF children = {} THEN "empty"
       ELSE IF in(ESCALATED_STATES) # {} THEN "escalated"
       ELSE IF in({"paused"}) # {} THEN "paused"
       ELSE IF in(COMPLETED_STATES) = children THEN "complete"
       ELSE IF in(COMPLETED_STATES) # {} THEN "progress"
       ELSE "pending"

ListChildren(k) ==
    \E children \in {Created} \cup IF ListingFails THEN {{}} ELSE {} :
        /\ verdict' = [verdict EXCEPT ![k] = Judgement(children)]
        /\ listed' = [listed EXCEPT ![k] = children]

Answered(k) ==
    /\ verdict' = [verdict EXCEPT ![k] = "none"]
    /\ listed' = [listed EXCEPT ![k] = {}]

\* assembleParent, propagateEscalation, and what the completion gate
\* (shouldDeferCompletionToChildren) and the stale-parent sweep write when
\* neither applies; the parent's own status when there is nothing to write.
Consequence(k) ==
    LET v == verdict[k]
    IN IF v = "complete" THEN "customer_action"
       ELSE IF v = "escalated" THEN "escalated"
       ELSE IF k = Root /\ v = "empty" THEN "complete"
       ELSE IF k = Root /\ v \in {"progress", "pending"}
              THEN "in_process_build"
       ELSE IF k = Sweep /\ poll.pc = "checking" /\ v = "progress"
              THEN "in_process_build"
       ELSE status[Root]

(***************************************************************************)
(* dispatchTicket.                                                         *)
(***************************************************************************)
Released(q, t) == [q EXCEPT !.active = @ \ {t}, !.aborted = @ \ {t}]

Continue(t, pc) == run' = [run EXCEPT ![t] = pc]

Return(t) == Continue(t, "idle")

\* An abort check, then the next step.
Proceed(t, pc) ==
    IF t \in qm.aborted
      THEN Return(t) /\ qm' = Released(qm, t)
      ELSE Continue(t, pc) /\ UNCHANGED qm

\* Planning returns units or none at all.  That the root has children already
\* changes its entry state, not its pipeline.
PlanningReturns ==
    /\ run[Root] = "planning"
    /\ \/ /\ plan < Plans
          /\ Proceed(Root, "creating")
          /\ plan' = plan + 1
          /\ unit' = 1
          /\ UNCHANGED status
       \/ /\ Root \notin qm.aborted
          /\ Allowed(Root, "escalated")
          /\ status' = Written(Root, "escalated")
          /\ qm' = Released(Tracked(Root, "escalated"), Root)
          /\ Return(Root)
          /\ UNCHANGED <<plan, unit>>
    /\ UNCHANGED <<item, verdict, listed, failures>>

Child(u) == (plan - 1) * Units + u

\* Mutant of CreateChild: the loop runs one unit past the end of the plan.
CreateChildPastPlan ==
    /\ run[Root] = "creating"
    /\ unit' = unit + 1
    /\ status' = [c \in Family |->
                    IF c = Child(unit) THEN "approved" ELSE status[c]]
    /\ UNCHANGED <<item, run, verdict, listed, plan, qm, failures>>

\* createChildTicketsFromPlanningOutput: a unit whose ticket cannot be created
\* is logged and the loop goes on.
CreateChild ==
    /\ run[Root] = "creating"
    /\ unit <= Units
    /\ unit' = unit + 1
    /\ \/ status' = [status EXCEPT ![Child(unit)] = "approved"]
       \/ UNCHANGED status
    /\ UNCHANGED <<item, run, verdict, listed, plan, qm, failures>>

\* The root is parked, unless no ticket could be created at all.
PlanCreated ==
    /\ run[Root] = "creating"
    /\ unit = Units + 1
    /\ IF \E u \in 1 .. Units : Child(u) \in Created
         THEN /\ status' = Written(Root, "approval_required")
              /\ qm' = Released(qm, Root)
              /\ Return(Root)
         ELSE /\ Continue(Root, "gating")
              /\ UNCHANGED <<status, qm>>
    /\ UNCHANGED <<item, verdict, listed, plan, unit, failures>>

\* A child's own completion gate finds no children: it is complete, and its
\* work items with it; its hook asks for the parent.
WorkReturns(c) ==
    /\ run[c] = "working"
    /\ \/ /\ c \in qm.aborted
          /\ qm' = Released(qm, c)
          /\ Return(c)
          /\ UNCHANGED <<status, item>>
       \/ /\ c \notin qm.aborted
          /\ status[c] = "complete" \/ Allowed(c, "complete")
          /\ TryMove(c, "complete")
          /\ item' = [item EXCEPT ![c] =
                        IF @ = "active" THEN "completed" ELSE @]
          /\ Continue(c, "hooking")
    /\ UNCHANGED <<verdict, listed, plan, unit, failures>>

AskForParent(t) ==
    /\ run[t] \in {"gating", "hooking"}
    /\ verdict[t] = "none"
    /\ ListChildren(t)
    /\ UNCHANGED <<status, item, run, plan, unit, qm, failures>>

ParentAnswered(t) ==
    /\ verdict[t] # "none"
    /\ Answered(t)
    /\ status' = Written(Root, Consequence(t))
    /\ qm' = Released(Tracked(Root, Consequence(t)), t)
    /\ Return(t)
    /\ UNCHANGED <<item, plan, unit, failures>>

\* The pipeline throws.  A root with children is left where it is, any other
\* ticket is rolled back; for good, it is escalated or quarantined.
WorkFails(t) ==
    /\ run[t] \in {"planning", "working"}
    /\ \/ \E to \in Fail : status' = Written(t, to)
                             /\ qm' = Released(Tracked(t, to), t)
                             /\ UNCHANGED failures
       \/ /\ t = Root /\ Created # {}
          /\ qm' = Released(qm, t)
          /\ UNCHANGED <<status, failures>>
       \/ /\ t = Root => Created = {}
          /\ failures < FailureBound
          /\ failures' = failures + 1
          /\ status' = Written(t, "approved")
          /\ qm' = Released(Tracked(t, "approved"), t)
    /\ Return(t)
    /\ UNCHANGED <<item, verdict, listed, plan, unit>>

RunStep(t) ==
    /\ \/ /\ t = Root
          /\ PlanningReturns \/ CreateChild \/ PlanCreated
       \/ t # Root /\ WorkReturns(t)
       \/ AskForParent(t) \/ ParentAnswered(t) \/ WorkFails(t)
    /\ UNCHANGED <<tells, poll, restarts, cutShort>>

(***************************************************************************)
(* The poll cycle.  Candidates are listed first, the deferred and the      *)
(* stale-parent sweep run, and then the gate looks at each candidate.      *)
(***************************************************************************)
PollOnly == UNCHANGED <<tells, plan, unit, failures, restarts, cutShort>>

PollStart ==
    /\ poll.pc = "idle"
    /\ poll' = [NoCycle EXCEPT !.pc = "deferred", !.candidates =
                  {t \in Family \ qm.active : status[t] = "approved"}]
    /\ UNCHANGED <<status, item, run, verdict, listed, qm>>

\* sweepDeferredTickets lists what was last changed before the grace period
\* (any may be), and every ticket to see which parents have children.
DispatchStates == {"in_process_discovery", "in_process_design",
                   "in_process_build"}

PollDeferred ==
    /\ poll.pc = "deferred"
    /\ \E stale \in SUBSET {t \in Family : status[t] \in DispatchStates} :
         poll' = [poll EXCEPT !.pc = "recovering", !.todo = stale,
                    !.offspring =
                      IF Created = {} THEN "none"
                      ELSE IF \A c \in Created : status[c] \in
                                Fail \cup {"complete", "cancelled"}
                        THEN "terminal"
                      ELSE "running"]
    /\ UNCHANGED <<status, item, run, verdict, listed, qm>>

\* A ticket is recovered once, or escalated when its attempts are used up; a
\* write that is refused ends the sweep.
Recover(t) ==
    /\ poll.pc = "recovering"
    /\ t \in poll.todo
    /\ verdict[Sweep] = "none"
    /\ \/ /\ \/ t \in qm.active
             \/ t = Root /\ poll.offspring = "running"
             \/ t \in qm.recovered /\ (t = Root => poll.offspring = "none")
          /\ poll' = [poll EXCEPT !.todo = @ \ {t}]
          /\ UNCHANGED <<status, verdict, listed, qm>>
       \/ /\ t = Root /\ t \notin qm.active /\ poll.offspring = "terminal"
          /\ ListChildren(Sweep)
          /\ poll' = [poll EXCEPT !.todo = @ \ {t}]
          /\ UNCHANGED <<status, qm>>
       \/ /\ t \notin qm.active \cup qm.recovered
          /\ t = Root => poll.offspring = "none"
          /\ \E to \in {"approved", "escalated"} :
               /\ status' = Written(t, to)
               /\ qm' = IF to = "approved"
                          THEN [Tracked(t, to) EXCEPT !.recovered = @ \cup {t}]
                          ELSE Tracked(t, to)
               /\ poll' = [poll EXCEPT !.todo =
                             IF Allowed(t, to) THEN @ \ {t} ELSE {}]
          /\ UNCHANGED <<verdict, listed>>
    /\ UNCHANGED <<item, run>>

SweepAnswered ==
    /\ verdict[Sweep] # "none"
    /\ Answered(Sweep)
    /\ TryMove(Root, Consequence(Sweep))
    /\ poll' = IF poll.pc = "checking" THEN [poll EXCEPT !.pc = "gating"]
                                       ELSE poll
    /\ UNCHANGED <<item, run>>

\* Mutant of SweptStates: the states before "BUG-FIX Session 35".
SweptStatesBefore35 == DispatchStates

\* The states sweepStaleParents looks for parents in.
SweptStates == DispatchStates \cup {"approval_required"}

WORK_ITEM_RECONCILABLE_CHILD_STATES ==
    {"approved", "in_process_discovery", "in_process_design",
     "in_process_build", "in_process_deploy", "in_process_test",
     "in_process_release", "customer_action"}

sweepStaleParents ==
    /\ poll.pc = "recovering"
    /\ poll.todo = {}
    /\ verdict[Sweep] = "none"
    /\ poll' = IF status[Root] \in SweptStates
                 THEN [poll EXCEPT !.pc = "reconciling", !.todo =
                         {c \in Created :
                            status[c] \in WORK_ITEM_RECONCILABLE_CHILD_STATES}]
                 ELSE [poll EXCEPT !.pc = "gating"]
    /\ UNCHANGED <<status, item, run, verdict, listed, qm>>

reconcileChildTicketsFromWorkItems(c) ==
    /\ poll.pc = "reconciling"
    /\ c \in poll.todo
    /\ poll' = [poll EXCEPT !.todo = @ \ {c}]
    /\ TryMove(c, IF item[c] = "failed" THEN "escalated"
                  ELSE IF item[c] = "completed" THEN "complete"
                  ELSE status[c])
    /\ UNCHANGED <<item, run, verdict, listed>>

CheckStaleParent ==
    /\ poll.pc = "reconciling"
    /\ poll.todo = {}
    /\ poll' = [poll EXCEPT !.pc = "checking"]
    /\ ListChildren(Sweep)
    /\ UNCHANGED <<status, item, run, qm>>

PARENT_READY_FOR_CHILD_DISPATCH_STATES ==
    {"in_process_build", "in_process_deploy", "in_process_test",
     "in_process_release", "customer_action", "complete",
     "approval_required", "approved"}

\* Mutant of isHeldBehindEarlierSibling: only the sibling's status counts.
HeldByStatusOnly(c) ==
    \E earlier \in Created :
        /\ subtaskIndex(earlier) < subtaskIndex(c)
        /\ status[earlier] \notin COMPLETED_STATES

isHeldBehindEarlierSibling(c) ==
    \E earlier \in Created :
        /\ subtaskIndex(earlier) < subtaskIndex(c)
        /\ status[earlier] \notin COMPLETED_STATES \/ earlier \in qm.active

\* Mutant of terminalChildStatusForParentState: dead letters, added later, take
\* the place of escalations.
terminalForDeadLetterOnly(parent) ==
    IF parent = "dead_letter" THEN "escalated"
    ELSE IF parent = "cancelled" THEN "cancelled"
    ELSE Absent

terminalChildStatusForParentState(parent) ==
    IF parent \in Fail THEN "escalated"
    ELSE IF parent = "cancelled" THEN "cancelled"
    ELSE Absent

\* isDispatchBlockedByParentState, after the candidate's status is read again.
Consider(t) ==
    LET ready == status[Root] \in PARENT_READY_FOR_CHILD_DISPATCH_STATES
        park == terminalChildStatusForParentState(status[Root])
        released == t = Root \/ (ready /\ ~isHeldBehindEarlierSibling(t))
    IN /\ poll.pc = "gating"
       /\ t \in poll.candidates
       /\ poll' = [poll EXCEPT !.candidates = @ \ {t},
                     !.batch = IF status[t] = "approved" /\ released
                                 THEN @ \cup {t} ELSE @]
       /\ IF t # Root /\ status[t] = "approved" /\ park # Absent
            THEN TryMove(t, park)
            ELSE UNCHANGED <<status, qm>>
       /\ UNCHANGED <<item, run, verdict, listed>>

PollBatched ==
    /\ poll.pc = "gating"
    /\ poll.candidates = {}
    /\ poll' = [poll EXCEPT !.pc = "launching"]
    /\ UNCHANGED <<status, item, run, verdict, listed, qm>>

\* "If this root ticket was already planned and has children, skip
\* re-planning."
EntryState(t) ==
    IF t # Root \/ Created # {} THEN "in_process_build"
                                ELSE "in_process_discovery"

\* dispatchTicket up to its pipeline, or to the rollback after a claim the
\* table refuses.  A child that is retried keeps the work items it has.
Launch(t) ==
    /\ poll.pc = "launching"
    /\ t \in poll.batch
    /\ run[t] = "idle"
    /\ poll' = [poll EXCEPT !.batch = @ \ {t}]
    /\ IF status[t] = EntryState(t) \/ Allowed(t, EntryState(t))
         THEN /\ status' = Written(t, EntryState(t))
              /\ qm' = [qm EXCEPT !.active = @ \cup {t}]
              /\ Continue(t, IF t = Root THEN "planning" ELSE "working")
              /\ item' = [c \in Children |->
                           IF c = t /\ item[c] = "none" THEN "active"
                                                       ELSE item[c]]
         ELSE /\ TryMove(t, "approved")
              /\ UNCHANGED <<run, item>>
    /\ UNCHANGED <<verdict, listed>>

\* Budget governance blocks the ticket in this cycle, or its former dispatch
\* has not returned.
Skip(t) ==
    /\ poll.pc = "launching"
    /\ t \in poll.batch
    /\ poll' = [poll EXCEPT !.batch = @ \ {t}]
    /\ UNCHANGED <<status, item, run, verdict, listed, qm>>

PollEnd ==
    /\ poll.pc = "launching"
    /\ poll.batch = {}
    /\ poll' = NoCycle
    /\ UNCHANGED <<status, item, run, verdict, listed, qm>>

PollStep ==
    /\ \/ PollStart \/ PollDeferred \/ SweepAnswered \/ sweepStaleParents
       \/ CheckStaleParent \/ PollBatched \/ PollEnd
       \/ \E t \in Family : Recover(t) \/ Consider(t) \/ Launch(t) \/ Skip(t)
       \/ \E c \in Children : reconcileChildTicketsFromWorkItems(c)
    /\ PollOnly

(***************************************************************************)
(* Bots and operators, and a process that dies and starts again.           *)
(***************************************************************************)
\* A worker persists the result of a child's work items, whether or not the
\* dispatch that asked for it still waits, and then moves the ticket itself: a
\* success whose text reports a stalled provider escalates, too.
recordResult(c) ==
    /\ item[c] = "active"
    /\ \E result \in {"completed", "failed"},
          to \in {"complete", "escalated"} :
         /\ IF to = "escalated" THEN result = "failed" \/ Stalls
                                 ELSE result = "completed"
         /\ item' = [item EXCEPT ![c] = result]
         /\ tells' = [tells EXCEPT ![c] = to]
    /\ UNCHANGED <<status, run, verdict, listed, plan, unit, qm, poll,
                   failures, restarts, cutShort>>

\* The queue manager's listener hears of it when the worker is in its process.
\* A write that fails is only logged.
updateTicketTerminalState(c) ==
    /\ tells[c] # "none"
    /\ tells' = [tells EXCEPT ![c] = "none"]
    /\ \/ UNCHANGED <<status, qm>>
       \/ /\ status' = Written(c, tells[c])
          /\ qm' \in {qm, Tracked(c, tells[c])}
    /\ UNCHANGED <<item, run, verdict, listed, plan, unit, poll, failures,
                   restarts, cutShort>>

\* The build gate: an operator approves a planned root.
OpenBuildGate ==
    /\ status[Root] = "approval_required"
    /\ \E to \in {"approved", "in_process_build"} : TryMove(Root, to)
    /\ UNCHANGED <<item, tells, run, verdict, listed, plan, unit, poll,
                   failures, restarts, cutShort>>

Cancel(t) ==
    /\ t \in Cancellable
    /\ status[t] # Absent
    /\ Allowed(t, "cancelled")
    /\ TryMove(t, "cancelled")
    /\ cutShort' = (cutShort \/ (t # Root /\ run[Root] = "creating"))
    /\ UNCHANGED <<item, tells, run, verdict, listed, plan, unit, poll,
                   failures, restarts>>

\* The process dies and starts again; recoverOrphanedTickets then rolls a root
\* that was being planned back to approved.  How that races with the first
\* poll is QueueManager's.
Restart ==
    /\ restarts < RestartBound
    /\ restarts' = restarts + 1
    /\ status' = IF status[Root] \in {"in_process_discovery",
                                      "in_process_design"}
                   THEN Written(Root, "approved") ELSE status
    /\ run' = [t \in Family |-> "idle"]
    /\ verdict' = [k \in Checkers |-> "none"]
    /\ listed' = [k \in Checkers |-> {}]
    /\ qm' = NoTracking
    /\ poll' = NoCycle
    /\ UNCHANGED <<item, tells, plan, unit, failures, cutShort>>

Next ==
    \/ \E t \in Family : RunStep(t)
    \/ PollStep
    \/ \E c \in Children : recordResult(c) \/ updateTicketTerminalState(c)
    \/ \E t \in Family : Cancel(t)
    \/ OpenBuildGate \/ Restart

Spec == Init /\ [][Next]_vars

(***************************************************************************)
(* Pipelines end, queries and writes are answered, the poll timer ticks,   *)
(* and neither the budget nor the grace period holds a ticket back for     *)
(* ever.  Operators, workers and the planner owe nothing.  (Listings that  *)
(* fail for ever, ListingFails, would leave a root where it is.)           *)
(***************************************************************************)
Fairness ==
    /\ \A t \in Family :
         /\ WF_vars(RunStep(t))
         /\ SF_vars(Launch(t) /\ PollOnly)
    /\ SF_vars(PollDeferred /\ Root \in poll'.todo /\ PollOnly)
    /\ WF_vars(PollStep)

FairSpec == Spec /\ Fairness
-----------------------------------------------------------------------------
(***************************************************************************)
(* Properties.                                                             *)
(***************************************************************************)

Running(t) == run[t] # "idle"

Precedes(c, d) == c < d /\ subtaskIndex(c) < subtaskIndex(d)

\* "Siblings share their root's folder ..., so they run one at a time in
\* planning order": a child is not dispatched while the dispatch of one planned
\* before it is running, from its claim to the end of its hook, also when
\* reconciliation completes that one behind its dispatch's back.  The exception
\* is a dispatch that lost its slot to the ticket's cancellation, or to an
\* escalation before its completion: the gate does not see that it still runs.
SiblingsRunOneAtATime ==
    \A c, d \in Children :
        Precedes(c, d) /\ Running(c) /\ Running(d) =>
            /\ c \in qm.aborted
            /\ status[c] \in {"cancelled", "complete"}

Finished(t) == status[t] \in {"complete", "customer_action"}

AllDone(children) == \A c \in children : status[c] \in COMPLETED_STATES

\* Assembly closes the root last, whoever asks for it and whatever happens to
\* the children between the listing and the write.  The exceptions are a root
\* that is planned again, and children of which one was cancelled while others
\* were still to be created, in which case those that exist may all be done.
ParentFinishesLast ==
    Finished(Root) => AllDone(Created) \/ plan > 1 \/ cutShort

\* Without exceptions: the root is closed in answer to a listing all of whose
\* children are done, and still are when the write is made.
ClosedOnDoneChildren ==
    [][Finished(Root)' /\ ~Finished(Root) =>
         \E k \in Checkers : /\ verdict[k] # "none"
                             /\ verdict'[k] = "none"
                             /\ AllDone(listed[k])]_vars

\* "A ticket with >=1 non-terminal child NEVER reaches a terminal state from
\* its own pipeline result": for a root, 'complete' is what only its own
\* dispatch writes.
NeverCompleteOverOpenChildren ==
    [][status'[Root] = "complete" /\ status[Root] # "complete" =>
         \A c \in Created : status[c] \in COMPLETED_STATES \cup Fail]_vars

Settled == {"complete", "customer_action", "escalated", "dead_letter",
            "cancelled"}

\* A planned root does not need its operator: once its children are through,
\* whatever became of them, the sweeps move it on.
PlannedRootsSettle ==
    status[Root] = "approval_required" ~> status[Root] \in Settled

\* A child that waits for its turn when its root is escalated does not wait for
\* ever: it is parked, or the root comes back.
WaitingChildrenAreParked ==
    \A c \in Children :
        status[Root] = "escalated" /\ status[c] = "approved"
            ~> status[Root] # "escalated" \/ status[c] # "approved"
=============================================================================
