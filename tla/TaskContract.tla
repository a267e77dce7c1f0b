---------------------------- MODULE TaskContract ----------------------------
(***************************************************************************)
(* What the remote-task journal promises to those who give a device work:  *)
(* a task is handed out once, to one task at a time, on behalf of the      *)
(* owner the device has while the task is open; it runs at most once; and  *)
(* the first result is the only one.  RemoteTasks, with its API process    *)
(* that restarts, its device that crashes and its lost answers, implements *)
(* this contract.                                                          *)
(***************************************************************************)
EXTENDS Naturals

CONSTANTS
    Tasks,      \* task ids
    Owners,     \* OIDC subjects, and the operator-only binding
    None

VARIABLES
    phase,      \* absent, waiting, handed or closed, of each task
    for,        \* the owner each accepted task acts for
    holder,     \* the owner the device is bound to
    runs,       \* how often the device ran each task
    verdict     \* the result of each closed task

contractVars == <<phase, for, holder, runs, verdict>>

Results == {"completed", "failed"}

Open(t) == phase[t] \in {"waiting", "handed"}

Init ==
    /\ phase = [t \in Tasks |-> "absent"]
    /\ for = [t \in Tasks |-> None]
    /\ holder = None
    /\ runs = [t \in Tasks |-> 0]
    /\ verdict = [t \in Tasks |-> None]

\* The device gets an owner, or another one while it has no open task.
Bind(o) ==
    /\ \A t \in Tasks : ~Open(t)
    /\ holder' = o
    /\ UNCHANGED <<phase, for, runs, verdict>>

Accept(t) ==
    /\ phase[t] = "absent"
    /\ holder # None
    /\ phase' = [phase EXCEPT ![t] = "waiting"]
    /\ for' = [for EXCEPT ![t] = holder]
    /\ UNCHANGED <<holder, runs, verdict>>

Hand(t) ==
    /\ phase[t] = "waiting"
    /\ for[t] = holder
    /\ \A x \in Tasks : phase[x] # "handed"
    /\ phase' = [phase EXCEPT ![t] = "handed"]
    /\ UNCHANGED <<for, holder, runs, verdict>>

\* The device may run a task whose turn was given up in the meantime.
Execute(t) ==
    /\ phase[t] \in {"handed", "closed"}
    /\ runs[t] = 0
    /\ runs' = [runs EXCEPT ![t] = 1]
    /\ UNCHANGED <<phase, for, holder, verdict>>

Close(t, r) ==
    /\ phase[t] = "handed"
    /\ phase' = [phase EXCEPT ![t] = "closed"]
    /\ verdict' = [verdict EXCEPT ![t] = r]
    /\ UNCHANGED <<for, holder, runs>>

Next ==
    \/ \E o \in Owners : Bind(o)
    \/ \E t \in Tasks : Accept(t) \/ Hand(t) \/ Execute(t)
    \/ \E t \in Tasks, r \in Results : Close(t, r)

Spec == Init /\ [][Next]_contractVars
=============================================================================
