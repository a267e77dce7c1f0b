--------------------------- MODULE MCRemoteTasks ---------------------------
(***************************************************************************)
(* Small instances of RemoteTasks: a task another agent enqueues and the   *)
(* tasks of chat turns, for a device with a user or without.               *)
(***************************************************************************)
EXTENDS RemoteTasks

CONSTANTS w1, c1, c2, alice, nobody, none

TwoTasks == {w1, c1}
ThreeTasks == {w1, c1, c2}
OneTurn == {c1}
TwoTurns == {c1, c2}
AliceOrNobody == {alice, nobody}
=============================================================================
