---------------------------- MODULE MCTaskOutbox ----------------------------
(***************************************************************************)
(* Small instances of TaskOutbox: three settlements, one of them with a    *)
(* cost, for a ticket with two work items: one of them finds none left.    *)
(***************************************************************************)
EXTENDS TaskOutbox

CONSTANTS r1, r2, r3

ThreeRows == {r1, r2, r3}
OneRow == {r1}
=============================================================================
