--------------------------- MODULE MCQueueManager ---------------------------
(***************************************************************************)
(* Instances of QueueManager: two tickets that compete for one slot, and   *)
(* one ticket other actors interfere with.                                 *)
(***************************************************************************)
EXTENDS QueueManager, TLC

CONSTANTS t1, t2, p1, p2, d1, d2

OneTicket == {t1}
TwoTickets == {t1, t2}
OnePoll == {p1}
TwoPolls == {p1, p2}
TwoDispatches == {d1, d2}

NoTickets == {}

Approve == {"approved"}
Interrupt == {"approved", "escalated", "cancelled"}

Symmetric == Permutations(TwoPolls) \cup Permutations(TwoDispatches)
=============================================================================
