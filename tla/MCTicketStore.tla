---------------------------- MODULE MCTicketStore ----------------------------
(***************************************************************************)
(* TicketStore on one ticket: its tickets never interact.                  *)
(***************************************************************************)
EXTENDS TicketStore, TLC

CONSTANTS t1, c1, c2

MCTickets == {t1}
MCCallers == {c1, c2}

\* One status of each kind: waiting, claimable, being worked on, parked on a
\* failure, quarantined, finished, withdrawn.
MCRequested == {"backlog", "approved", "in_process_build", "escalated",
                "dead_letter", "complete", "cancelled"}

Symmetric == Permutations(MCCallers)
=============================================================================
