------------------------- MODULE MCRoutingWatchdog -------------------------
(***************************************************************************)
(* RoutingWatchdog on one item.  Items meet only in their ticket, and what *)
(* another item's retry or result does to it is among the moves of others. *)
(***************************************************************************)
EXTENDS RoutingWatchdog

CONSTANT i1

OneItem == {i1}

\* A quarantine, a requeue or rollback, a verdict of another part.
MCMoves == {"approved", "dead_letter", "complete"}
=============================================================================
