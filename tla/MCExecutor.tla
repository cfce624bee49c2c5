----------------------------- MODULE MCExecutor -----------------------------
(* Two pools on one oracle cell and one round. *)
EXTENDS Executor

CONSTANTS p1, p2, r1

MCPools == {p1, p2}
MCRounds == {r1}
=============================================================================
