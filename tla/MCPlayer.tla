------------------------------ MODULE MCPlayer ------------------------------
(***************************************************************************)
(* Two holders and the creator over one pool, CKB or xUDT, or a round with *)
(* an empty window, which no chain accepts.  h1 owns two stake cells, so   *)
(* that a deposit merges cells and makes change, and places two orders; h2 *)
(* takes the other side, with an amount of which the rake leaves half.     *)
(* Contests, which move no cell but the pool's, are left to Pool here.     *)
(***************************************************************************)
EXTENDS Player, TLC

CONSTANTS h1, h2, c

W(u, d) == [s \in Side |-> IF s = "UP" THEN u ELSE d]

MCPurses == (h1 :> {1, 2}) @@ (h2 :> {2})
MCStakes == (h1 :> {W(2, 0), W(1, 1)}) @@ (h2 :> {W(0, 2)})
MCPulls == {W(0, 1)}
MCBurnSides == {Side}
MCMaxAsks == (h1 :> 2) @@ (h2 :> 1)

R(v, s, e) == [variant |-> v, rake_bps |-> 5000, start_time |-> s, close_time |-> e]
MCRounds == {R("XUDT", 0, 1), R("CKB", 0, 1), R("CKB", 1, 1)}
=============================================================================
