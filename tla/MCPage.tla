------------------------------- MODULE MCPage -------------------------------
(***************************************************************************)
(* The instances are in the cfg files.  Two stakes fit on a side, so that  *)
(* others can bet on the player's side before and after him; he himself    *)
(* asks about one side, others bet on both.  In the narrow one a whole     *)
(* side against a whole side is a product that does not fit.               *)
(***************************************************************************)
EXTENDS Page, TLC
=============================================================================
