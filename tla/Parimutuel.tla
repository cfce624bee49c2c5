----------------------------- MODULE Parimutuel -----------------------------
(***************************************************************************)
(* What a pool promises about money, without prices, ticks or shares.      *)
(*                                                                         *)
(* pot is what the pool holds, owed what its players could still take out. *)
(* While betting both move freely, but nothing is owed that is not held.   *)
(* Once locked nothing enters or leaves.  Deciding the round settles what  *)
(* is owed; every payment then extinguishes at least as much debt as it    *)
(* takes from the pot.  At the end all debt lapses and what is left may be *)
(* swept.  Players may forfeit at any time.                                *)
(***************************************************************************)
EXTENDS Integers

VARIABLES phase, pot, owed

vars == <<phase, pot, owed>>

TypeOK ==
  /\ phase \in {"betting", "locked", "paying", "done"}
  /\ pot \in Nat
  /\ owed \in Nat

Init == phase = "betting" /\ pot = 0 /\ owed = 0

Bet ==
  /\ phase = "betting"
  /\ pot' \in Nat /\ owed' \in Nat
  /\ owed' <= pot'
  /\ UNCHANGED phase

Lock == phase = "betting" /\ phase' = "locked" /\ UNCHANGED <<pot, owed>>

Decide ==
  /\ phase \in {"betting", "locked"}
  /\ phase' = "paying"
  /\ owed' \in Nat /\ owed' <= pot
  /\ UNCHANGED pot

Pay ==
  /\ phase = "paying"
  /\ pot' \in Nat /\ owed' \in Nat
  /\ pot' < pot
  /\ pot - pot' <= owed - owed'
  /\ UNCHANGED phase

Forfeit ==
  /\ owed' \in Nat
  /\ owed' < owed
  /\ UNCHANGED <<phase, pot>>

Sweep == phase = "paying" /\ phase' = "done" /\ pot' \in 0 .. pot /\ owed' = 0

Next == Bet \/ Lock \/ Decide \/ Pay \/ Forfeit \/ Sweep

Spec == Init /\ [][Next]_vars

-----------------------------------------------------------------------------
(* The promise: the pot always covers what is owed.                        *)
Covered == owed <= pot
=============================================================================
