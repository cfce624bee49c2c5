------------------------------ MODULE PoolMath ------------------------------
(***************************************************************************)
(* The pure arithmetic of the up/down pool contracts: the two graces       *)
(* derived from a round's duration, the comparison that names a winner,    *)
(* and the parimutuel payout.  Integers keep their width through the two   *)
(* constants: u64 time arithmetic saturates at MaxU64, and a u128 product  *)
(* above MaxU128 makes the checked multiplication fail.                    *)
(***************************************************************************)
EXTENDS Integers

CONSTANTS
  MaxU64,    \* the largest u64 (2^64 - 1 on chain)
  MaxU128    \* the largest u128 (2^128 - 1 on chain)

ASSUME WidthAssumption == MaxU64 \in Nat /\ MaxU128 \in Nat

Side == {"UP", "DOWN"}
Other(s) == IF s = "UP" THEN "DOWN" ELSE "UP"

RAKE_BPS_MAX == 10000
GRACE_MIN_SECS == 60
GRACE_MAX_SECS == 600
CLOSE_GRACE_MIN_SECS == 3600
CLOSE_GRACE_MAX_SECS == 604800
CLOSE_GRACE_MULT == 8

(***************************************************************************)
(* Saturating u64 arithmetic.                                              *)
(***************************************************************************)
saturating_add(a, b) == IF a + b <= MaxU64 THEN a + b ELSE MaxU64
saturating_sub(a, b) == IF b <= a THEN a - b ELSE 0
saturating_mul(a, b) == IF a * b <= MaxU64 THEN a * b ELSE MaxU64

Clamp(n, lo, hi) == IF n < lo THEN lo ELSE IF n > hi THEN hi ELSE n

(***************************************************************************)
(* The contest window after close_time, and the teardown grace.            *)
(***************************************************************************)
grace(duration) == Clamp(duration \div 10, GRACE_MIN_SECS, GRACE_MAX_SECS)

close_grace(duration) ==
  Clamp(saturating_mul(duration, CLOSE_GRACE_MULT),
        CLOSE_GRACE_MIN_SECS, CLOSE_GRACE_MAX_SECS)

winner_for(price, start_price) ==
  IF price > start_price THEN "UP"
  ELSE IF price < start_price THEN "DOWN"
  ELSE "VOID"

(***************************************************************************)
(* floor(a * b / d), and when the checked form returns Some.               *)
(***************************************************************************)
mul_div_fits(a, b, d) == d # 0 /\ a * b <= MaxU128
\* Mutants: the quotient is rounded up, or taken before the product.
mul_div_ceil(a, b, d) == (a * b + d - 1) \div d
div_mul(a, b, d) == (a \div d) * b

mul_div_floor(a, b, d) == (a * b) \div d

rake(loser_total, rake_bps) ==
  mul_div_floor(loser_total, rake_bps, RAKE_BPS_MAX)

\* Mutant: the rake is not taken off.
distribute_all(loser_total, rake_bps) == loser_total

distributable(loser_total, rake_bps) ==
  loser_total - rake(loser_total, rake_bps)

(***************************************************************************)
(* What x burned winning shares are paid: the stake and its part of the    *)
(* losing side after the rake, rounded down.                               *)
(***************************************************************************)
payout(x, winner_total, loser_total, rake_bps) ==
  x + mul_div_floor(x, distributable(loser_total, rake_bps), winner_total)

payout_fits(x, winner_total, loser_total, rake_bps) ==
  /\ mul_div_fits(loser_total, rake_bps, RAKE_BPS_MAX)
  /\ mul_div_fits(x, distributable(loser_total, rake_bps), winner_total)

\* The status pairs of a transition that moves no money.
PhaseSteps == {<<"OPEN", "LOCKED">>, <<"LOCKED", "LOCKED">>, <<"LOCKED", "SETTLED">>,
               <<"SETTLED", "SETTLED">>, <<"SETTLED", "FINALIZED">>,
               <<"OPEN", "VOID">>, <<"LOCKED", "VOID">>}
=============================================================================
