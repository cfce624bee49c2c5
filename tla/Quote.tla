------------------------------- MODULE Quote -------------------------------
(***************************************************************************)
(* The money arithmetic outside the contracts, against the arithmetic that *)
(* decides: the SDK's redeemPayout, from which a redeem transaction is     *)
(* built, the SDK's mirrors of the two graces, and the stake quote that    *)
(* the web client shows before a bet.                                      *)
(*                                                                         *)
(* bigint has no width, u128 has: the SDK's mulDivFloor fails only on a    *)
(* zero divisor, the contract's also when the product exceeds MaxU128.     *)
(*                                                                         *)
(* One player looks at a pool while others bet.  The pool is what the SDK  *)
(* reads of it (a PoolView); its prices and clocks are those of Pool and   *)
(* are passed over here, so Latch may take any step of the phases.         *)
(***************************************************************************)
EXTENDS PoolMath

CONSTANTS
  Stakes,     \* amounts bet
  MaxSide,    \* bound: the most one side may hold
  Rakes       \* rake_bps of the pools considered

ASSUME QuoteAssumption ==
  Stakes \subseteq Nat /\ MaxSide \in Nat /\ Rakes \subseteq 0 .. RAKE_BPS_MAX

VARIABLES
  status, winner, rake_bps,
  pot,        \* the two side totals
  quoted,     \* the stake quote on the player's screen, {} or {quote}
  bet         \* the quote the player staked on, {} or {quote}

vars == <<status, winner, rake_bps, pot, quoted, bet>>

-----------------------------------------------------------------------------
(***************************************************************************)
(* The SDK.  A redeem burns burned[s] of each side, inputs less outputs.   *)
(* What throws yields no quote: a set of at most one payout.               *)
(***************************************************************************)
mulDivFloor(a, b, d) == IF d = 0 THEN {} ELSE {mul_div_floor(a, b, d)}

\* Mutant: a finalized tie is not refunded.
refundVoidOnly == status = "VOID"

refund1to1 == status = "VOID" \/ (status = "FINALIZED" /\ winner = "VOID")

redeemRefund(burned) ==
  IF (\A s \in Side : burned[s] >= 0) /\ burned["UP"] + burned["DOWN"] # 0
  THEN {burned["UP"] + burned["DOWN"]}
  ELSE {}

\* Mutant: losing shares may burn along.
redeemWinMixed(burned) ==
  LET x == burned[winner]
      loser == pot[Other(winner)]
  IN  IF x <= 0 THEN {}
      ELSE {x + profit : profit \in
              UNION {mulDivFloor(x, loser - r, pot[winner]) :
                       r \in mulDivFloor(loser, rake_bps, RAKE_BPS_MAX)}}

redeemWin(burned) ==
  LET x == burned[winner]
      loser == pot[Other(winner)]
  IN  IF x <= 0 \/ burned[Other(winner)] # 0 THEN {}
      ELSE {x + profit : profit \in
              UNION {mulDivFloor(x, loser - r, pot[winner]) :
                       r \in mulDivFloor(loser, rake_bps, RAKE_BPS_MAX)}}

redeemPayout(burned) ==
  IF refund1to1 THEN redeemRefund(burned)
  ELSE IF status = "FINALIZED" /\ winner \in Side THEN redeemWin(burned)
  ELSE {}

(***************************************************************************)
(* validate_redeem: the payouts the contract lets out for the same burn.   *)
(***************************************************************************)
AcceptedPayouts(burned) ==
  IF status = "VOID" \/ (status = "FINALIZED" /\ winner = "VOID")
  THEN {p \in {burned["UP"] + burned["DOWN"]} :
          (\A s \in Side : burned[s] >= 0) /\ p # 0 /\ p <= MaxU128}
  ELSE IF status = "FINALIZED" /\ winner \in Side
  THEN {p \in {payout(burned[winner], pot[winner], pot[Other(winner)], rake_bps)} :
          /\ burned[winner] > 0 /\ burned[Other(winner)] = 0
          /\ pot[winner] # 0
          /\ payout_fits(burned[winner], pot[winner], pot[Other(winner)], rake_bps)}
  ELSE {}

\* The SDK's graces have no width: the product below cannot saturate.
closeGrace(duration) ==
  Clamp(duration * CLOSE_GRACE_MULT, CLOSE_GRACE_MIN_SECS, CLOSE_GRACE_MAX_SECS)

-----------------------------------------------------------------------------
(***************************************************************************)
(* The web client's pot.  A quote prices a stake as if it were already in, *)
(* and is kept here as the fraction num / den of base units it displays.   *)
(***************************************************************************)
\* Mutant: the stake is counted on both sides.
withStakeBoth(p, side, add) == [s \in Side |-> p[s] + add]

withStake(p, side, add) == [p EXCEPT ![side] = @ + add]

\* Mutant: the rake is taken off the whole pot.
stakeQuoteRakeAll(p, side, add) ==
  LET after == withStake(p, side, add)
      sum == after["UP"] + after["DOWN"]
  IN  [side |-> side, add |-> add, pot |-> after,
       num |-> add * (sum - mul_div_floor(sum, rake_bps, RAKE_BPS_MAX)),
       den |-> after[side]]

stakeQuote(p, side, add) ==
  LET after == withStake(p, side, add)
      others == after[Other(side)]
  IN  [side |-> side, add |-> add, pot |-> after,
       num |-> add * (after[side] + others - mul_div_floor(others, rake_bps, RAKE_BPS_MAX)),
       den |-> after[side]]

-----------------------------------------------------------------------------
(***************************************************************************)
(* The player asks for quotes, each on the pot that the screen shows, and  *)
(* stakes once, on the last one, possibly after others have bet; others    *)
(* bet and withdraw while the pool is OPEN.                                *)
(***************************************************************************)
Ask(shown, side, add) ==
  /\ bet = {}
  /\ add > 0
  /\ quoted' = {stakeQuote(shown, side, add)}
  /\ UNCHANGED <<status, winner, rake_bps, pot, bet>>

Stake ==
  /\ status = "OPEN"
  /\ \E q \in quoted :
       /\ pot[q.side] + q.add <= MaxSide
       /\ pot' = withStake(pot, q.side, q.add)
       /\ bet' = {q}
  /\ quoted' = {}
  /\ UNCHANGED <<status, winner, rake_bps>>

OthersBet(side, add) ==
  /\ status = "OPEN"
  /\ add > 0 /\ pot[side] + add <= MaxSide
  /\ pot' = withStake(pot, side, add)
  /\ UNCHANGED <<status, winner, rake_bps, quoted, bet>>

\* What the player put on a side is not the others' to withdraw.
Mine(side) == IF \E q \in bet : q.side = side THEN (CHOOSE q \in bet : TRUE).add ELSE 0

OthersWithdraw(side, n) ==
  /\ status = "OPEN"
  /\ n > 0 /\ n <= pot[side] - Mine(side)
  /\ pot' = [pot EXCEPT ![side] = @ - n]
  /\ UNCHANGED <<status, winner, rake_bps, quoted, bet>>

\* The phases, and the results the contracts can reach: a pool is locked only
\* with both sides staked, and contests may change a settled winner.
Latch(end, w) ==
  /\ <<status, end>> \in PhaseSteps
  /\ end = "LOCKED" => pot["UP"] > 0 /\ pot["DOWN"] > 0
  /\ end = "SETTLED" => w \notin {"UNDECIDED", winner}
  /\ end = "VOID" => w = "VOID"
  /\ end \notin {"SETTLED", "VOID"} => w = winner
  /\ status' = end
  /\ winner' = w
  /\ UNCHANGED <<rake_bps, pot, quoted, bet>>

Init ==
  /\ status = "OPEN"
  /\ winner = "UNDECIDED"
  /\ rake_bps \in Rakes
  /\ pot = [s \in Side |-> 0]
  /\ quoted = {}
  /\ bet = {}

ChainNext ==
  \/ \E side \in Side, n \in Stakes : OthersBet(side, n) \/ OthersWithdraw(side, n)
  \/ Stake
  \/ \E step \in PhaseSteps, w \in Side \cup {"VOID", "UNDECIDED"} : Latch(step[2], w)

\* How old the pot on the screen is, and why, is the subject of Page.
Pots == [Side -> 0 .. MaxSide]

Next ==
  \/ \E shown \in Pots, side \in Side, n \in Stakes : Ask(shown, side, n)
  \/ ChainNext

Spec == Init /\ [][Next]_vars

-----------------------------------------------------------------------------
(* Burns worth asking about: none, a mint, and every amount that the side  *)
(* can have in circulation.                                                *)
Burns == {b \in [Side -> -1 .. MaxSide] : \A s \in Side : b[s] <= pot[s]}

(* The SDK quotes whatever the contract would pay: no redeem the chain     *)
(* accepts is one the builder refuses to assemble.                         *)
NeverRefused == \A b \in Burns : AcceptedPayouts(b) \subseteq redeemPayout(b)

(* payout.ts, on redeemPayout: it throws where the contract rejects, so a  *)
(* builder never assembles an invalid redeem.  True as long as every       *)
(* product fits u128.                                                      *)
NeverInvalid == \A b \in Burns : redeemPayout(b) \subseteq AcceptedPayouts(b)

(* The quote the player staked on is what the contract pays, to the unit,  *)
(* when the pot at the end is the pot that was quoted.                     *)
QuoteKept ==
  \A q \in bet :
    status = "FINALIZED" /\ winner = q.side /\ pot = q.pot =>
      AcceptedPayouts([s \in Side |-> IF s = q.side THEN q.add ELSE 0]) = {q.num \div q.den}

(* What the player's stake would be paid if its side won as things stand.  *)
Worth(q) == payout(q.add, pot[q.side], pot[Other(q.side)], rake_bps)

(* A bet of somebody else on the player's side never raises what the stake *)
(* would be paid, and one on the other side never lowers it.               *)
DilutionStep ==
  \A q \in bet, side \in Side :
    bet' = bet /\ (\E n \in Stakes : OthersBet(side, n)) =>
      IF side = q.side THEN Worth(q)' <= Worth(q) ELSE Worth(q)' >= Worth(q)

OnlyOwnSideDilutes == [][DilutionStep]_vars
=============================================================================
