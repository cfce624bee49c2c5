----------------------------- MODULE PageProofs -----------------------------
(***************************************************************************)
(* Proofs about Quote and Page.  First the arithmetic: the SDK's payout    *)
(* and the web client's quote against the contract, whatever pot the       *)
(* player looks at.  Then the row: the chain only moves forward, a listing *)
(* is a moment of it, and passes do not overlap, so the row, the listing   *)
(* in flight and the chain are in this order at every moment; and a player *)
(* who looks at a row is a player of Quote.                                *)
(***************************************************************************)
EXTENDS Page, PoolMathProofs

(* The SDK's close grace has no width and the contract's product saturates:*)
(* they agree on every duration, because the clamp cuts off sooner.        *)
THEOREM CloseGraceMirrored ==
  ASSUME NEW n \in Nat, MaxU64 >= CLOSE_GRACE_MAX_SECS
  PROVE  closeGrace(n) = close_grace(n)
<1>1. n * CLOSE_GRACE_MULT \in Nat
  BY DEF CLOSE_GRACE_MULT
<1> QED
  BY <1>1, WidthAssumption DEF closeGrace, close_grace, Clamp, saturating_mul,
     CLOSE_GRACE_MIN_SECS, CLOSE_GRACE_MAX_SECS

(* A quote is the payout: the displayed fraction of the whole pot after    *)
(* the rake, rounded down, is what settlement pays for the same stake.     *)
THEOREM QuoteIsPayout ==
  ASSUME NEW add \in Nat, NEW w \in Nat \ {0}, NEW l \in Nat,
         NEW bps \in 0 .. RAKE_BPS_MAX
  PROVE  (add * (w + l - rake(l, bps))) \div w = payout(add, w, l, bps)
<1> DEFINE d == distributable(l, bps)
           q == (add * d) \div w
<1>1. d \in Nat /\ w + l - rake(l, bps) = w + d
  BY RakeBounds
<1> HIDE DEF d
<1>2. add * d \in Nat
  BY <1>1, MulNat
<1>3. q \in Nat /\ w * q <= add * d /\ add * d < w * (q + 1)
  BY <1>2, DivBounds
<1>4. payout(add, w, l, bps) = add + q
  BY DEF payout, mul_div_floor, d
<1> HIDE DEF q
<1>5. add * (w + d) = w * add + add * d
  BY <1>1
<1>6. w * (add + q) <= add * (w + d) /\ add * (w + d) < w * (add + q + 1)
  BY <1>1, <1>2, <1>3, <1>5
<1>7. add * (w + d) \in Nat /\ add + q \in Nat
  BY <1>1, <1>3, MulNat
<1>8. (add * (w + d)) \div w = add + q
  BY <1>6, <1>7, DivUnique
<1> QED
  BY <1>1, <1>4, <1>8

LEMMA NeverRefusedHere ==
  ASSUME NEW b \in Burns
  PROVE  AcceptedPayouts(b) \subseteq redeemPayout(b)
<1> SUFFICES ASSUME NEW p \in AcceptedPayouts(b)
             PROVE  p \in redeemPayout(b)
  OBVIOUS
<1>1. CASE refund1to1
  BY <1>1 DEF AcceptedPayouts, redeemPayout, redeemRefund, refund1to1
<1>2. CASE ~refund1to1
  <2> DEFINE x == b[winner]
             w == pot[winner]
             l == pot[Other(winner)]
             r == mul_div_floor(l, rake_bps, RAKE_BPS_MAX)
  <2>1. /\ status = "FINALIZED" /\ winner \in Side
        /\ p = payout(x, w, l, rake_bps)
        /\ x > 0 /\ b[Other(winner)] = 0 /\ w # 0
    BY <1>2 DEF AcceptedPayouts, refund1to1
  <2>2. mulDivFloor(l, rake_bps, RAKE_BPS_MAX) = {r}
    BY DEF mulDivFloor, RAKE_BPS_MAX
  <2>3. mulDivFloor(x, l - r, w) = {mul_div_floor(x, l - r, w)}
    BY <2>1 DEF mulDivFloor
  <2>4. p = x + mul_div_floor(x, l - r, w)
    BY <2>1 DEF payout, distributable, rake
  <2>5. p \in redeemWin(b)
    <3>1. ~(x <= 0)
      <4>1. x \in Int
        BY <2>1 DEF Burns
      <4> QED
        BY <2>1, <4>1
    <3> QED
      BY <2>1, <2>2, <2>3, <2>4, <3>1 DEF redeemWin
  <2> QED
    BY <1>2, <2>1, <2>5 DEF redeemPayout
<1> QED
  BY <1>1, <1>2

(* The SDK never turns away a redeem that the contract would pay.          *)
THEOREM SdkNeverRefuses == Spec => []NeverRefused
<1>1. NeverRefused
  BY NeverRefusedHere DEF NeverRefused
<1> QED
  BY <1>1, PTL

(***************************************************************************)
(* Dilution.  The payout of a fixed stake falls in the total of its own    *)
(* side and grows in the total of the other.                               *)
(***************************************************************************)
LEMMA DivMonotone ==
  ASSUME NEW m \in Nat, NEW n \in Nat, NEW d \in Nat \ {0}, NEW e \in Nat \ {0},
         m <= n, d <= e
  PROVE  m \div e <= n \div d
<1> DEFINE q == m \div e
           r == n \div d
<1>1. /\ q \in Nat /\ e * q <= m
      /\ r \in Nat /\ n < d * (r + 1)
  BY DivBounds
<1> HIDE DEF q, r
<1>2. d * q <= e * q
  BY <1>1
<1>3. d * q \in Nat /\ e * q \in Nat /\ d * (r + 1) \in Nat
  BY <1>1, MulNat
<1>4. d * q < d * (r + 1)
  BY <1>1, <1>2, <1>3
<1>5. q < r + 1
  BY <1>1, <1>4, MulReflectsLess
<1> QED
  BY <1>1, <1>5 DEF q, r

LEMMA DistributableGrows ==
  ASSUME NEW l \in Nat, NEW k \in Nat, NEW bps \in 0 .. RAKE_BPS_MAX
  PROVE  distributable(l, bps) <= distributable(l + k, bps)
<1> DEFINE q == (l * bps) \div 10000
           r == ((l + k) * bps) \div 10000
<1>1. bps \in Nat /\ bps <= 10000
  BY DEF RAKE_BPS_MAX
<1>2. l * bps \in Nat /\ k * bps \in Nat /\ (l + k) * bps = l * bps + k * bps
      /\ k * bps <= 10000 * k
  BY <1>1, MulNat
<1>3. /\ q \in Nat /\ l * bps < 10000 * (q + 1)
      /\ r \in Nat /\ 10000 * r <= l * bps + k * bps
  BY <1>2, DivBounds
<1>4. rake(l, bps) = q /\ rake(l + k, bps) = r
  BY DEF rake, mul_div_floor, RAKE_BPS_MAX
<1> HIDE DEF q, r
<1>5. 10000 * r < 10000 * (q + 1 + k)
  BY <1>2, <1>3
<1>6. r < q + 1 + k
  BY <1>3, <1>5
<1> QED
  BY <1>3, <1>4, <1>6 DEF distributable

LEMMA PayoutDiluted ==
  ASSUME NEW x \in Nat, NEW w \in Nat \ {0}, NEW l \in Nat, NEW k \in Nat,
         NEW bps \in 0 .. RAKE_BPS_MAX
  PROVE  /\ payout(x, w + k, l, bps) <= payout(x, w, l, bps)
         /\ payout(x, w, l, bps) <= payout(x, w, l + k, bps)
<1> DEFINE d == distributable(l, bps)
           e == distributable(l + k, bps)
<1>1. d \in Nat /\ e \in Nat /\ d <= e
  <2>1. l + k \in Nat
    OBVIOUS
  <2>2. d \in Nat /\ e \in Nat
    BY <2>1, RakeBounds
  <2>3. d <= e
    BY DistributableGrows
  <2> QED
    BY <2>2, <2>3
<1>0. w + k \in Nat \ {0} /\ w <= w + k
  OBVIOUS
<1> HIDE DEF d, e
<1>2. x * d \in Nat /\ x * e \in Nat /\ x * d <= x * e
  BY <1>1, MulNat
<1>3. (x * d) \div (w + k) <= (x * d) \div w
  <2>1. x * d <= x * d
    BY <1>2
  <2> QED
    BY <1>0, <1>2, <2>1, DivMonotone
<1>4. (x * d) \div w <= (x * e) \div w
  BY <1>1, <1>2, DivMonotone
<1>5. /\ (x * d) \div (w + k) \in Nat /\ (x * d) \div w \in Nat
      /\ (x * e) \div w \in Nat
  BY <1>1, <1>2, DivBounds
<1> QED
  BY <1>3, <1>4, <1>5 DEF payout, mul_div_floor, d, e

(* The stake the player has put in is in the pot, whatever others withdraw.*)
QuoteShape(q) == q.side \in Side /\ q.add \in Nat \ {0}

StakeStays ==
  /\ pot \in [Side -> Nat]
  /\ rake_bps \in 0 .. RAKE_BPS_MAX
  /\ \A q \in quoted \cup bet : QuoteShape(q)
  /\ \A q \in bet : bet = {q} /\ q.add <= pot[q.side]

LEMMA StakeStaysInit == Init => StakeStays
BY QuoteAssumption DEF Init, StakeStays, Side

LEMMA StakeStaysStep == StakeStays /\ [Next]_vars => StakeStays'
<1> SUFFICES ASSUME StakeStays, [Next]_vars
             PROVE  StakeStays'
  OBVIOUS
<1>0. /\ pot \in [Side -> Nat] /\ rake_bps \in 0 .. RAKE_BPS_MAX
      /\ \A n \in Stakes : n \in Nat
  BY QuoteAssumption DEF StakeStays
<1>1. ASSUME NEW shown \in Pots, NEW side \in Side, NEW n \in Stakes,
             Ask(shown, side, n)
      PROVE  StakeStays'
  <2>1. \A q \in quoted' : q.side = side /\ q.add = n
    BY <1>1 DEF Ask, stakeQuote
  <2> QED
    BY <1>0, <1>1, <2>1 DEF Ask, StakeStays, QuoteShape
<1>2. ASSUME NEW side \in Side, NEW n \in Stakes, OthersBet(side, n)
      PROVE  StakeStays'
  <2>1. /\ pot' \in [Side -> Nat]
        /\ \A s \in Side : pot[s] <= pot'[s]
    BY <1>0, <1>2 DEF OthersBet, withStake
  <2> QED
    BY <1>0, <1>2, <2>1 DEF OthersBet, StakeStays, QuoteShape
<1>3. ASSUME NEW side \in Side, NEW n \in Stakes, OthersWithdraw(side, n)
      PROVE  StakeStays'
  <2>1. n \in Nat /\ n <= pot[side] - Mine(side)
        /\ pot' = [pot EXCEPT ![side] = @ - n]
    BY <1>0, <1>3 DEF OthersWithdraw
  <2>2. ASSUME NEW q \in bet
        PROVE  q.side = side => Mine(side) = q.add
    BY <2>2 DEF StakeStays, Mine
  <2>3. Mine(side) \in Nat
    BY <2>2 DEF Mine, StakeStays, QuoteShape
  <2>4. pot' \in [Side -> Nat]
    BY <1>0, <2>1, <2>3
  <2>5. ASSUME NEW q \in bet
        PROVE  q.add <= pot'[q.side]
    BY <1>0, <2>1, <2>2, <2>5 DEF StakeStays, QuoteShape
  <2> QED
    BY <1>0, <1>3, <2>4, <2>5 DEF OthersWithdraw, StakeStays
<1>4. CASE Stake
  <2> PICK q \in quoted : /\ pot' = withStake(pot, q.side, q.add)
                          /\ bet' = {q}
    BY <1>4 DEF Stake
  <2>1. q.side \in Side /\ q.add \in Nat \ {0}
    BY DEF StakeStays, QuoteShape
  <2>2. pot' \in [Side -> Nat] /\ q.add <= pot'[q.side]
    BY <1>0, <2>1 DEF withStake
  <2> QED
    BY <1>0, <1>4, <2>1, <2>2 DEF Stake, StakeStays, QuoteShape
<1>5. ASSUME UNCHANGED <<pot, rake_bps, quoted, bet>>
      PROVE  StakeStays'
  BY <1>5 DEF StakeStays
<1> QED
  BY <1>1, <1>2, <1>3, <1>4, <1>5 DEF Next, ChainNext, Latch, vars

LEMMA DilutionHolds ==
  ASSUME StakeStays, [Next]_vars
  PROVE  DilutionStep
<1> SUFFICES ASSUME NEW q \in bet, NEW side \in Side, NEW n \in Stakes,
                    OthersBet(side, n)
             PROVE  IF side = q.side THEN Worth(q)' <= Worth(q) ELSE Worth(q)' >= Worth(q)
  BY DEF DilutionStep
<1> DEFINE w == pot[q.side]
           l == pot[Other(q.side)]
<1>1. /\ q.side \in Side /\ q.add \in Nat \ {0} /\ q.add <= w
      /\ w \in Nat \ {0} /\ l \in Nat /\ n \in Nat
      /\ rake_bps \in 0 .. RAKE_BPS_MAX /\ rake_bps' = rake_bps
      /\ Other(q.side) \in Side /\ Other(q.side) # q.side
  BY QuoteAssumption DEF StakeStays, QuoteShape, Other, Side, OthersBet
<1>2. /\ pot'[q.side] = IF side = q.side THEN w + n ELSE w
      /\ pot'[Other(q.side)] = IF side = q.side THEN l ELSE l + n
  BY <1>1 DEF OthersBet, withStake, StakeStays, Side, Other
<1>3. /\ payout(q.add, w + n, l, rake_bps) <= payout(q.add, w, l, rake_bps)
      /\ payout(q.add, w, l, rake_bps) <= payout(q.add, w, l + n, rake_bps)
  BY <1>1, PayoutDiluted
<1>4. Worth(q) = payout(q.add, w, l, rake_bps)
  BY DEF Worth
<1>5. CASE side = q.side
  <2>1. Worth(q)' = payout(q.add, w + n, l, rake_bps)
    BY <1>1, <1>2, <1>5 DEF Worth
  <2> QED
    BY <1>3, <1>4, <1>5, <2>1
<1>6. CASE side # q.side
  <2>1. Worth(q)' = payout(q.add, w, l + n, rake_bps)
    BY <1>1, <1>2, <1>6 DEF Worth
  <2>2. l + n \in Nat
    BY <1>1
  <2>3. /\ payout(q.add, w, l + n, rake_bps) \in Nat
        /\ payout(q.add, w, l, rake_bps) \in Nat
    BY <1>1, <2>2, PayoutBounds
  <2> QED
    BY <1>3, <1>4, <1>6, <2>1, <2>3
<1> QED
  BY <1>5, <1>6

(* Only bets on the player's own side dilute the stake.                    *)
THEOREM DilutionIsOneSided == Spec => OnlyOwnSideDilutes
<1>1. StakeStays /\ [Next]_vars => [DilutionStep]_vars
  BY DilutionHolds
<1> QED
  BY <1>1, StakeStaysInit, StakeStaysStep, PTL DEF Spec, OnlyOwnSideDilutes

(***************************************************************************)
(* What width asks.  The contract multiplies in u128, so the SDK mirrors   *)
(* it as long as the largest side fits with the rake and with itself.      *)
(***************************************************************************)
Wide == /\ 2 * MaxSide <= MaxU128
        /\ \A l \in 0 .. MaxSide, bps \in 0 .. RAKE_BPS_MAX : l * bps <= MaxU128
        /\ \A l, x \in 0 .. MaxSide : x * l <= MaxU128

FigureOf(q) ==
  /\ q.num = q.add * (q.pot[q.side] + q.pot[Other(q.side)]
                      - mul_div_floor(q.pot[Other(q.side)], rake_bps, RAKE_BPS_MAX))
  /\ q.den = q.pot[q.side]

\* The sides stay within the bound; a quote is what was computed for its pot.
Formed ==
  /\ pot \in Pots
  /\ \A q \in quoted \cup bet : FigureOf(q)

LEMMA FormedInit == Init => Formed
BY QuoteAssumption DEF Init, Formed, Pots, Side

LEMMA FormedStep == StakeStays /\ Formed /\ [Next]_vars => Formed'
<1> SUFFICES ASSUME StakeStays, Formed, [Next]_vars
             PROVE  Formed'
  OBVIOUS
<1>0. /\ pot \in [Side -> 0 .. MaxSide] /\ MaxSide \in Nat
      /\ \A n \in Stakes : n \in Nat
  BY QuoteAssumption DEF Formed, Pots
<1>1. ASSUME NEW shown \in Pots, NEW side \in Side, NEW n \in Stakes,
             Ask(shown, side, n)
      PROVE  Formed'
  <2>1. quoted' = {stakeQuote(shown, side, n)} /\ rake_bps' = rake_bps
        /\ bet' = bet /\ pot' = pot
    BY <1>1 DEF Ask
  <2>2. FigureOf(stakeQuote(shown, side, n))
    BY DEF FigureOf, stakeQuote
  <2> QED
    BY <2>1, <2>2 DEF Formed, FigureOf
<1>2. ASSUME NEW side \in Side, NEW n \in Stakes, OthersBet(side, n)
      PROVE  Formed'
  <2>1. pot' \in Pots
    BY <1>0, <1>2 DEF OthersBet, withStake, Pots
  <2> QED
    BY <1>2, <2>1 DEF OthersBet, Formed, FigureOf
<1>3. ASSUME NEW side \in Side, NEW n \in Stakes, OthersWithdraw(side, n)
      PROVE  Formed'
  <2>1. Mine(side) \in Nat
    BY DEF Mine, StakeStays, QuoteShape
  <2>2. pot' \in Pots
    BY <1>0, <1>3, <2>1 DEF OthersWithdraw, Pots
  <2> QED
    BY <1>3, <2>2 DEF OthersWithdraw, Formed, FigureOf
<1>4. CASE Stake
  <2> PICK q \in quoted : /\ pot[q.side] + q.add <= MaxSide
                          /\ pot' = withStake(pot, q.side, q.add)
                          /\ bet' = {q}
    BY <1>4 DEF Stake
  <2>1. q.side \in Side /\ q.add \in Nat
    BY DEF StakeStays, QuoteShape
  <2>2. pot' \in Pots
    BY <1>0, <2>1 DEF withStake, Pots
  <2> QED
    BY <1>4, <2>2 DEF Stake, Formed, FigureOf
<1>5. ASSUME UNCHANGED <<pot, rake_bps, quoted, bet>>
      PROVE  Formed'
  BY <1>5 DEF Formed, FigureOf
<1> QED
  BY <1>1, <1>2, <1>3, <1>4, <1>5 DEF Next, ChainNext, Latch, vars

LEMMA WithinWidth ==
  ASSUME StakeStays, Formed, Wide, NEW s \in Side, NEW x \in 1 .. pot[s]
  PROVE  /\ pot[s] # 0
         /\ payout_fits(x, pot[s], pot[Other(s)], rake_bps)
<1> DEFINE l == pot[Other(s)]
           d == distributable(l, rake_bps)
<1>1. /\ pot[s] \in 0 .. MaxSide /\ l \in 0 .. MaxSide /\ MaxSide \in Nat
      /\ rake_bps \in 0 .. RAKE_BPS_MAX
  BY QuoteAssumption DEF Formed, Pots, StakeStays, Side, Other
<1>2. d \in 0 .. l
  BY <1>1, RakeBounds
<1> HIDE DEF d
<1>3. pot[s] # 0 /\ x \in 0 .. MaxSide /\ d \in 0 .. MaxSide
  BY <1>1, <1>2
<1>4. l * rake_bps <= MaxU128 /\ x * d <= MaxU128
  BY <1>1, <1>3 DEF Wide
<1> QED
  BY <1>3, <1>4 DEF payout_fits, mul_div_fits, RAKE_BPS_MAX, d

LEMMA NeverInvalidHere ==
  ASSUME StakeStays, Formed, Wide, NEW b \in Burns
  PROVE  redeemPayout(b) \subseteq AcceptedPayouts(b)
<1>0. /\ b \in [Side -> -1 .. MaxSide] /\ MaxSide \in Nat
      /\ \A s \in Side : b[s] \in Int /\ b[s] <= pot[s] /\ pot[s] \in 0 .. MaxSide
  BY QuoteAssumption DEF Burns, Formed, Pots
<1>1. CASE refund1to1
  <2>1. b["UP"] + b["DOWN"] <= 2 * MaxSide
    BY <1>0 DEF Side
  <2>2. b["UP"] + b["DOWN"] <= MaxU128
    BY <1>0, <2>1, WidthAssumption DEF Wide, Side
  <2> QED
    BY <1>1, <2>2 DEF refund1to1, redeemPayout, redeemRefund, AcceptedPayouts
<1>2. CASE ~refund1to1 /\ status = "FINALIZED" /\ winner \in Side
  <2> DEFINE x == b[winner]
             w == pot[winner]
             l == pot[Other(winner)]
             r == mul_div_floor(l, rake_bps, RAKE_BPS_MAX)
  <2> SUFFICES ASSUME NEW p \in redeemWin(b)
               PROVE  p \in AcceptedPayouts(b)
    BY <1>2 DEF redeemPayout
  <2>1. x > 0 /\ b[Other(winner)] = 0 /\ x \in 1 .. pot[winner]
    BY <1>0, <1>2 DEF redeemWin
  <2>2. w # 0 /\ payout_fits(x, w, l, rake_bps)
    BY <1>2, <2>1, WithinWidth
  <2>3. /\ mulDivFloor(l, rake_bps, RAKE_BPS_MAX) = {r}
        /\ mulDivFloor(x, l - r, w) = {mul_div_floor(x, l - r, w)}
    BY <2>2 DEF mulDivFloor, RAKE_BPS_MAX
  <2>4. p = x + mul_div_floor(x, l - r, w)
    BY <2>1, <2>3 DEF redeemWin
  <2>5. p = payout(x, w, l, rake_bps)
    BY <2>4 DEF payout, distributable, rake
  <2> QED
    BY <1>2, <2>1, <2>2, <2>5 DEF AcceptedPayouts, refund1to1
<1> QED
  BY <1>1, <1>2 DEF redeemPayout

(* With the width the amounts need, a redeem that the SDK assembles is one *)
(* that the contract pays.                                                 *)
THEOREM SdkNeverInvalid ==
  ASSUME Wide
  PROVE  Spec => []NeverInvalid
<1>1. StakeStays /\ Formed => NeverInvalid
  BY NeverInvalidHere DEF NeverInvalid
<1> QED
  BY <1>1, StakeStaysInit, StakeStaysStep, FormedInit, FormedStep, PTL DEF Spec

LEMMA QuoteKeptHere ==
  ASSUME StakeStays, Formed, Wide
  PROVE  QuoteKept
<1> SUFFICES ASSUME NEW q \in bet,
                    status = "FINALIZED", winner = q.side, pot = q.pot
             PROVE  AcceptedPayouts([s \in Side |-> IF s = q.side THEN q.add ELSE 0])
                      = {q.num \div q.den}
  BY DEF QuoteKept
<1> DEFINE b == [s \in Side |-> IF s = q.side THEN q.add ELSE 0]
           w == pot[q.side]
           l == pot[Other(q.side)]
<1>1. /\ q.side \in Side /\ Other(q.side) \in Side /\ Other(q.side) # q.side
      /\ q.add \in Nat \ {0} /\ q.add <= w
      /\ w \in Nat \ {0} /\ l \in Nat /\ rake_bps \in 0 .. RAKE_BPS_MAX
  BY DEF StakeStays, QuoteShape, Side, Other
<1>2. b[q.side] = q.add /\ b[Other(q.side)] = 0
  BY <1>1
<1>3. q.add \in 1 .. pot[q.side]
  BY <1>1
<1>4. payout_fits(q.add, w, l, rake_bps)
  BY <1>1, <1>3, WithinWidth
<1> HIDE DEF b
<1>5. AcceptedPayouts(b) = {payout(q.add, w, l, rake_bps)}
  <2>1. winner # "VOID"
    BY <1>1 DEF Side
  <2>2. q.add > 0 /\ w # 0
    BY <1>1
  <2> QED
    BY <1>1, <1>2, <1>4, <2>1, <2>2 DEF AcceptedPayouts
<1>6. q.num = q.add * (w + l - rake(l, rake_bps)) /\ q.den = w
  BY DEF Formed, FigureOf, rake
<1>7. (q.add * (w + l - rake(l, rake_bps))) \div w = payout(q.add, w, l, rake_bps)
  BY <1>1, QuoteIsPayout
<1> QED
  BY <1>5, <1>6, <1>7 DEF b

(* With the same width, the quote staked on is what settlement pays when   *)
(* the pot is still the one quoted.                                        *)
THEOREM QuotesAreKept ==
  ASSUME Wide
  PROVE  Spec => []QuoteKept
<1>1. StakeStays /\ Formed => QuoteKept
  BY QuoteKeptHere
<1> QED
  BY <1>1, StakeStaysInit, StakeStaysStep, FormedInit, FormedStep, PTL DEF Spec

-----------------------------------------------------------------------------
LEMMA FollowsReflexive == ASSUME NEW r PROVE Follows(r, r)
BY DEF Follows, Rank

LEMMA FollowsTransitive ==
  ASSUME NEW r, NEW q, NEW t, Follows(r, q), Follows(q, t)
  PROVE  Follows(r, t)
<1>1. Rank(r.status) \in Nat /\ Rank(q.status) \in Nat /\ Rank(t.status) \in Nat
  BY DEF Rank
<1> QED
  BY <1>1 DEF Follows

(* No step of the chain goes back, and none leaves a final result.         *)
LEMMA ChainFollows ==
  ASSUME ChainNext
  PROVE  Follows(poolToRow, poolToRow')
<1> DEFINE Forward ==
             /\ Rank(status) <= Rank(status') /\ rake_bps' = rake_bps
             /\ status # "OPEN" => status' # "OPEN" /\ pot' = pot
             /\ status \notin Final
<1>1. ASSUME status = "OPEN", UNCHANGED <<status, rake_bps>>
      PROVE  Forward
  BY <1>1 DEF Rank, Final
<1>2. ASSUME NEW side \in Side, NEW n \in Stakes,
             OthersBet(side, n) \/ OthersWithdraw(side, n)
      PROVE  Forward
  BY <1>1, <1>2 DEF OthersBet, OthersWithdraw
<1>3. ASSUME Stake
      PROVE  Forward
  BY <1>1, <1>3 DEF Stake
<1>4. ASSUME NEW step \in PhaseSteps, NEW w, Latch(step[2], w)
      PROVE  Forward
  BY <1>4 DEF Latch, PhaseSteps, Rank, Final
<1>5. Forward
  BY <1>2, <1>3, <1>4 DEF ChainNext
<1> QED
  BY <1>5 DEF Follows, poolToRow

(***************************************************************************)
(* The invariant.                                                          *)
(***************************************************************************)
PassShape(f) ==
  \/ f = Idle
  \/ f = [at |-> "listing"]
  \/ f = [at |-> "listed", seen |-> f.seen]

Lines(S) == \A r, q \in S : r = q

OnePass ==
  /\ passes \in [Passes -> {passes[i] : i \in Passes}]
  /\ \A i \in Passes : PassShape(passes[i])
  /\ \A i \in Passes : passes[i] # Idle => indexing
  /\ \A i, j \in Passes : passes[i] # Idle /\ passes[j] # Idle => i = j
  /\ \A i \in Passes : passes[i].at = "listed" => Lines(passes[i].seen)
  /\ Lines(row)

InOrder ==
  /\ \A r \in row : Follows(r, poolToRow)
  /\ \A i \in Passes : passes[i].at = "listed" =>
       \A q \in passes[i].seen : Follows(q, poolToRow) /\ \A r \in row : Follows(r, q)
  /\ \A r \in row : r.pot \in Pots
  /\ \A i \in Passes : passes[i].at = "listed" => \A q \in passes[i].seen : q.pot \in Pots

PageInv == StakeStays /\ Formed /\ OnePass /\ InOrder

LEMMA PageInvInit == PageInit => PageInv
<1> SUFFICES ASSUME PageInit PROVE PageInv
  OBVIOUS
<1>1. StakeStays /\ Formed
  BY StakeStaysInit, FormedInit DEF PageInit
<1>2. /\ row = {} /\ \A i \in Passes : passes[i] = Idle /\ passes[i].at # "listed"
      /\ passes = [i \in Passes |-> Idle]
  BY DEF PageInit, Idle
<1>3. OnePass
  BY <1>2 DEF OnePass, PassShape, Lines
<1>4. InOrder
  BY <1>2 DEF InOrder
<1> QED
  BY <1>1, <1>3, <1>4 DEF PageInv

\* The pot that the page shows is the row's.
LEMMA RowPot ==
  ASSUME NEW r, r.pot \in Pots
  PROVE  potOf(serializePool(r).odds) = r.pot
BY DEF potOf, serializePool, Pots

(* What the page does is what a player of Quote may do.                    *)
LEMMA PageStepIsQuote ==
  ASSUME PageInv, [PageNext]_allVars
  PROVE  [Next]_vars
<1>1. CASE ChainNext
  BY <1>1 DEF Next
<1>2. ASSUME NEW clock \in Clocks, NEW side \in Side, NEW n \in Stakes,
             TypeAmount(clock, side, n)
      PROVE  Next
  <2> PICK pool \in poolRoute : Ask(potOf(pool.odds), side, n)
    BY <1>2 DEF TypeAmount
  <2> PICK r \in row : pool = serializePool(r)
    BY DEF poolRoute
  <2> QED
    BY RowPot DEF PageInv, InOrder, Next
<1>3. CASE UNCHANGED vars
  BY <1>3
<1> QED
  BY <1>1, <1>2, <1>3, PageAssumption
  DEF PageNext, allVars, IndexTick, Listed, Written, PassFails, Restart, Gone

(* A step that leaves the passes and the row alone, whatever the chain and *)
(* the player do.                                                          *)
LEMMA ChainKeepsOrder ==
  ASSUME OnePass, InOrder, UNCHANGED <<row, passes, indexing>>,
         Follows(poolToRow, poolToRow')
  PROVE  OnePass' /\ InOrder'
<1>1. OnePass'
  BY DEF OnePass, PassShape, Lines
<1>2. InOrder'
  BY FollowsTransitive DEF InOrder
<1> QED
  BY <1>1, <1>2

\* A pass that ends, with the row as it was or written by it.
LEMMA PassEnds ==
  ASSUME OnePass, InOrder, NEW i \in Passes, passes[i] # Idle,
         passes' = [passes EXCEPT ![i] = Idle], UNCHANGED poolToRow,
         row' = row \/ (passes[i].at = "listed" /\ row' = upsertPool(passes[i].seen))
  PROVE  OnePass' /\ InOrder'
<1>1. \A j \in Passes : passes'[j] = Idle /\ passes'[j].at # "listed"
  BY DEF OnePass, Idle
<1>2. Lines(row)' /\ \A r \in row' : Follows(r, poolToRow) /\ r.pot \in Pots
  BY DEF OnePass, InOrder, upsertPool, Lines
<1>3. passes' \in [Passes -> {passes'[j] : j \in Passes}]
  BY DEF OnePass
<1>4. OnePass'
  BY <1>1, <1>2, <1>3 DEF OnePass, PassShape
<1>5. InOrder'
  BY <1>1, <1>2 DEF InOrder
<1> QED
  BY <1>4, <1>5

LEMMA OrderStep ==
  ASSUME PageInv, [PageNext]_allVars
  PROVE  OnePass' /\ InOrder'
<1>0. OnePass /\ InOrder /\ Formed /\ Follows(poolToRow, poolToRow)
  BY FollowsReflexive DEF PageInv
<1>1. CASE ChainNext /\ UNCHANGED pageVars
  BY <1>0, <1>1, ChainFollows, ChainKeepsOrder DEF pageVars
<1>2. CASE UNCHANGED <<status, winner, pot, rake_bps, row, passes, indexing>>
  <2>1. Follows(poolToRow, poolToRow')
    BY <1>0, <1>2 DEF poolToRow
  <2> QED
    BY <1>0, <1>2, <2>1, ChainKeepsOrder
<1>3. CASE IndexTick
  <2> PICK i \in Passes : passes' = [passes EXCEPT ![i] = [at |-> "listing"]]
    BY <1>3 DEF IndexTick
  <2>1. /\ \A j \in Passes : passes[j] = Idle /\ indexing'
        /\ UNCHANGED <<row, status, winner, pot, rake_bps>>
    BY <1>0, <1>3 DEF IndexTick, OnePass, vars
  <2>2. /\ \A j \in Passes : passes'[j] = IF j = i THEN [at |-> "listing"] ELSE Idle
        /\ \A j \in Passes : passes'[j].at # "listed"
        /\ passes' \in [Passes -> {passes'[j] : j \in Passes}]
    BY <1>0, <2>1 DEF OnePass, Idle
  <2>3. OnePass'
    BY <1>0, <2>1, <2>2 DEF OnePass, PassShape, Lines
  <2>4. InOrder'
    BY <1>0, <2>1, <2>2 DEF InOrder, poolToRow
  <2> QED
    BY <2>3, <2>4
<1>4. ASSUME NEW i \in Passes, Listed(i)
      PROVE  OnePass' /\ InOrder'
  <2> DEFINE new == [at |-> "listed", seen |-> listPools]
  <2>1. /\ passes[i] # Idle /\ passes' = [passes EXCEPT ![i] = new]
        /\ UNCHANGED <<row, indexing, status, winner, pot, rake_bps>>
    BY <1>4 DEF Listed, Idle, vars
  <2>2. /\ passes'[i] = new /\ new.at = "listed" /\ new.seen = listPools
        /\ \A j \in Passes : j # i => passes'[j] = Idle /\ passes'[j].at # "listed"
        /\ passes' \in [Passes -> {passes'[j] : j \in Passes}]
    BY <1>0, <2>1 DEF OnePass, Idle
  <2>3. PassShape(new)
    BY DEF PassShape
  <2> HIDE DEF new
  <2>4. /\ Lines(listPools)
        /\ \A q \in listPools : q = poolToRow
    BY DEF listPools, Lines
  <2>5. poolToRow.pot \in Pots
    BY <1>0 DEF Formed, poolToRow
  <2>6. OnePass'
    BY <1>0, <2>1, <2>2, <2>3, <2>4 DEF OnePass, PassShape, Lines
  <2>7. InOrder'
    BY <1>0, <2>1, <2>2, <2>4, <2>5 DEF InOrder, poolToRow
  <2> QED
    BY <2>6, <2>7
<1>5. ASSUME NEW i \in Passes, Written(i) \/ PassFails(i)
      PROVE  OnePass' /\ InOrder'
  <2>1. /\ passes[i] # Idle /\ passes' = [passes EXCEPT ![i] = Idle]
        /\ row' = row \/ (passes[i].at = "listed" /\ row' = upsertPool(passes[i].seen))
        /\ UNCHANGED <<status, winner, pot, rake_bps>>
    BY <1>5 DEF Written, PassFails, Idle, vars
  <2>2. UNCHANGED poolToRow
    BY <2>1 DEF poolToRow
  <2> QED
    BY <1>0, <2>1, <2>2, PassEnds
<1>6. CASE Restart
  <2>1. /\ passes' = [i \in Passes |-> Idle]
        /\ UNCHANGED <<row, status, winner, pot, rake_bps>>
    BY <1>6 DEF Restart, vars
  <2>2. /\ \A j \in Passes : passes'[j] = Idle /\ passes'[j].at # "listed"
        /\ passes' \in [Passes -> {passes'[j] : j \in Passes}]
    BY <2>1 DEF Idle
  <2>3. OnePass'
    BY <1>0, <2>1, <2>2 DEF OnePass, PassShape, Lines
  <2>4. InOrder'
    BY <1>0, <2>1, <2>2 DEF InOrder, poolToRow
  <2> QED
    BY <2>3, <2>4
<1> QED
  BY <1>1, <1>2, <1>3, <1>4, <1>5, <1>6
  DEF PageNext, allVars, vars, pageVars, Gone, TypeAmount, Ask

LEMMA PageInvStep == PageInv /\ [PageNext]_allVars => PageInv'
<1> SUFFICES ASSUME PageInv, [PageNext]_allVars PROVE PageInv'
  OBVIOUS
<1>1. [Next]_vars
  BY PageStepIsQuote
<1>2. StakeStays' /\ Formed'
  BY <1>1, StakeStaysStep, FormedStep DEF PageInv
<1> QED
  BY <1>2, OrderStep DEF PageInv

(* The page, stale rows and all, is one of the players that Quote speaks   *)
(* of: every theorem about Quote holds of it.                              *)
THEOREM PageImplementsQuote == PageSpec => Spec
<1>1. PageInit => Init
  BY DEF PageInit
<1>2. PageInv /\ [PageNext]_allVars => [Next]_vars
  BY PageStepIsQuote
<1> QED
  BY <1>1, <1>2, PageInvInit, PageInvStep, PTL DEF PageSpec, Spec

LEMMA RowStep ==
  ASSUME PageInv, [PageNext]_allVars, NEW r \in row
  PROVE  row' # {} /\ \A q \in row' : Follows(r, q)
<1>1. ASSUME row' = row
      PROVE  row' # {} /\ \A q \in row' : Follows(r, q)
  BY <1>1, FollowsReflexive DEF PageInv, OnePass, Lines
<1>2. ASSUME NEW i \in Passes, Written(i)
      PROVE  row' # {} /\ \A q \in row' : Follows(r, q)
  <2>1. passes[i].at = "listed" /\ row' = upsertPool(passes[i].seen)
    BY <1>2 DEF Written
  <2>2. CASE passes[i].seen = {}
    BY <1>1, <2>1, <2>2 DEF upsertPool
  <2>3. CASE passes[i].seen # {}
    BY <2>1, <2>3 DEF upsertPool, PageInv, InOrder
  <2> QED
    BY <2>2, <2>3
<1> QED
  BY <1>1, <1>2
  DEF PageNext, allVars, pageVars, IndexTick, Listed, PassFails, Restart, Gone, TypeAmount

(* The row never goes back, whatever passes fail or are cut off.           *)
THEOREM RowNeverGoesBack == PageSpec => RowsFollow
<1>1. PageInv /\ [PageNext]_allVars =>
        [\A r \in row : row' # {} /\ \A q \in row' : Follows(r, q)]_allVars
  BY RowStep
<1> QED
  BY <1>1, PageInvInit, PageInvStep, PTL DEF PageSpec, RowsFollow

(* A ticket that is closed is closed on chain, and shows the final pot.    *)
THEOREM RefusalsAreTrue == PageSpec => []RefusalsTrue
<1>1. PageInv => RefusalsTrue
  <2> SUFFICES ASSUME PageInv, NEW pool \in poolRoute, NEW clock \in Clocks,
                      locked(pool, clock)
               PROVE  status # "OPEN" /\ potOf(pool.odds) = pot
    BY DEF RefusalsTrue
  <2> PICK r \in row : pool = serializePool(r)
    BY DEF poolRoute
  <2>1. Follows(r, poolToRow) /\ potOf(pool.odds) = r.pot
    BY RowPot DEF PageInv, InOrder
  <2>2. r.status # "OPEN"
    BY DEF locked, phaseOf, serializePool
  <2> QED
    BY <2>1, <2>2 DEF Follows, poolToRow
<1> QED
  BY <1>1, PageInvInit, PageInvStep, PTL DEF PageSpec
=============================================================================
