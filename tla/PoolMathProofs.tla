--------------------------- MODULE PoolMathProofs ---------------------------
(***************************************************************************)
(* Facts about the arithmetic of PoolMath, for every value of the widths:  *)
(* the order of the two graces, the bounds of the rake, and how rounded    *)
(* payouts add up.  PoolProofs cites them for the money invariants.        *)
(***************************************************************************)
EXTENDS PoolMath, TLAPS

(* The two bounds that characterise floor division, used for every         *)
(* mul_div_floor of the contract.                                          *)
LEMMA DivBounds ==
  ASSUME NEW n \in Nat, NEW d \in Nat \ {0}
  PROVE  /\ n \div d \in Nat
         /\ d * (n \div d) <= n
         /\ n < d * (n \div d + 1)
OBVIOUS

(* Products of naturals are naturals: the solver needs it as a fact.       *)
LEMMA MulNat ==
  ASSUME NEW a \in Nat, NEW b \in Nat
  PROVE  a * b \in Nat
OBVIOUS

(* Order is reflected by multiplication with a positive number.            *)
LEMMA MulReflectsLess ==
  ASSUME NEW a \in Int, NEW b \in Int, NEW d \in Nat \ {0}, d * a < d * b
  PROVE  a < b
OBVIOUS

(* A natural is the floor of n / d when it satisfies the two bounds.       *)
LEMMA DivUnique ==
  ASSUME NEW n \in Nat, NEW d \in Nat \ {0}, NEW q \in Nat,
         d * q <= n, n < d * (q + 1)
  PROVE  n \div d = q
<1>1. d * (n \div d) < d * (q + 1)
  BY DivBounds
<1>2. d * q < d * (n \div d + 1)
  BY DivBounds
<1>3. n \div d < q + 1 /\ q < n \div d + 1
  BY <1>1, <1>2, DivBounds, MulReflectsLess
<1> QED
  BY <1>3, DivBounds

(* Rounding two parts of a claim separately loses at most one unit, and    *)
(* never gains one: the arithmetic behind REDEEM in several transactions.  *)
LEMMA DivSplit ==
  ASSUME NEW m \in Nat, NEW n \in Nat, NEW d \in Nat \ {0}
  PROVE  /\ m \div d + n \div d <= (m + n) \div d
         /\ (m + n) \div d <= m \div d + n \div d + 1
<1> DEFINE q == m \div d
           r == n \div d
           s == (m + n) \div d
<1>1. /\ q \in Nat /\ d * q <= m /\ m < d * (q + 1)
      /\ r \in Nat /\ d * r <= n /\ n < d * (r + 1)
      /\ s \in Nat /\ d * s <= m + n /\ m + n < d * (s + 1)
  BY DivBounds
<1> HIDE DEF q, r, s
<1>2. d * (q + r) = d * q + d * r /\ d * (q + r + 2) = d * (q + 1) + d * (r + 1)
  BY <1>1
<1>3. d * (q + r) < d * (s + 1) /\ d * s < d * (q + r + 2)
  BY <1>1, <1>2, MulNat
<1>4. q + r < s + 1 /\ s < q + r + 2
  BY <1>1, <1>3, MulReflectsLess
<1> QED
  BY <1>1, <1>4 DEF q, r, s

(* Saturation never moves a deadline before the time it is counted from.   *)
LEMMA SaturatingAddBounds ==
  ASSUME NEW a \in 0 .. MaxU64, NEW b \in Nat
  PROVE  saturating_add(a, b) \in a .. MaxU64
BY WidthAssumption DEF saturating_add

(* grace(duration) is in [60, 600]: a round of any length has a contest    *)
(* window, and one that ends.                                              *)
LEMMA GraceRange ==
  ASSUME NEW n \in Nat
  PROVE  grace(n) \in GRACE_MIN_SECS .. GRACE_MAX_SECS
<1>1. n \div 10 \in Nat
  OBVIOUS
<1> QED
  BY <1>1 DEF grace, Clamp, GRACE_MIN_SECS, GRACE_MAX_SECS

(* Whatever the duration, saturation of the product included, the winners' *)
(* window outlasts the contest window: close_grace > grace.                *)
THEOREM CloseGraceOutlastsGrace ==
  ASSUME NEW n \in Nat
  PROVE  close_grace(n) > grace(n)
<1>1. close_grace(n) >= CLOSE_GRACE_MIN_SECS
  BY WidthAssumption DEF close_grace, Clamp, saturating_mul,
     CLOSE_GRACE_MIN_SECS, CLOSE_GRACE_MAX_SECS, CLOSE_GRACE_MULT
<1>2. close_grace(n) \in Nat
  BY WidthAssumption DEF close_grace, Clamp, saturating_mul,
     CLOSE_GRACE_MIN_SECS, CLOSE_GRACE_MAX_SECS, CLOSE_GRACE_MULT
<1>3. grace(n) \in GRACE_MIN_SECS .. GRACE_MAX_SECS
  BY GraceRange
<1>4. grace(n) \in Int /\ grace(n) <= 600
  BY <1>3 DEF GRACE_MIN_SECS, GRACE_MAX_SECS
<1>5. close_grace(n) >= 3600
  BY <1>1 DEF CLOSE_GRACE_MIN_SECS
<1> QED
  BY <1>2, <1>4, <1>5

(* With rake_bps at most 10000 (CREATE's check) the subtraction            *)
(* loser_total - rake never wraps.                                         *)
LEMMA RakeBounds ==
  ASSUME NEW l \in Nat, NEW bps \in 0 .. RAKE_BPS_MAX
  PROVE  /\ rake(l, bps) \in 0 .. l
         /\ distributable(l, bps) \in 0 .. l
         /\ distributable(l, bps) = l - rake(l, bps)
<1>1. l * bps \in Nat /\ l * bps <= 10000 * l
  BY DEF RAKE_BPS_MAX
<1>2. (l * bps) \div 10000 \in Nat /\ 10000 * ((l * bps) \div 10000) <= l * bps
  BY <1>1, DivBounds
<1>3. (l * bps) \div 10000 <= l
  BY <1>1, <1>2
<1> QED
  BY <1>2, <1>3 DEF rake, distributable, mul_div_floor, RAKE_BPS_MAX

(* A payout is at least the stake: a winner is never paid less than put in *)
(* and the profit of a stake is no more than the losing side.              *)
LEMMA PayoutBounds ==
  ASSUME NEW w \in Nat \ {0}, NEW l \in Nat, NEW bps \in 0 .. RAKE_BPS_MAX,
         NEW x \in Nat
  PROVE  payout(x, w, l, bps) \in Nat /\ payout(x, w, l, bps) >= x
<1>1. x * distributable(l, bps) \in Nat
  BY RakeBounds, MulNat
<1> QED
  BY <1>1, DivBounds DEF payout, mul_div_floor

(* Redeeming the whole winning side at once pays both totals less the rake.*)
LEMMA PayoutWhole ==
  ASSUME NEW w \in Nat \ {0}, NEW l \in Nat, NEW bps \in 0 .. RAKE_BPS_MAX
  PROVE  payout(w, w, l, bps) = w + l - rake(l, bps)
<1> DEFINE d == distributable(l, bps)
<1>1. d \in Nat /\ d = l - rake(l, bps) /\ rake(l, bps) \in Nat
  BY RakeBounds
<1> HIDE DEF d
<1>2. w * d \in Nat /\ w * d <= w * d /\ w * d < w * (d + 1)
  BY <1>1, MulNat
<1>3. (w * d) \div w = d
  BY <1>1, <1>2, DivUnique
<1> QED
  BY <1>1, <1>3 DEF payout, mul_div_floor, d

(* Splitting one claim into two redemptions pays the same or one unit less.*)
LEMMA PayoutSplit ==
  ASSUME NEW w \in Nat \ {0}, NEW l \in Nat, NEW bps \in 0 .. RAKE_BPS_MAX,
         NEW x \in Nat, NEW y \in Nat
  PROVE  LET both == payout(x + y, w, l, bps)
             apart == payout(x, w, l, bps) + payout(y, w, l, bps)
         IN  apart <= both /\ both <= apart + 1
<1> DEFINE d == distributable(l, bps)
<1>1. d \in Nat
  BY RakeBounds
<1> HIDE DEF d
<1>2. x * d \in Nat /\ y * d \in Nat /\ (x + y) * d = x * d + y * d
  BY <1>1, MulNat
<1>3. /\ (x * d) \div w + (y * d) \div w <= ((x + y) * d) \div w
      /\ ((x + y) * d) \div w <= (x * d) \div w + (y * d) \div w + 1
  BY <1>2, DivSplit
<1>4. (x * d) \div w \in Nat /\ (y * d) \div w \in Nat /\ ((x + y) * d) \div w \in Nat
  BY <1>1, <1>2, DivBounds, MulNat
<1> QED
  BY <1>3, <1>4 DEF payout, mul_div_floor, d
=============================================================================
