----------------------------- MODULE PoolProofs -----------------------------
(***************************************************************************)
(* Proofs about Pool, for every feed, configuration set and width.  The    *)
(* invariants are proved in layers, each relative to the ones below it:    *)
(* Basic (types, and the escrow before a result), Backed (shares), Decided *)
(* (prices and winner), Paid (solvency).                                   *)
(***************************************************************************)
EXTENDS Pool, PoolMathProofs

USE PoolAssumption, WidthAssumption

(***************************************************************************)
(* Layer 1.  TypeOK is not inductive alone: a CKB deposit computes funds   *)
(* by a difference, which is a natural because the escrow is exact.        *)
(***************************************************************************)
Pristine ==
  /\ status = "ABSENT" => funds = 0 /\ Staked = 0
  /\ status \in {"ABSENT", "OPEN", "LOCKED", "SETTLED"} =>
       redeems = 0 /\ \A s \in Side : redeemed[s] = 0

Basic == TypeOK /\ EscrowExact /\ Pristine

LEMMA BasicInit == Init => Basic
BY DEF Init, Basic, TypeOK, EscrowExact, Pristine, Staked, Side, Statuses,
       Winners, Variants, NoConfig, RAKE_BPS_MAX

(* The price transitions leave totals, money and configuration alone, so   *)
(* each keeps Basic once it lands in a legal status and winner.            *)
LEMMA BasicFrozen ==
  ASSUME Basic, phase_frozen, status \in {"OPEN", "LOCKED", "SETTLED"},
         status' \in {"LOCKED", "SETTLED", "VOID", "FINALIZED"},
         winner' \in Winners, start_price' \in Int, settle_price' \in Int,
         used_pt' \in Nat, start_pt' \in Nat, ended_at' \in Nat
  PROVE  Basic'
BY DEF Basic, TypeOK, EscrowExact, Pristine, Staked, phase_frozen, money, clocks,
       Statuses

LEMMA BasicPrice ==
  ASSUME Basic, NEW t \in DOMAIN Feed, NEW p \in Feed[t],
         Activate(t, p) \/ Correct(t, p) \/ Resolve(t, p) \/ Finalize(t, p)
  PROVE  Basic'
<1>1. t \in Nat /\ p \in Int
  OBVIOUS
<1>2. /\ winner \in Winners /\ start_price \in Int /\ settle_price \in Int
      /\ used_pt \in Nat /\ start_pt \in Nat /\ ended_at \in Nat /\ header_time \in Nat
  BY DEF Basic, TypeOK
<1>3. winner_for(p, start_price) \in Winners
  BY DEF winner_for, Winners
<1>4. CASE ActivateLock(t, p)
  BY <1>1, <1>2, <1>4, BasicFrozen DEF ActivateLock, set_start_tick, Winners
<1>5. CASE ActivateVoid(t, p)
  BY <1>1, <1>2, <1>5, BasicFrozen DEF ActivateVoid, Winners
<1>6. CASE CorrectStart(t, p)
  BY <1>1, <1>2, <1>6, BasicFrozen DEF CorrectStart, set_start_tick, Winners
<1>7. CASE ResolveSettle(t, p)
  BY <1>1, <1>2, <1>3, <1>7, BasicFrozen DEF ResolveSettle, set_settle_tick, history
<1>8. CASE ResolveVoid(t, p)
  BY <1>1, <1>2, <1>8, BasicFrozen DEF ResolveVoid, Winners
<1>9. CASE CorrectSettle(t, p)
  BY <1>1, <1>2, <1>3, <1>9, BasicFrozen DEF CorrectSettle, set_settle_tick, history
<1>10. CASE Finalize(t, p)
  BY <1>1, <1>2, <1>10, BasicFrozen DEF Finalize
<1> QED
  BY <1>4, <1>5, <1>6, <1>7, <1>8, <1>9, <1>10 DEF Activate, Correct, Resolve

LEMMA RakeInRange ==
  ASSUME NEW n \in Nat, n <= RAKE_BPS_MAX
  PROVE  n \in 0 .. RAKE_BPS_MAX
<1>1. RAKE_BPS_MAX \in Int
  BY DEF RAKE_BPS_MAX
<1> QED
  BY <1>1

LEMMA BasicStep == Basic /\ [Next]_vars => Basic'
<1> SUFFICES ASSUME Basic, [Next]_vars
             PROVE  Basic'
  OBVIOUS
<1> USE DEF Basic, TypeOK, EscrowExact, Pristine, Staked
<1>1. ASSUME NEW c \in Configs, NEW seed \in SeedPts, Create(c, seed)
      PROVE  Basic'
  <2>1. /\ c.variant \in Variants /\ c.rake_bps \in 0 .. RAKE_BPS_MAX
        /\ c.start_time \in 0 .. MaxU64 /\ c.close_time \in 0 .. MaxU64
    <3>1. c.variant \in Variants /\ c.rake_bps \in Nat
      OBVIOUS
    <3>2. c.start_time \in 0 .. MaxU64 /\ c.close_time \in 0 .. MaxU64
      OBVIOUS
    <3>3. c.rake_bps <= RAKE_BPS_MAX
      BY <1>1 DEF Create, ValidConfig
    <3>4. c.rake_bps \in 0 .. RAKE_BPS_MAX
      BY <3>1, <3>3, RakeInRange
    <3> QED
      BY <3>1, <3>2, <3>4
  <2>2. status = "ABSENT" /\ status' = "OPEN" /\ config' = c /\ used_pt' \in Nat
    BY <1>1 DEF Create
  <2>3. UNCHANGED <<winner, total, start_price, settle_price, funds, supply, redeemed,
                    redeems, feed_time, header_time, start_pt, ended_at>>
    BY <1>1 DEF Create, money, clocks, history
  <2> QED
    BY <2>1, <2>2, <2>3 DEF Statuses
<1>2. ASSUME NEW up \in Amounts, NEW down \in Amounts, Deposit(up, down)
      PROVE  Basic'
  <2>1. up \in Nat /\ down \in Nat
    OBVIOUS
  <2>2. total' \in [Side -> Nat] /\ total'["UP"] = up /\ total'["DOWN"] = down
    BY <1>2, <2>1 DEF Deposit, PerSide, Side
  <2>3. supply' \in [Side -> Nat]
    BY <1>2, <2>1 DEF Deposit, shares_follow, PerSide, Side
  <2>4. funds' = up + down
    BY <1>2, <2>1 DEF Deposit, funds_follow, PerSide, Side
  <2> QED
    BY <1>2, <2>1, <2>2, <2>3, <2>4 DEF Deposit, clocks, history
<1>3. CASE PriceStep
  BY <1>3, BasicPrice DEF PriceStep
<1>4. ASSUME NEW burned \in [Side -> Nat], NEW amount \in Nat, Pay(burned, amount),
             status \in {"VOID", "FINALIZED"}
      PROVE  Basic'
  BY <1>4 DEF Pay, pool_data, clocks, history
<1>5. ASSUME NEW up \in Amounts, NEW down \in Amounts, RedeemRefund(up, down)
      PROVE  Basic'
  BY <1>4, <1>5 DEF RedeemRefund, Refunding, PerSide, Side
<1>6. ASSUME NEW x \in Amounts, RedeemWin(x)
      PROVE  Basic'
  <2>1. x \in Nat /\ Paying
    BY <1>6 DEF RedeemWin
  <2>2. WinnerTotal \in Nat \ {0} /\ LoserTotal \in Nat
    BY <1>6, <2>1 DEF RedeemWin, payout_fits, mul_div_fits, Paying, WinnerTotal,
       LoserTotal, Other, Side
  <2>3. payout(x, WinnerTotal, LoserTotal, config.rake_bps) \in Nat
    BY <2>1, <2>2, PayoutBounds
  <2> QED
    BY <1>4, <1>6, <2>1, <2>3 DEF RedeemWin, Paying, Side
<1>7. CASE Close
  BY <1>7 DEF Close, clocks, history, Statuses
<1>8. ASSUME NEW s \in Side, NEW x \in Amounts, BurnShares(s, x)
      PROVE  Basic'
  BY <1>8 DEF BurnShares, pool_data, clocks, history
<1>9. ASSUME NEW t \in DOMAIN Feed, AdvanceFeed(t)
      PROVE  Basic'
  BY <1>9 DEF AdvanceFeed, pool_data, money, history
<1>10. ASSUME NEW t \in HeaderTimes, AdvanceHeader(t)
       PROVE  Basic'
  BY <1>10 DEF AdvanceHeader, pool_data, money, history
<1>11. CASE UNCHANGED vars
  BY <1>11 DEF vars, pool_data, money, clocks, history
<1> QED
  BY <1>1, <1>2, <1>3, <1>5, <1>6, <1>7, <1>8, <1>9, <1>10, <1>11 DEF Next

(* The layers above may assume Basic of every state.                       *)
LEMMA BasicAlways == Spec => []Basic
BY BasicInit, BasicStep, PTL DEF Spec

(* TypeOK holds of every reachable state, whatever the feed and widths.    *)
THEOREM TypeCorrect == Spec => []TypeOK
<1>1. Basic => TypeOK
  BY DEF Basic
<1> QED
  BY <1>1, BasicAlways, PTL

(* Before a result the pool holds exactly what its totals say.             *)
THEOREM EscrowIsExact == Spec => []EscrowExact
<1>1. Basic => EscrowExact
  BY DEF Basic
<1> QED
  BY <1>1, BasicAlways, PTL

LEMMA PriceFreezes ==
  ASSUME PriceStep
  PROVE  phase_frozen /\ status \in {"OPEN", "LOCKED", "SETTLED"}
BY DEF PriceStep, Activate, Correct, Resolve, ActivateLock, ActivateVoid,
       CorrectStart, CorrectSettle, ResolveSettle, ResolveVoid, Finalize

(***************************************************************************)
(* Layer 2.  Shares are backed.  A deposit moves a side's supply and total *)
(* by the same amount, and nothing is redeemed while deposits are open.    *)
(***************************************************************************)
LEMMA BackedStep ==
  ASSUME Basic, SharesBacked, [Next]_vars
  PROVE  SharesBacked'
<1> USE DEF SharesBacked
<1>0. /\ supply \in [Side -> Nat] /\ redeemed \in [Side -> Nat]
      /\ total \in [Side -> Nat]
  BY DEF Basic, TypeOK
<1>1. ASSUME UNCHANGED <<total, supply, redeemed>>
      PROVE  SharesBacked'
  BY <1>1
<1>2. ASSUME NEW up \in Amounts, NEW down \in Amounts, Deposit(up, down)
      PROVE  SharesBacked'
  <2>1. \A s \in Side : redeemed[s] = 0 /\ redeemed' = redeemed
    BY <1>2 DEF Deposit, Basic, Pristine
  <2>2. \A s \in Side : PerSide(up, down)[s] \in Nat
    BY DEF PerSide
  <2> QED
    BY <1>0, <1>2, <2>1, <2>2 DEF Deposit, shares_follow
<1>3. ASSUME NEW burned, NEW amount, Pay(burned, amount),
             \A s \in Side : burned[s] \in Nat
      PROVE  SharesBacked'
  <2>1. /\ supply' = [s \in Side |-> supply[s] - burned[s]]
        /\ redeemed' = [s \in Side |-> redeemed[s] + burned[s]]
        /\ total' = total
    BY <1>3 DEF Pay, pool_data
  <2> QED
    BY <1>0, <1>3, <2>1
<1>4. ASSUME NEW s \in Side, NEW x \in Amounts, BurnShares(s, x)
      PROVE  SharesBacked'
  <2>1. x \in Nat /\ total' = total /\ redeemed' = redeemed
    BY <1>4 DEF BurnShares, pool_data
  <2>2. \A r \in Side : supply'[r] <= supply[r]
    BY <1>0, <1>4, <2>1 DEF BurnShares
  <2>3. supply' \in [Side -> Int]
    BY <1>0, <1>4, <2>1 DEF BurnShares
  <2> QED
    BY <1>0, <2>1, <2>2, <2>3
<1>5. ASSUME NEW c \in Configs, NEW seed \in SeedPts, Create(c, seed)
      PROVE  SharesBacked'
  BY <1>1, <1>5 DEF Create, money
<1>6. CASE PriceStep
  BY <1>1, <1>6, PriceFreezes DEF phase_frozen, money
<1>7. ASSUME NEW up \in Amounts, NEW down \in Amounts, RedeemRefund(up, down)
      PROVE  SharesBacked'
  BY <1>3, <1>7 DEF RedeemRefund, PerSide
<1>8. ASSUME NEW x \in Amounts, RedeemWin(x)
      PROVE  SharesBacked'
  BY <1>3, <1>8 DEF RedeemWin
<1>9. CASE Close
  BY <1>1, <1>9 DEF Close
<1>10. ASSUME NEW t \in DOMAIN Feed, AdvanceFeed(t)
       PROVE  SharesBacked'
  BY <1>1, <1>10 DEF AdvanceFeed, pool_data, money
<1>11. ASSUME NEW t \in HeaderTimes, AdvanceHeader(t)
       PROVE  SharesBacked'
  BY <1>1, <1>11 DEF AdvanceHeader, pool_data, money
<1>12. CASE UNCHANGED vars
  BY <1>1, <1>12 DEF vars, pool_data, money
<1> QED
  BY <1>2, <1>4, <1>5, <1>6, <1>7, <1>8, <1>9, <1>10, <1>11, <1>12 DEF Next

(* No share, circulating or redeemed, without a unit of its side's total.  *)
THEOREM SharesAreBacked == Spec => []SharesBacked
<1>1. Init => SharesBacked
  BY DEF Init, SharesBacked
<1> QED
  BY <1>1, BasicAlways, BackedStep, PTL DEF Spec

(***************************************************************************)
(* Layer 3.  A recorded price is a tick of its window, and names the       *)
(* winner.  The two-sidedness of a decided round and the feed time behind  *)
(* a FINALIZED one are needed by the layers above.                         *)
(***************************************************************************)
WinnerNamed ==
  /\ status \in {"ABSENT", "OPEN", "LOCKED"} => winner = "UNDECIDED"
  /\ status = "VOID" => winner = "VOID"
  /\ status = "FINALIZED" => feed_time >= void_time

Decided == PricesAreTicks /\ TwoSided /\ WinnerNamed

LEMMA DecidedInit == Init => Decided
BY DEF Init, Decided, PricesAreTicks, TwoSided, WinnerNamed

(* A step that leaves PoolData alone while the feed only grows keeps it.   *)
LEMMA DecidedFrame ==
  ASSUME Basic, Decided, feed_time' \in Nat, feed_time' >= feed_time,
         UNCHANGED <<pool_data, start_pt>>
  PROVE  Decided'
<1>1. void_time' = void_time
  BY DEF pool_data, void_time, duration
<1>2. feed_time \in Nat /\ used_pt \in Nat /\ start_pt \in Nat
  BY DEF Basic, TypeOK
<1>3. \A t, p, lo, hi : TickInBand(t, p, lo, hi) => TickInBand(t, p, lo, hi)'
  BY <1>2 DEF TickInBand, Shown
<1>4. void_time \in Int
  BY DEF Basic, TypeOK, void_time, duration, saturating_add, saturating_sub, grace,
     Clamp, GRACE_MIN_SECS, GRACE_MAX_SECS
<1>5. TwoSided' /\ WinnerNamed'
  BY <1>1, <1>2, <1>4 DEF Decided, TwoSided, WinnerNamed, OneSided, pool_data
<1>6. PricesAreTicks'
  BY <1>1, <1>3 DEF Decided, PricesAreTicks, pool_data
<1> QED
  BY <1>5, <1>6 DEF Decided

LEMMA DecidedPrice ==
  ASSUME Basic, Decided, NEW t \in DOMAIN Feed, NEW p \in Feed[t],
         Activate(t, p) \/ Correct(t, p) \/ Resolve(t, p) \/ Finalize(t, p)
  PROVE  Decided'
<1>1. phase_frozen
  BY PriceFreezes DEF PriceStep
<1>2. /\ UNCHANGED <<total, config, feed_time>>
      /\ void_time' = void_time /\ OneSided' = OneSided
  BY <1>1 DEF phase_frozen, clocks, void_time, duration, OneSided
<1>3. \A u, q, lo, hi : TickInBand(u, q, lo, hi)' <=> TickInBand(u, q, lo, hi)
  BY <1>2 DEF TickInBand, Shown
<1>4. /\ t \in Nat /\ feed_time \in Nat /\ used_pt \in Nat
      /\ config.start_time \in Nat /\ config.close_time \in Nat /\ void_time \in Int
  BY DEF Basic, TypeOK, void_time, duration, saturating_add, saturating_sub, grace,
     Clamp, GRACE_MIN_SECS, GRACE_MAX_SECS
<1> USE DEF Decided, PricesAreTicks, TwoSided, WinnerNamed
<1>5. CASE ActivateLock(t, p)
  BY <1>2, <1>3, <1>5 DEF ActivateLock, set_start_tick, TickInBand
<1>6. CASE ActivateVoid(t, p)
  BY <1>2, <1>6 DEF ActivateVoid
<1>7. CASE CorrectStart(t, p)
  <2>1. TickInBand(t, p, config.start_time, config.close_time)
    BY <1>4, <1>7 DEF CorrectStart, set_start_tick, TickInBand
  <2> QED
    BY <1>2, <1>3, <1>7, <2>1 DEF CorrectStart, set_start_tick
<1>8. CASE ResolveSettle(t, p)
  <2>1. TickInBand(t, p, config.close_time, void_time)
    BY <1>8 DEF ResolveSettle, set_settle_tick, TickInBand
  <2> QED
    BY <1>2, <1>3, <1>8, <2>1 DEF ResolveSettle, set_settle_tick, history
<1>9. CASE ResolveVoid(t, p)
  BY <1>2, <1>9 DEF ResolveVoid
<1>10. CASE CorrectSettle(t, p)
  <2>1. TickInBand(t, p, config.close_time, void_time)
    BY <1>4, <1>10 DEF CorrectSettle, set_settle_tick, TickInBand
  <2> QED
    BY <1>2, <1>3, <1>10, <2>1 DEF CorrectSettle, set_settle_tick, history
<1>11. CASE Finalize(t, p)
  BY <1>2, <1>3, <1>4, <1>11 DEF Finalize, window_over, Shown
<1> QED
  BY <1>5, <1>6, <1>7, <1>8, <1>9, <1>10, <1>11 DEF Activate, Correct, Resolve

LEMMA DecidedStep ==
  ASSUME Basic, Decided, [Next]_vars
  PROVE  Decided'
<1>0. feed_time \in Nat
  BY DEF Basic, TypeOK
<1>1. ASSUME status' \in {"OPEN", "CLOSED"}, status' = "OPEN" => winner' = "UNDECIDED"
      PROVE  Decided'
  BY <1>1 DEF Decided, PricesAreTicks, TwoSided, WinnerNamed
<1>2. ASSUME NEW c \in Configs, NEW seed \in SeedPts, Create(c, seed)
      PROVE  Decided'
  BY <1>1, <1>2 DEF Create, Decided, WinnerNamed
<1>3. ASSUME NEW up \in Amounts, NEW down \in Amounts, Deposit(up, down)
      PROVE  Decided'
  BY <1>1, <1>3 DEF Deposit, Decided, WinnerNamed
<1>4. CASE PriceStep
  BY <1>4, DecidedPrice DEF PriceStep
<1>5. ASSUME NEW burned, NEW amount, Pay(burned, amount)
      PROVE  Decided'
  BY <1>0, <1>5, DecidedFrame DEF Pay, clocks, history
<1>6. ASSUME NEW up \in Amounts, NEW down \in Amounts, RedeemRefund(up, down)
      PROVE  Decided'
  BY <1>5, <1>6 DEF RedeemRefund
<1>7. ASSUME NEW x \in Amounts, RedeemWin(x)
      PROVE  Decided'
  BY <1>5, <1>7 DEF RedeemWin
<1>8. CASE Close
  BY <1>1, <1>8 DEF Close
<1>9. ASSUME NEW s \in Side, NEW x \in Amounts, BurnShares(s, x)
      PROVE  Decided'
  BY <1>0, <1>9, DecidedFrame DEF BurnShares, clocks, history
<1>10. ASSUME NEW t \in DOMAIN Feed, AdvanceFeed(t)
       PROVE  Decided'
  <2>1. t \in Nat
    OBVIOUS
  <2> QED
    BY <1>0, <1>10, <2>1, DecidedFrame DEF AdvanceFeed, history
<1>11. ASSUME NEW t \in HeaderTimes, AdvanceHeader(t)
       PROVE  Decided'
  BY <1>0, <1>11, DecidedFrame DEF AdvanceHeader, history
<1>12. CASE UNCHANGED vars
  BY <1>0, <1>12, DecidedFrame DEF vars, clocks, history
<1> QED
  BY <1>2, <1>3, <1>4, <1>6, <1>7, <1>8, <1>9, <1>10, <1>11, <1>12 DEF Next

LEMMA DecidedAlways == Spec => [](Basic /\ Decided)
BY BasicInit, BasicStep, DecidedInit, DecidedStep, PTL DEF Spec

(* Every recorded price is an authentic tick of its own window, and the    *)
(* winner is what the two recorded prices say.                             *)
THEOREM PricesAreAuthentic == Spec => []PricesAreTicks
<1>1. Decided => PricesAreTicks
  BY DEF Decided
<1> QED
  BY <1>1, DecidedAlways, PTL

(* No winner is paid before a tick has proved the contest window over.     *)
THEOREM PaidOnlyAfterContest == Spec => []PaidAfterContest
<1>1. Decided => PaidAfterContest
  BY DEF Decided, WinnerNamed, PaidAfterContest, Paying
<1> QED
  BY <1>1, DecidedAlways, PTL

(***************************************************************************)
(* Layer 4.  The pool can pay.  On top of the layers below: a refund pays  *)
(* what it burns, and a win takes from the funds what it takes from the    *)
(* claims, up to the unit that rounding two claims apart may leave.        *)
(***************************************************************************)
Paid == Solvent /\ DustBounded /\ RefundExact

(* In a refunded pool solvency is the exactness of refunds.                *)
LEMMA RefundSolvent ==
  ASSUME Basic, SharesBacked, RefundExact, Refunding
  PROVE  Paid
<1>1. /\ supply["UP"] + redeemed["UP"] <= total["UP"]
      /\ supply["DOWN"] + redeemed["DOWN"] <= total["DOWN"]
  BY DEF SharesBacked, Side
<1>2. /\ supply["UP"] \in Nat /\ redeemed["UP"] \in Nat /\ total["UP"] \in Nat
      /\ supply["DOWN"] \in Nat /\ redeemed["DOWN"] \in Nat /\ total["DOWN"] \in Nat
  BY DEF Basic, TypeOK, Side
<1>3. ~Paying
  BY DEF Refunding, Paying, Side
<1>4. funds = total["UP"] + total["DOWN"] - redeemed["UP"] - redeemed["DOWN"]
  BY <1>2 DEF RefundExact, Staked
<1> QED
  BY <1>1, <1>2, <1>3, <1>4
  DEF Paid, Solvent, DustBounded, RefundExact, Claims, RakeDue, Staked

(* What the arithmetic of a paying pool is applied to.                     *)
PayingFacts ==
  /\ winner \in Side
  /\ WinnerTotal \in Nat \ {0} /\ LoserTotal \in Nat
  /\ config.rake_bps \in 0 .. RAKE_BPS_MAX
  /\ funds \in Nat /\ redeems \in Nat
  /\ supply[winner] \in Nat /\ redeemed[winner] \in Nat
  /\ supply[winner] + redeemed[winner] <= WinnerTotal
  /\ Forfeited(winner) \in Nat
  /\ RakeDue = rake(LoserTotal, config.rake_bps) /\ RakeDue \in Nat
  /\ Claims = payout(supply[winner], WinnerTotal, LoserTotal, config.rake_bps)
  /\ ~Refunding

LEMMA PayingArguments ==
  ASSUME Basic, SharesBacked, Decided, Paying
  PROVE  PayingFacts
<1>1. winner \in Side /\ status = "FINALIZED" /\ winner # "VOID"
  BY DEF Paying, Side
<1>2. /\ WinnerTotal \in Nat /\ LoserTotal \in Nat /\ redeems \in Nat /\ funds \in Nat
      /\ supply[winner] \in Nat /\ redeemed[winner] \in Nat
      /\ config.rake_bps \in 0 .. RAKE_BPS_MAX
  BY <1>1 DEF Basic, TypeOK, WinnerTotal, LoserTotal, Other, Side
<1>3. WinnerTotal # 0
  BY <1>1 DEF Decided, TwoSided, OneSided, WinnerTotal, Side
<1>4. supply[winner] + redeemed[winner] <= WinnerTotal
  BY <1>1 DEF SharesBacked, WinnerTotal
<1>5. Forfeited(winner) \in Nat
  BY <1>2, <1>4 DEF Forfeited, WinnerTotal
<1>6. RakeDue = rake(LoserTotal, config.rake_bps) /\ RakeDue \in Nat
  BY <1>2, RakeBounds DEF RakeDue
<1>7. ~Refunding
  BY <1>1 DEF Refunding
<1> QED
  BY <1>1, <1>2, <1>3, <1>4, <1>5, <1>6, <1>7 DEF Claims, PayingFacts

(* FINALIZE: the whole pool is there, and the claims are at most all of    *)
(* the winning side.                                                       *)
LEMMA PaidFinalize ==
  ASSUME Basic, SharesBacked, Decided, Basic', SharesBacked', Decided',
         NEW t, NEW p, Finalize(t, p)
  PROVE  Paid'
<1>1. /\ status = "SETTLED" /\ status' = "FINALIZED"
      /\ UNCHANGED <<total, funds, supply, redeemed, redeems, config, winner>>
  BY DEF Finalize, phase_frozen, money
<1>2. /\ total["UP"] \in Nat /\ total["DOWN"] \in Nat
      /\ redeems = 0 /\ redeemed["UP"] = 0 /\ redeemed["DOWN"] = 0
      /\ funds = total["UP"] + total["DOWN"]
  BY <1>1 DEF Basic, TypeOK, Pristine, EscrowExact, Staked, Side
<1>3. CASE Refunding'
  <2>1. RefundExact'
    BY <1>1, <1>2 DEF RefundExact, Staked
  <2>2. Basic' /\ SharesBacked' /\ RefundExact' /\ Refunding' => Paid'
    BY RefundSolvent, PTL
  <2> QED
    BY <1>3, <2>1, <2>2
<1>4. CASE Paying'
  <2> DEFINE w == WinnerTotal'
             l == LoserTotal'
             bps == config.rake_bps'
             s == supply[winner]'
  <2>1. PayingFacts'
    <3>1. Basic' /\ SharesBacked' /\ Decided' /\ Paying' => PayingFacts'
      BY PayingArguments, PTL
    <3> QED
      BY <1>4, <3>1
  <2>2. /\ winner' \in Side /\ w \in Nat \ {0} /\ l \in Nat
        /\ bps \in 0 .. RAKE_BPS_MAX /\ s \in Nat /\ s <= w
        /\ Claims' = payout(s, w, l, bps) /\ ~Refunding'
    BY <1>1, <1>2, <2>1 DEF PayingFacts, Side
  <2>3. funds' = w + l
    BY <1>1, <1>2, <2>2 DEF WinnerTotal, LoserTotal, Other, Side
  <2>4. RakeDue' = rake(l, bps)
    BY <2>1 DEF PayingFacts
  <2>5. Forfeited(winner)' = w - s
    BY <1>1, <1>2, <2>2 DEF Forfeited, WinnerTotal, Side
  <2> HIDE DEF w, l, bps, s
  <2>6. payout(w, w, l, bps) = w + l - rake(l, bps) /\ rake(l, bps) \in Nat
    BY <2>2, PayoutWhole, RakeBounds
  <2>7. payout(s, w, l, bps) <= payout(w, w, l, bps)
    <3>1. w - s \in Nat /\ s + (w - s) = w
      BY <2>2
    <3>2. /\ payout(s, w, l, bps) \in Nat
          /\ payout(w - s, w, l, bps) \in Nat
          /\ payout(w, w, l, bps) \in Nat
      BY <2>2, <3>1, PayoutBounds
    <3>3. payout(s, w, l, bps) + payout(w - s, w, l, bps) <= payout(s + (w - s), w, l, bps)
      BY <2>2, <3>1, PayoutSplit
    <3> QED
      BY <3>1, <3>2, <3>3
  <2>8. funds' >= Claims' + RakeDue'
    <3>1. payout(s, w, l, bps) \in Nat /\ payout(w, w, l, bps) \in Nat
      BY <2>2, PayoutBounds
    <3> QED
      BY <2>2, <2>3, <2>4, <2>6, <2>7, <3>1
  <2>9. Forfeited(winner)' = 0 => funds' <= Claims' + RakeDue'
    BY <2>2, <2>3, <2>4, <2>5, <2>6
  <2>10. Claims' \in Nat /\ RakeDue' \in Nat /\ funds' \in Nat /\ redeems' = 0
    <3>1. payout(s, w, l, bps) \in Nat
      BY <2>2, PayoutBounds
    <3> QED
      BY <1>1, <1>2, <2>2, <2>3, <2>4, <2>6, <3>1
  <2> QED
    BY <2>2, <2>8, <2>9, <2>10 DEF Paid, Solvent, DustBounded, RefundExact
<1> QED
  <2>1. Decided' => (status' = "FINALIZED" => winner' \in Side \cup {"VOID"})
    BY DEF Decided, PricesAreTicks, winner_for, Side
  <2> QED
    BY <1>1, <1>3, <1>4, <2>1 DEF Refunding, Paying

(* A step into VOID: nothing has been redeemed and the escrow is exact.    *)
LEMMA PaidVoid ==
  ASSUME Basic, Basic', SharesBacked', phase_frozen,
         status \in {"OPEN", "LOCKED"}, status' = "VOID"
  PROVE  Paid'
<1>1. /\ total["UP"] \in Nat /\ total["DOWN"] \in Nat
      /\ redeemed["UP"] = 0 /\ redeemed["DOWN"] = 0
      /\ funds = total["UP"] + total["DOWN"]
  BY DEF Basic, TypeOK, Pristine, EscrowExact, Staked, Side
<1>2. UNCHANGED <<total, funds, redeemed>>
  BY DEF phase_frozen, money
<1>3. RefundExact' /\ Refunding'
  BY <1>1, <1>2 DEF RefundExact, Refunding, Staked
<1>4. Basic' /\ SharesBacked' /\ RefundExact' /\ Refunding' => Paid'
  BY RefundSolvent, PTL
<1> QED
  BY <1>3, <1>4

LEMMA PaidRefund ==
  ASSUME Basic, Paid, Basic', SharesBacked',
         NEW up \in Amounts, NEW down \in Amounts, RedeemRefund(up, down)
  PROVE  Paid'
<1>1. /\ total["UP"] \in Nat /\ total["DOWN"] \in Nat /\ funds \in Nat
      /\ redeemed["UP"] \in Nat /\ redeemed["DOWN"] \in Nat
      /\ up \in Nat /\ down \in Nat
  BY DEF Basic, TypeOK, Side
<1>2. /\ Refunding /\ UNCHANGED <<status, winner, total>>
      /\ funds' = funds - (up + down)
      /\ redeemed'["UP"] = redeemed["UP"] + up
      /\ redeemed'["DOWN"] = redeemed["DOWN"] + down
  BY DEF RedeemRefund, Pay, PerSide, Side, pool_data
<1>3. RefundExact' /\ Refunding'
  BY <1>1, <1>2 DEF RefundExact, Refunding, Staked, Paid
<1>4. Basic' /\ SharesBacked' /\ RefundExact' /\ Refunding' => Paid'
  BY RefundSolvent, PTL
<1> QED
  BY <1>3, <1>4

(* A win splits the claims in two: what is paid and what remains.          *)
LEMMA PaidWin ==
  ASSUME Basic, SharesBacked, Decided, Paid, Basic', SharesBacked', Decided',
         NEW x \in Amounts, RedeemWin(x)
  PROVE  Paid'
<1> DEFINE w == WinnerTotal
           l == LoserTotal
           bps == config.rake_bps
           s == supply[winner]
<1>1. Paying /\ x \in Nat /\ UNCHANGED <<status, winner, total, config>>
  BY DEF RedeemWin, Pay, pool_data
<1>2. PayingFacts
  BY <1>1, PayingArguments
<1>3. Paying'
  BY <1>1 DEF Paying
<1>4. PayingFacts'
  <2>1. Basic' /\ SharesBacked' /\ Decided' /\ Paying' => PayingFacts'
    BY PayingArguments, PTL
  <2> QED
    BY <1>3, <2>1
<1>5. x <= s /\ supply'[winner] = s - x /\ redeemed'[winner] = redeemed[winner] + x
      /\ redeems' = redeems + 1 /\ funds' = funds - payout(x, w, l, bps)
  BY <1>2 DEF RedeemWin, Pay, PayingFacts
<1>6. /\ w \in Nat \ {0} /\ l \in Nat /\ bps \in 0 .. RAKE_BPS_MAX /\ s \in Nat
      /\ s - x \in Nat /\ s = x + (s - x)
  BY <1>1, <1>2, <1>5 DEF PayingFacts
<1>7. /\ Claims = payout(s, w, l, bps) /\ Claims' = payout(s - x, w, l, bps)
      /\ RakeDue' = RakeDue /\ RakeDue \in Nat /\ funds \in Nat /\ redeems \in Nat
  BY <1>1, <1>2, <1>4, <1>5 DEF PayingFacts, WinnerTotal, LoserTotal
<1>8. Forfeited(winner)' = Forfeited(winner)
  BY <1>1, <1>2, <1>5, <1>6 DEF Forfeited, WinnerTotal, PayingFacts
<1>9. funds >= Claims + RakeDue
      /\ (Forfeited(winner) = 0 => funds <= Claims + RakeDue + redeems)
  BY <1>1 DEF Paid, Solvent, DustBounded, Paying
<1> HIDE DEF w, l, bps, s
<1>10. /\ payout(x, w, l, bps) \in Nat /\ payout(s, w, l, bps) \in Nat
       /\ payout(s - x, w, l, bps) \in Nat
  BY <1>1, <1>6, PayoutBounds
<1>11. /\ payout(x, w, l, bps) + payout(s - x, w, l, bps) <= payout(s, w, l, bps)
       /\ payout(s, w, l, bps) <= payout(x, w, l, bps) + payout(s - x, w, l, bps) + 1
  <2>1. LET both == payout(x + (s - x), w, l, bps)
            apart == payout(x, w, l, bps) + payout(s - x, w, l, bps)
        IN  apart <= both /\ both <= apart + 1
    BY <1>1, <1>6, PayoutSplit
  <2> QED
    BY <1>6, <2>1
<1>12. funds' >= Claims' + RakeDue'
  BY <1>5, <1>7, <1>9, <1>10, <1>11
<1>13. Forfeited(winner)' = 0 => funds' <= Claims' + RakeDue' + redeems'
  BY <1>5, <1>7, <1>8, <1>9, <1>10, <1>11
<1> QED
  BY <1>4, <1>12, <1>13 DEF Paid, Solvent, DustBounded, RefundExact, PayingFacts

(* What can only shrink and is at least nothing stays at nothing.          *)
LEMMA NothingLeft ==
  ASSUME NEW w \in Nat, NEW s \in Nat, NEW s2 \in Nat, NEW r \in Nat,
         s - s2 \in Nat, w - s - r \in Nat, w - s2 - r = 0
  PROVE  s2 = s /\ w - s - r = 0
OBVIOUS

(* A burn can only shrink the claims, and never makes a forfeit vanish.    *)
LEMMA PaidBurn ==
  ASSUME Basic, SharesBacked, Decided, Paid, Basic', SharesBacked', Decided',
         NEW r \in Side, NEW x \in Amounts, BurnShares(r, x)
  PROVE  Paid'
<1>1. /\ x \in Nat \ {0}
      /\ UNCHANGED <<status, winner, total, config, funds, redeemed, redeems>>
  BY DEF BurnShares, pool_data
<1>2. CASE Refunding
  <2>1. RefundExact' /\ Refunding'
    BY <1>1, <1>2 DEF Paid, RefundExact, Refunding, Staked
  <2>2. Basic' /\ SharesBacked' /\ RefundExact' /\ Refunding' => Paid'
    BY RefundSolvent, PTL
  <2> QED
    BY <2>1, <2>2
<1>3. CASE Paying
  <2> DEFINE w == WinnerTotal
             l == LoserTotal
             bps == config.rake_bps
             s == supply[winner]
             s2 == supply'[winner]
  <2>1. PayingFacts
    BY <1>3, PayingArguments
  <2>2. PayingFacts'
    <3>1. Basic' /\ SharesBacked' /\ Decided' /\ Paying' => PayingFacts'
      BY PayingArguments, PTL
    <3>2. Paying'
      BY <1>1, <1>3 DEF Paying
    <3> QED
      BY <3>1, <3>2
  <2>3. /\ w \in Nat \ {0} /\ l \in Nat /\ bps \in 0 .. RAKE_BPS_MAX
        /\ s \in Nat /\ s2 \in Nat /\ s - s2 \in Nat /\ s = s2 + (s - s2)
        /\ s2 = s \/ s2 = s - x
    <3>1. supply \in [Side -> Nat]
      BY DEF Basic, TypeOK
    <3>2. s2 = s \/ s2 = s - x
      BY <2>1, <3>1 DEF BurnShares, PayingFacts
    <3> QED
      BY <1>1, <2>1, <2>2, <3>2 DEF PayingFacts
  <2>4. /\ Claims = payout(s, w, l, bps) /\ Claims' = payout(s2, w, l, bps)
        /\ RakeDue' = RakeDue /\ RakeDue \in Nat /\ funds \in Nat /\ redeems \in Nat
    BY <1>1, <2>1, <2>2 DEF PayingFacts, WinnerTotal, LoserTotal
  <2>5. Forfeited(winner)' = 0 => s2 = s /\ Forfeited(winner) = 0
    <3>1. Forfeited(winner) = w - s - redeemed[winner] /\ Forfeited(winner) \in Nat
      BY <2>1 DEF Forfeited, WinnerTotal, PayingFacts
    <3>2. Forfeited(winner)' = w - s2 - redeemed[winner] /\ redeemed[winner] \in Nat
      BY <1>1, <2>1 DEF Forfeited, WinnerTotal, PayingFacts
    <3> HIDE DEF w, s, s2
    <3>3. w \in Nat /\ s \in Nat /\ s2 \in Nat /\ s - s2 \in Nat
      BY <2>3
    <3> SUFFICES ASSUME Forfeited(winner)' = 0
                 PROVE  s2 = s /\ Forfeited(winner) = 0
      OBVIOUS
    <3>4. s2 = s /\ w - s - redeemed[winner] = 0
      BY <3>1, <3>2, <3>3, NothingLeft
    <3> QED
      BY <3>1, <3>4
  <2>6. funds >= Claims + RakeDue
        /\ (Forfeited(winner) = 0 => funds <= Claims + RakeDue + redeems)
    BY <1>3 DEF Paid, Solvent, DustBounded, Paying
  <2> HIDE DEF w, l, bps, s, s2
  <2>7. payout(s2, w, l, bps) \in Nat /\ payout(s, w, l, bps) \in Nat
        /\ payout(s2, w, l, bps) <= payout(s, w, l, bps)
    <3>1. /\ payout(s, w, l, bps) \in Nat /\ payout(s2, w, l, bps) \in Nat
          /\ payout(s - s2, w, l, bps) \in Nat
      BY <2>3, PayoutBounds
    <3>2. LET both == payout(s2 + (s - s2), w, l, bps)
              apart == payout(s2, w, l, bps) + payout(s - s2, w, l, bps)
          IN  apart <= both /\ both <= apart + 1
      BY <2>3, PayoutSplit
    <3> QED
      BY <2>3, <3>1, <3>2
  <2>8. funds' >= Claims' + RakeDue'
    BY <1>1, <2>4, <2>6, <2>7
  <2>9. Forfeited(winner)' = 0 => funds' <= Claims' + RakeDue' + redeems'
    BY <1>1, <2>4, <2>5, <2>6
  <2> QED
    BY <2>2, <2>8, <2>9 DEF Paid, Solvent, DustBounded, RefundExact, PayingFacts
<1>4. CASE ~Refunding /\ ~Paying
  <2>1. status \notin {"VOID", "FINALIZED"}
    BY <1>4 DEF Refunding, Paying, Decided, PricesAreTicks, winner_for, Side
  <2> QED
    BY <1>1, <2>1 DEF Paid, Solvent, DustBounded, RefundExact, Refunding, Paying
<1> QED
  BY <1>2, <1>3, <1>4

LEMMA PaidStep ==
  ASSUME Basic, SharesBacked, Decided, Paid, Basic', SharesBacked', Decided',
         [Next]_vars
  PROVE  Paid'
<1>1. ASSUME status' \notin {"VOID", "FINALIZED"}
      PROVE  Paid'
  BY <1>1 DEF Paid, Solvent, DustBounded, RefundExact, Refunding, Paying
<1>2. ASSUME UNCHANGED <<status, winner, total, config, money>>
      PROVE  Paid'
  <2>1. /\ Refunding' = Refunding /\ Paying' = Paying /\ Staked' = Staked
        /\ Claims' = Claims /\ RakeDue' = RakeDue
        /\ Forfeited(winner)' = Forfeited(winner)
    BY <1>2 DEF money, Refunding, Paying, Staked, Claims, RakeDue, Forfeited,
       WinnerTotal, LoserTotal
  <2> QED
    BY <1>2, <2>1 DEF Paid, Solvent, DustBounded, RefundExact, money
<1>3. ASSUME NEW c \in Configs, NEW seed \in SeedPts, Create(c, seed)
      PROVE  Paid'
  BY <1>1, <1>3 DEF Create
<1>4. ASSUME NEW up \in Amounts, NEW down \in Amounts, Deposit(up, down)
      PROVE  Paid'
  BY <1>1, <1>4 DEF Deposit
<1>5. CASE PriceStep
  <2> SUFFICES ASSUME NEW t \in DOMAIN Feed, NEW p \in Feed[t],
                      Activate(t, p) \/ Correct(t, p) \/ Resolve(t, p) \/ Finalize(t, p)
               PROVE  Paid'
    BY <1>5 DEF PriceStep
  <2>1. phase_frozen
    BY <1>5, PriceFreezes
  <2>2. CASE ActivateVoid(t, p) \/ ResolveVoid(t, p)
    BY <2>1, <2>2, PaidVoid DEF ActivateVoid, ResolveVoid
  <2>3. CASE Finalize(t, p)
    BY <2>3, PaidFinalize
  <2>4. CASE ActivateLock(t, p) \/ Correct(t, p) \/ ResolveSettle(t, p)
    BY <1>1, <2>4 DEF ActivateLock, Correct, CorrectStart, CorrectSettle, ResolveSettle
  <2> QED
    BY <2>2, <2>3, <2>4 DEF Activate, Resolve
<1>6. ASSUME NEW up \in Amounts, NEW down \in Amounts, RedeemRefund(up, down)
      PROVE  Paid'
  BY <1>6, PaidRefund
<1>7. ASSUME NEW x \in Amounts, RedeemWin(x)
      PROVE  Paid'
  BY <1>7, PaidWin
<1>8. CASE Close
  BY <1>1, <1>8 DEF Close
<1>9. ASSUME NEW s \in Side, NEW x \in Amounts, BurnShares(s, x)
      PROVE  Paid'
  BY <1>9, PaidBurn
<1>10. CASE \/ \E t \in DOMAIN Feed : AdvanceFeed(t)
            \/ \E t \in HeaderTimes : AdvanceHeader(t)
            \/ UNCHANGED vars
  BY <1>2, <1>10 DEF AdvanceFeed, AdvanceHeader, vars, pool_data
<1> QED
  BY <1>3, <1>4, <1>5, <1>6, <1>7, <1>8, <1>9, <1>10 DEF Next

(***************************************************************************)
(* The inductive invariant of the whole pool.                              *)
(***************************************************************************)
IInv == Basic /\ SharesBacked /\ Decided /\ Paid

LEMMA IInvInit == Init => IInv
<1>1. Init => SharesBacked
  BY DEF Init, SharesBacked
<1>2. Init => Paid
  BY DEF Init, Paid, Solvent, DustBounded, RefundExact, Refunding, Paying
<1> QED
  BY <1>1, <1>2, BasicInit, DecidedInit DEF IInv

LEMMA IInvStep == IInv /\ [Next]_vars => IInv'
BY BasicStep, BackedStep, DecidedStep, PaidStep DEF IInv

LEMMA IInvAlways == Spec => []IInv
BY IInvInit, IInvStep, PTL DEF Spec

(* A pool that pays can pay every claim and the rake, for any totals, any  *)
(* widths, and any sequence of partial redemptions and burns.              *)
THEOREM PoolIsSolvent == Spec => []Solvent
<1>1. IInv => Solvent
  BY DEF IInv, Paid
<1> QED
  BY <1>1, IInvAlways, PTL

(* Rounding costs the winners at most one unit per redemption.             *)
THEOREM DustIsBounded == Spec => []DustBounded
<1>1. IInv => DustBounded
  BY DEF IInv, Paid
<1> QED
  BY <1>1, IInvAlways, PTL

(* Refunds return the burned stake, no more and no less.                   *)
THEOREM RefundsAreExact == Spec => []RefundExact
<1>1. IInv => RefundExact
  BY DEF IInv, Paid
<1> QED
  BY <1>1, IInvAlways, PTL
(***************************************************************************)
(* Redeemability.  The rule's checked products must fit in u128: of the    *)
(* losing side with the rake, and of a claim with what is distributed.     *)
(* The contract bounds neither total, so that is a condition on the asset: *)
(* amounts below 2^64, as all of CKB's are, satisfy it.                    *)
(***************************************************************************)
ProductsFit ==
  \A a, b \in Amounts : a * b <= MaxU128 /\ a * RAKE_BPS_MAX <= MaxU128

TotalsTaken == \A s \in Side : total[s] \in Amounts \cup {0}

LEMMA TotalsTakenAlways == Spec => []TotalsTaken
<1>1. Init => TotalsTaken
  BY DEF Init, TotalsTaken
<1>2. TotalsTaken /\ [Next]_vars => TotalsTaken'
  <2> SUFFICES ASSUME TotalsTaken, [Next]_vars
               PROVE  TotalsTaken'
    OBVIOUS
  <2>1. ASSUME NEW up \in Amounts, NEW down \in Amounts, Deposit(up, down)
        PROVE  TotalsTaken'
    BY <2>1 DEF Deposit, PerSide, TotalsTaken
  <2>2. ASSUME UNCHANGED total
        PROVE  TotalsTaken'
    BY <2>2 DEF TotalsTaken
  <2>3. CASE PriceStep
    BY <2>2, <2>3, PriceFreezes DEF phase_frozen
  <2>4. CASE \/ \E c \in Configs, seed \in SeedPts : Create(c, seed)
             \/ \E up, down \in Amounts : RedeemRefund(up, down)
             \/ \E x \in Amounts : RedeemWin(x)
             \/ Close
             \/ \E s \in Side, x \in Amounts : BurnShares(s, x)
             \/ \E t \in DOMAIN Feed : AdvanceFeed(t)
             \/ \E t \in HeaderTimes : AdvanceHeader(t)
             \/ UNCHANGED vars
    BY <2>2, <2>4 DEF Create, RedeemRefund, RedeemWin, Pay, Close, BurnShares,
       AdvanceFeed, AdvanceHeader, vars, pool_data
  <2> QED
    BY <2>1, <2>3, <2>4 DEF Next
<1> QED
  BY <1>1, <1>2, PTL DEF Spec

(* A product of smaller factors is no larger.                              *)
LEMMA MulMonotone ==
  ASSUME NEW a \in Nat, NEW b \in Nat, NEW c \in Nat, NEW d \in Nat,
         a <= c, b <= d
  PROVE  a * b <= c * d
<1>1. a * b <= c * b
  OBVIOUS
<1>2. c * b <= c * d
  OBVIOUS
<1>3. a * b \in Nat /\ c * b \in Nat /\ c * d \in Nat
  BY MulNat
<1> QED
  BY <1>1, <1>2, <1>3

(* A part of a claim is paid no more than the whole of it.                 *)
LEMMA PayoutMonotone ==
  ASSUME NEW w \in Nat \ {0}, NEW l \in Nat, NEW bps \in 0 .. RAKE_BPS_MAX,
         NEW x \in Nat, NEW y \in Nat, x <= y
  PROVE  payout(x, w, l, bps) <= payout(y, w, l, bps)
<1>1. y - x \in Nat /\ y = x + (y - x)
  OBVIOUS
<1>2. /\ payout(x, w, l, bps) \in Nat /\ payout(y, w, l, bps) \in Nat
      /\ payout(y - x, w, l, bps) \in Nat
  BY <1>1, PayoutBounds
<1>3. LET both == payout(x + (y - x), w, l, bps)
          apart == payout(x, w, l, bps) + payout(y - x, w, l, bps)
      IN  apart <= both /\ both <= apart + 1
  BY <1>1, PayoutSplit
<1> QED
  BY <1>1, <1>2, <1>3

(* Neither product of the payout overflows, for any part of the winning    *)
(* side's circulating shares.                                              *)
LEMMA PayoutFits ==
  ASSUME ProductsFit, TotalsTaken, PayingFacts, NEW x \in 1 .. supply[winner]
  PROVE  payout_fits(x, WinnerTotal, LoserTotal, config.rake_bps)
<1> DEFINE w == WinnerTotal
           l == LoserTotal
           bps == config.rake_bps
           d == distributable(l, bps)
<1>1. /\ w \in Nat \ {0} /\ l \in Nat /\ bps \in 0 .. RAKE_BPS_MAX
      /\ x \in Nat /\ x <= w
  BY DEF PayingFacts
<1>2. d \in Nat /\ d <= l
  BY <1>1, RakeBounds
<1>3. w \in Amounts /\ l \in Amounts \cup {0}
  <2>1. winner \in Side /\ Other(winner) \in Side
    BY DEF PayingFacts, Other, Side
  <2> QED
    BY <1>1, <2>1 DEF TotalsTaken, WinnerTotal, LoserTotal
<1>0. RAKE_BPS_MAX \in Nat
  BY DEF RAKE_BPS_MAX
<1> HIDE DEF w, l, bps, d
<1>4. l * RAKE_BPS_MAX <= MaxU128 /\ w * l <= MaxU128
  <2>1. CASE l \in Amounts
    BY <1>3, <2>1 DEF ProductsFit
  <2>2. CASE l = 0
    <3>1. 0 * RAKE_BPS_MAX = 0
      BY <1>0
    <3>2. w * 0 = 0
      BY <1>1
    <3>3. MaxU128 >= 0
      BY WidthAssumption
    <3> QED
      BY <2>2, <3>1, <3>2, <3>3
  <2> QED
    BY <1>3, <2>1, <2>2
<1>5. l * bps <= MaxU128
  <2>1. bps \in Nat /\ bps <= RAKE_BPS_MAX
    BY <1>0, <1>1
  <2>2. l * bps <= l * RAKE_BPS_MAX
    BY <1>0, <1>1, <2>1, MulMonotone
  <2>3. l * bps \in Nat /\ l * RAKE_BPS_MAX \in Nat
    BY <1>0, <1>1, <2>1, MulNat
  <2> QED
    BY <1>4, <2>2, <2>3
<1>6. x * d <= MaxU128
  <2>1. x * d <= w * l /\ x * d \in Nat /\ w * l \in Nat
    BY <1>1, <1>2, MulMonotone, MulNat
  <2> QED
    BY <1>4, <2>1
<1>7. mul_div_fits(l, bps, RAKE_BPS_MAX) /\ mul_div_fits(x, d, w)
  BY <1>1, <1>5, <1>6 DEF mul_div_fits, RAKE_BPS_MAX
<1> QED
  BY <1>7 DEF payout_fits, w, l, bps, d

(* Whoever redeemed before and in what pieces, any part of a winning stake *)
(* can be redeemed now: the rule neither overflows nor runs dry.           *)
THEOREM ClaimsAreRedeemable == ProductsFit => (Spec => []ClaimsRedeemable)
<1>1. ASSUME ProductsFit, IInv, TotalsTaken
      PROVE  ClaimsRedeemable
  <2> SUFFICES ASSUME Paying, NEW x \in Amounts \cap 1 .. supply[winner]
               PROVE  /\ payout_fits(x, WinnerTotal, LoserTotal, config.rake_bps)
                      /\ payout(x, WinnerTotal, LoserTotal, config.rake_bps) <= funds
    BY DEF ClaimsRedeemable
  <2>1. PayingFacts
    BY <1>1, PayingArguments DEF IInv
  <2>2. payout_fits(x, WinnerTotal, LoserTotal, config.rake_bps)
    BY <1>1, <2>1, PayoutFits
  <2>3. payout(x, WinnerTotal, LoserTotal, config.rake_bps) <= Claims
    BY <2>1, PayoutMonotone DEF PayingFacts
  <2>4. Claims + RakeDue <= funds
    BY <1>1 DEF IInv, Paid, Solvent, Paying
  <2>5. /\ payout(x, WinnerTotal, LoserTotal, config.rake_bps) \in Nat
        /\ Claims \in Nat /\ RakeDue \in Nat /\ funds \in Nat
    BY <2>1, PayoutBounds DEF PayingFacts
  <2> QED
    BY <2>2, <2>3, <2>4, <2>5
<1> SUFFICES ASSUME ProductsFit
             PROVE  Spec => []ClaimsRedeemable
  OBVIOUS
<1>2. IInv /\ TotalsTaken => ClaimsRedeemable
  BY <1>1
<1> QED
  BY <1>2, IInvAlways, TotalsTakenAlways, PTL
=============================================================================
