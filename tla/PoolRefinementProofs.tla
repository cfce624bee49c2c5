------------------------ MODULE PoolRefinementProofs ------------------------
(***************************************************************************)
(* What no step of the pool may do, and that the pool implements its       *)
(* abstract promise Parimutuel, for every feed, configuration and width.   *)
(* Everything rests on the inductive invariant IInv of PoolProofs.         *)
(***************************************************************************)
EXTENDS PoolProofs

(***************************************************************************)
(* Action properties.                                                      *)
(***************************************************************************)
LEMMA LatchHolds == [Next]_vars => LatchStep
<1> SUFFICES ASSUME [Next]_vars, status \in {"FINALIZED", "VOID", "CLOSED"}
             PROVE  /\ status' \in {status, "CLOSED"}
                    /\ UNCHANGED <<winner, total, start_price, settle_price,
                                   used_pt, config>>
  BY DEF LatchStep
<1>1. ~PriceStep
  BY PriceFreezes
<1> QED
  BY <1>1 DEF Next, Create, Deposit, RedeemRefund, RedeemWin, Pay, Close, BurnShares,
     AdvanceFeed, AdvanceHeader, vars, pool_data

(* A latched result never changes, and no latched pool reopens.            *)
THEOREM ResultsLatch == Spec => ResultLatched
BY LatchHolds, PTL DEF Spec, ResultLatched

LEMMA ContestHolds == [Next]_vars => ContestStep
<1> SUFFICES ASSUME [Next]_vars, status \in {"LOCKED", "SETTLED"},
                    status' = status, used_pt' # used_pt
             PROVE  used_pt' < used_pt /\ (status = "SETTLED" => UNCHANGED start_price)
  BY DEF ContestStep
<1>1. PriceStep
  BY DEF Next, Create, Deposit, RedeemRefund, RedeemWin, Pay, Close, BurnShares,
     AdvanceFeed, AdvanceHeader, vars, pool_data
<1>2. \E t \in DOMAIN Feed : \E p \in Feed[t] : Correct(t, p)
  BY <1>1 DEF PriceStep, Activate, Resolve, ActivateLock, ActivateVoid, ResolveSettle,
     ResolveVoid, Finalize
<1> QED
  BY <1>2 DEF Correct, CorrectStart, CorrectSettle, set_start_tick, set_settle_tick

(* A contest replaces a tick only by a strictly earlier one.               *)
THEOREM ContestsMoveEarlier == Spec => ContestMovesEarlier
BY ContestHolds, PTL DEF Spec, ContestMovesEarlier

LEMMA MintHolds == IInv /\ IInv' /\ [Next]_vars => MintStep
<1> SUFFICES ASSUME IInv, IInv', [Next]_vars,
                    \E s \in Side : supply'[s] > supply[s]
             PROVE  /\ status = "OPEN" /\ status' = "OPEN"
                    /\ supply'["UP"] + supply'["DOWN"] - supply["UP"] - supply["DOWN"]
                         = funds' - funds
  BY DEF MintStep
<1>1. /\ supply \in [Side -> Nat] /\ supply' \in [Side -> Nat]
      /\ total \in [Side -> Nat] /\ total' \in [Side -> Nat]
  BY DEF IInv, Basic, TypeOK
<1>2. ASSUME \A s \in Side : supply'[s] <= supply[s]
      PROVE  FALSE
  BY <1>1, <1>2
<1>3. ASSUME NEW burned, \A s \in Side : burned[s] \in Nat, NEW amount, Pay(burned, amount)
      PROVE  FALSE
  BY <1>1, <1>2, <1>3 DEF Pay
<1>4. PICK up \in Amounts, down \in Amounts : Deposit(up, down)
  <2>1. CASE supply' = supply
    BY <1>1, <1>2, <2>1
  <2>2. CASE PriceStep
    BY <2>1, <2>2, PriceFreezes DEF phase_frozen, money
  <2>3. ASSUME NEW u \in Amounts, NEW d \in Amounts, RedeemRefund(u, d)
        PROVE  FALSE
    BY <1>3, <2>3, PoolAssumption DEF RedeemRefund, PerSide
  <2>4. ASSUME NEW x \in Amounts, RedeemWin(x)
        PROVE  FALSE
    BY <1>3, <2>4, PoolAssumption DEF RedeemWin
  <2>5. ASSUME NEW s \in Side, NEW x \in Amounts, BurnShares(s, x)
        PROVE  FALSE
    <3>1. x \in Nat
      BY PoolAssumption
    <3>2. \A r \in Side : supply'[r] <= supply[r]
      BY <1>1, <2>5, <3>1 DEF BurnShares
    <3> QED
      BY <1>2, <3>2
  <2> QED
    BY <2>1, <2>2, <2>3, <2>4, <2>5 DEF Next, Create, Close, AdvanceFeed, AdvanceHeader,
       vars, money
<1>5. /\ status = "OPEN" /\ status' = "OPEN"
      /\ supply'["UP"] = supply["UP"] + up - total["UP"]
      /\ supply'["DOWN"] = supply["DOWN"] + down - total["DOWN"]
      /\ total'["UP"] = up /\ total'["DOWN"] = down
  BY <1>4 DEF Deposit, shares_follow, PerSide, Side
<1>6. /\ funds = total["UP"] + total["DOWN"]
      /\ funds' = total'["UP"] + total'["DOWN"]
  BY <1>5 DEF IInv, Basic, EscrowExact, Staked
<1>7. /\ supply["UP"] \in Nat /\ supply["DOWN"] \in Nat
      /\ total["UP"] \in Nat /\ total["DOWN"] \in Nat /\ up \in Nat /\ down \in Nat
  BY <1>1, PoolAssumption DEF Side
<1> QED
  BY <1>5, <1>6, <1>7

(* Shares appear only in an OPEN pool and only against equal funds.        *)
THEOREM SharesMintFunded == Spec => MintsOnlyFunded
<1>1. IInv /\ IInv' /\ [Next]_vars => [MintStep]_vars
  BY MintHolds
<1> QED
  BY <1>1, IInvAlways, PTL DEF Spec, MintsOnlyFunded

(***************************************************************************)
(* Refinement.  One case per action: the abstract step it is, or a stutter.*)
(***************************************************************************)
(* The solver needs this fact of numbers stated for terms with primes.     *)
LEMMA PartOfSum ==
  ASSUME NEW r \in Nat, NEW m \in Nat, NEW n \in Nat, m + n <= r
  PROVE  m <= r
OBVIOUS

MoneyFacts ==
  /\ Owed \in Nat /\ funds \in Nat
  /\ supply["UP"] \in Nat /\ supply["DOWN"] \in Nat

LEMMA MoneyTypes ==
  ASSUME IInv
  PROVE  MoneyFacts
<1>1. /\ supply["UP"] \in Nat /\ supply["DOWN"] \in Nat /\ funds \in Nat
  BY DEF IInv, Basic, TypeOK, Side
<1>2. Claims \in Nat
  <2>1. CASE Paying
    <3>1. PayingFacts
      BY <2>1, PayingArguments DEF IInv
    <3> QED
      BY <3>1, PayoutBounds DEF PayingFacts
  <2>2. CASE ~Paying
    BY <1>1, <2>2 DEF Claims
  <2> QED
    BY <2>1, <2>2
<1> QED
  BY <1>1, <1>2 DEF Owed, MoneyFacts

LEMMA MoneyInit == Init => Money!Init
BY DEF Init, Money!Init, Phase, Owed, Side

(* The price transitions move no money: they lock, decide or stutter.      *)
LEMMA MoneyPrice ==
  ASSUME IInv, IInv', PriceStep
  PROVE  Money!Next \/ UNCHANGED Money!vars
<1> SUFFICES ASSUME NEW t \in DOMAIN Feed, NEW p \in Feed[t],
                    Activate(t, p) \/ Correct(t, p) \/ Resolve(t, p) \/ Finalize(t, p)
             PROVE  Money!Next \/ UNCHANGED Money!vars
  BY DEF PriceStep
<1>1. UNCHANGED <<funds, supply>>
  BY PriceFreezes DEF phase_frozen, money
<1>2. CASE ActivateLock(t, p)
  <2>1. status = "OPEN" /\ status' = "LOCKED"
    BY <1>2 DEF ActivateLock
  <2>2. Money!Lock
    BY <1>1, <2>1 DEF Money!Lock, Phase, Owed
  <2> QED
    BY <2>2 DEF Money!Next
<1>3. CASE Correct(t, p) \/ ResolveSettle(t, p)
  <2>1. status \in {"LOCKED", "SETTLED"} /\ status' \in {"LOCKED", "SETTLED"}
    BY <1>3 DEF Correct, CorrectStart, CorrectSettle, ResolveSettle
  <2> QED
    BY <1>1, <2>1 DEF Money!vars, Phase, Owed
<1>4. CASE ActivateVoid(t, p) \/ ResolveVoid(t, p) \/ Finalize(t, p)
  <2>1. status \in {"OPEN", "LOCKED", "SETTLED"} /\ status' \in {"VOID", "FINALIZED"}
    BY <1>4 DEF ActivateVoid, ResolveVoid, Finalize
  <2>2. Owed' \in Nat /\ funds \in Nat
    <3>1. IInv' => MoneyFacts'
      BY MoneyTypes, PTL
    <3> QED
      BY <3>1, MoneyTypes DEF MoneyFacts
  <2>3. Owed' = Claims'
    BY <2>1 DEF Owed, Phase
  <2>4. Claims' + RakeDue' <= funds'
    BY <2>1 DEF IInv, Paid, Solvent
  <2>5. RakeDue' \in Nat
    <3>1. IInv' /\ Paying' => PayingFacts'
      BY PayingArguments, PTL DEF IInv
    <3> QED
      BY <3>1 DEF PayingFacts, RakeDue
  <2>6. Owed' <= funds
    <3>1. Claims' \in Nat /\ funds' = funds
      BY <1>1, <2>2, <2>3
    <3>2. Claims' <= funds'
      BY <2>2, <2>4, <2>5, <3>1, PartOfSum
    <3> QED
      BY <2>3, <3>1, <3>2
  <2>7. Phase \in {"betting", "locked"} /\ Phase' = "paying"
    BY <2>1 DEF Phase
  <2>8. Money!Decide
    BY <1>1, <2>2, <2>6, <2>7 DEF Money!Decide
  <2> QED
    BY <2>8 DEF Money!Next
<1> QED
  BY <1>2, <1>3, <1>4 DEF Activate, Resolve

LEMMA MoneyStep ==
  ASSUME IInv, IInv', [Next]_vars
  PROVE  Money!Next \/ UNCHANGED Money!vars
<1>0. /\ Owed \in Nat /\ funds \in Nat /\ supply["UP"] \in Nat /\ supply["DOWN"] \in Nat
      /\ Owed' \in Nat /\ funds' \in Nat /\ supply'["UP"] \in Nat /\ supply'["DOWN"] \in Nat
  <2>1. IInv' => MoneyFacts'
    BY MoneyTypes, PTL
  <2> QED
    BY <2>1, MoneyTypes DEF MoneyFacts
<1>1. ASSUME NEW c \in Configs, NEW seed \in SeedPts, Create(c, seed)
      PROVE  UNCHANGED Money!vars
  BY <1>1 DEF Create, money, Money!vars, Phase, Owed
<1>2. ASSUME NEW up \in Amounts, NEW down \in Amounts, Deposit(up, down)
      PROVE  Money!Next
  <2>1. status = "OPEN" /\ status' = "OPEN"
    BY <1>2 DEF Deposit
  <2>2. Owed' = supply'["UP"] + supply'["DOWN"] /\ Phase = "betting" /\ Phase' = "betting"
    BY <2>1 DEF Owed, Phase
  <2>3. /\ total'["UP"] \in Nat /\ total'["DOWN"] \in Nat
        /\ funds' = total'["UP"] + total'["DOWN"]
    BY <2>1 DEF IInv, Basic, TypeOK, EscrowExact, Staked, Side
  <2>4. supply'["UP"] <= total'["UP"] /\ supply'["DOWN"] <= total'["DOWN"]
    <3>1. /\ redeemed'["UP"] \in Nat /\ redeemed'["DOWN"] \in Nat
          /\ supply'["UP"] + redeemed'["UP"] <= total'["UP"]
          /\ supply'["DOWN"] + redeemed'["DOWN"] <= total'["DOWN"]
      BY DEF IInv, Basic, TypeOK, SharesBacked, Side
    <3> QED
      BY <1>0, <2>3, <3>1
  <2>5. Owed' <= funds'
    BY <1>0, <2>2, <2>3, <2>4
  <2>6. Money!Bet
    BY <1>0, <2>2, <2>5 DEF Money!Bet
  <2> QED
    BY <2>6 DEF Money!Next
<1>3. CASE PriceStep
  BY <1>3, MoneyPrice
<1>4. ASSUME NEW up \in Amounts, NEW down \in Amounts, RedeemRefund(up, down)
      PROVE  Money!Next
  <2>1. /\ Refunding /\ Refunding' /\ UNCHANGED status /\ up + down > 0
        /\ funds' = funds - (up + down)
        /\ supply'["UP"] = supply["UP"] - up /\ supply'["DOWN"] = supply["DOWN"] - down
    BY <1>4 DEF RedeemRefund, Pay, PerSide, Side, pool_data, Refunding
  <2>2. /\ Phase = "paying" /\ UNCHANGED Phase
        /\ Owed = supply["UP"] + supply["DOWN"] /\ Owed' = supply'["UP"] + supply'["DOWN"]
    BY <2>1 DEF Refunding, Phase, Owed, Claims
  <2>3. Money!Pay
    <3>1. up \in Nat /\ down \in Nat
      BY PoolAssumption
    <3> QED
      BY <1>0, <2>1, <2>2, <3>1 DEF Money!Pay
  <2> QED
    BY <2>3 DEF Money!Next
<1>5. ASSUME NEW x \in Amounts, RedeemWin(x)
      PROVE  Money!Next
  <2> DEFINE w == WinnerTotal
             l == LoserTotal
             bps == config.rake_bps
             s == supply[winner]
  <2>1. Paying /\ Paying' /\ x \in Nat /\ x > 0
        /\ UNCHANGED <<status, winner, total, config>>
    BY <1>5, PoolAssumption DEF RedeemWin, Pay, pool_data, Paying
  <2>2. PayingFacts
    BY <2>1, PayingArguments DEF IInv
  <2>3. PayingFacts'
    <3>1. IInv' /\ Paying' => PayingFacts'
      BY PayingArguments, PTL DEF IInv
    <3> QED
      BY <2>1, <3>1
  <2>4. x <= s /\ supply'[winner] = s - x /\ funds' = funds - payout(x, w, l, bps)
    BY <1>5, <2>2 DEF RedeemWin, Pay, PayingFacts
  <2>5. /\ w \in Nat \ {0} /\ l \in Nat /\ bps \in 0 .. RAKE_BPS_MAX
        /\ s \in Nat /\ s - x \in Nat /\ s = x + (s - x)
    BY <2>1, <2>2, <2>4 DEF PayingFacts
  <2>6. Claims = payout(s, w, l, bps) /\ Claims' = payout(s - x, w, l, bps)
    BY <2>1, <2>2, <2>3, <2>4 DEF PayingFacts, WinnerTotal, LoserTotal
  <2>7. Phase = "paying" /\ UNCHANGED Phase /\ Owed = Claims /\ Owed' = Claims'
    BY <2>1 DEF Paying, Phase, Owed
  <2> HIDE DEF w, l, bps, s
  <2>8. payout(x, w, l, bps) \in Nat /\ payout(x, w, l, bps) >= x
    BY <2>1, <2>5, PayoutBounds
  <2>9. payout(x, w, l, bps) + payout(s - x, w, l, bps) <= payout(s, w, l, bps)
    <3>1. LET both == payout(x + (s - x), w, l, bps)
              apart == payout(x, w, l, bps) + payout(s - x, w, l, bps)
          IN  apart <= both /\ both <= apart + 1
      BY <2>1, <2>5, PayoutSplit
    <3> QED
      BY <2>5, <3>1
  <2>10. Money!Pay
    BY <1>0, <2>1, <2>4, <2>6, <2>7, <2>8, <2>9 DEF Money!Pay
  <2> QED
    BY <2>10 DEF Money!Next
<1>6. CASE Close
  <2>1. Money!Sweep
    <3>1. status \in {"VOID", "FINALIZED"} /\ status' = "CLOSED" /\ funds' \in 0 .. funds
      BY <1>0, <1>6 DEF Close
    <3> QED
      BY <3>1 DEF Money!Sweep, Phase, Owed
  <2> QED
    BY <2>1 DEF Money!Next
<1>7. ASSUME NEW s \in Side, NEW x \in Amounts, BurnShares(s, x)
      PROVE  Money!Next \/ UNCHANGED Money!vars
  <2>1. /\ x \in Nat /\ supply \in [Side -> Nat]
        /\ UNCHANGED <<status, winner, total, config, funds>>
    BY <1>7, PoolAssumption DEF BurnShares, pool_data, IInv, Basic, TypeOK
  <2>2. supply'["UP"] <= supply["UP"] /\ supply'["DOWN"] <= supply["DOWN"]
        /\ (supply'[winner] = supply[winner] \/ winner \notin Side
              \/ supply'[winner] = supply[winner] - x)
    BY <1>7, <2>1 DEF BurnShares, Side
  <2>3. Phase' = Phase
    BY <2>1 DEF Phase
  <2>4. Owed' <= Owed
    <3>1. CASE Paying
      <4> DEFINE w == WinnerTotal
                 l == LoserTotal
                 bps == config.rake_bps
                 a == supply[winner]
                 b == supply'[winner]
      <4>1. PayingFacts
        BY <3>1, PayingArguments DEF IInv
      <4>2. PayingFacts'
        <5>1. IInv' /\ Paying' => PayingFacts'
          BY PayingArguments, PTL DEF IInv
        <5> QED
          BY <2>1, <3>1, <5>1 DEF Paying
      <4>3. Owed = payout(a, w, l, bps) /\ Owed' = payout(b, w, l, bps)
        BY <2>1, <3>1, <4>1, <4>2 DEF Paying, PayingFacts, Owed, Phase, WinnerTotal,
           LoserTotal
      <4>4. /\ w \in Nat \ {0} /\ l \in Nat /\ bps \in 0 .. RAKE_BPS_MAX
            /\ a \in Nat /\ b \in Nat /\ a - b \in Nat /\ a = b + (a - b)
        BY <2>1, <2>2, <4>1, <4>2 DEF PayingFacts
      <4> HIDE DEF w, l, bps, a, b
      <4>5. LET both == payout(b + (a - b), w, l, bps)
                apart == payout(b, w, l, bps) + payout(a - b, w, l, bps)
            IN  apart <= both /\ both <= apart + 1
        BY <4>4, PayoutSplit
      <4>6. payout(a - b, w, l, bps) \in Nat /\ payout(b, w, l, bps) \in Nat
        BY <4>4, PayoutBounds
      <4>7. payout(b, w, l, bps) + payout(a - b, w, l, bps) <= payout(a, w, l, bps)
        BY <4>4, <4>5
      <4>8. payout(a, w, l, bps) \in Nat
        BY <4>4, PayoutBounds
      <4> QED
        BY <4>3, <4>6, <4>7, <4>8, PartOfSum
    <3>2. CASE ~Paying
      <4>1. Refunding' = Refunding /\ ~Paying'
        BY <2>1, <3>2 DEF Refunding, Paying
      <4>2. \/ Owed = 0 /\ Owed' = 0
            \/ /\ Owed = supply["UP"] + supply["DOWN"]
               /\ Owed' = supply'["UP"] + supply'["DOWN"]
        BY <2>3, <3>2, <4>1 DEF Owed, Claims
      <4>3. supply'["UP"] + supply'["DOWN"] <= supply["UP"] + supply["DOWN"]
        BY <1>0, <2>2
      <4> QED
        BY <4>2, <4>3
    <3> QED
      BY <3>1, <3>2
  <2>5. CASE Owed' = Owed
    BY <2>1, <2>3, <2>5 DEF Money!vars
  <2>6. CASE Owed' < Owed
    <3>1. Money!Forfeit
      BY <1>0, <2>1, <2>3, <2>6 DEF Money!Forfeit
    <3> QED
      BY <3>1 DEF Money!Next
  <2> QED
    BY <1>0, <2>4, <2>5, <2>6
<1>8. CASE \/ \E t \in DOMAIN Feed : AdvanceFeed(t)
           \/ \E t \in HeaderTimes : AdvanceHeader(t)
           \/ UNCHANGED vars
  BY <1>8 DEF AdvanceFeed, AdvanceHeader, vars, pool_data, money, Money!vars, Phase, Owed,
     Claims, Refunding, Paying, WinnerTotal, LoserTotal
<1> QED
  BY <1>1, <1>2, <1>3, <1>4, <1>5, <1>6, <1>7, <1>8 DEF Next

(* Whatever happens on chain, the pool behaves as the abstract promise.    *)
THEOREM PoolImplementsParimutuel == Spec => ImplementsParimutuel
<1>1. IInv /\ IInv' /\ [Next]_vars => [Money!Next]_(Money!vars)
  BY MoneyStep
<1> QED
  BY <1>1, MoneyInit, IInvAlways, PTL DEF Spec, ImplementsParimutuel, Money!Spec
=============================================================================
