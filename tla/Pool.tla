-------------------------------- MODULE Pool --------------------------------
(***************************************************************************)
(* One up/down pool on chain: the pool_type state machine with the scripts *)
(* it leans on (share_xudt for the supply of UP and DOWN shares,           *)
(* treasury_lock and pool_admin_lock for who may spend).  An action is one *)
(* accepted transaction; its guard is what the scripts require of it, and  *)
(* anybody may submit it unless the action says otherwise.                 *)
(*                                                                         *)
(* The scripts see sums over share cells, never holders, so shares are a   *)
(* supply per side.  Prices come from Feed, the ticks Pyth ever signs: a   *)
(* transaction may show any tick signed so far, however old, because       *)
(* anybody can mint an oracle cell that carries it.                        *)
(***************************************************************************)
EXTENDS PoolMath

CONSTANTS
  Feed,         \* publish_time -> the prices signed with that time
  HeaderTimes,  \* block times, in seconds
  Configs,      \* configurations a creator may try to create a pool with
  Amounts,      \* totals a side may take, and amounts of shares burned
  SeedPts       \* values of used_pt a creator may write at creation

Variants == {"CKB", "XUDT"}

ASSUME PoolAssumption ==
  /\ DOMAIN Feed \subseteq Nat
  /\ \A t \in DOMAIN Feed : Feed[t] \subseteq Int
  /\ HeaderTimes \subseteq Nat
  /\ Amounts \subseteq Nat
  /\ SeedPts \subseteq Nat
  /\ \A c \in Configs :
       /\ c.variant \in Variants
       /\ c.start_time \in 0 .. MaxU64
       /\ c.close_time \in 0 .. MaxU64
       /\ c.rake_bps \in Nat

VARIABLES
  \* PoolData
  status, winner, total, start_price, settle_price, used_pt, config,
  \* cells outside PoolData
  funds,        \* staked asset held: capacity above the base, or TreasuryCell
  supply,       \* circulating shares of each side
  \* the environment
  feed_time,    \* the latest publish_time signed so far
  header_time,  \* the latest block time
  \* history, read by properties only
  start_pt,     \* publish_time behind start_price, which RESOLVE forgets
  redeemed,     \* shares of each side burned by REDEEM
  redeems,      \* number of REDEEM transactions
  ended_at      \* header_time when the pool became FINALIZED or VOID

pool_data == <<status, winner, total, start_price, settle_price, used_pt, config>>
money == <<funds, supply, redeemed, redeems>>
clocks == <<feed_time, header_time>>
history == <<start_pt, ended_at>>
vars == <<pool_data, money, clocks, history>>

Statuses == {"ABSENT", "OPEN", "LOCKED", "SETTLED", "VOID", "FINALIZED", "CLOSED"}
Winners == {"UNDECIDED", "UP", "DOWN", "VOID"}

duration == saturating_sub(config.close_time, config.start_time)
void_time == saturating_add(config.close_time, grace(duration))
closable_after == saturating_add(config.close_time, close_grace(duration))

OneSided == total["UP"] = 0 \/ total["DOWN"] = 0

(***************************************************************************)
(* The oracle cell a transaction shows: one authentic tick.  Its time both *)
(* dates the price and proves that the contest window has passed.          *)
(***************************************************************************)
\* Mutant: the contest window is taken for over at close_time.
WindowOverAtClose(t) == t >= config.close_time

window_over(t) == t >= void_time

Shown(t, p) == t \in DOMAIN Feed /\ t <= feed_time /\ p \in Feed[t]

(***************************************************************************)
(* CREATE.  The new cell is OPEN, empty and undecided; used_pt is whatever *)
(* the creator wrote.  No share can be minted: its PoolCell is no input.   *)
(***************************************************************************)
\* Mutant: the rake is not bounded.
UnboundedRake(c) == c.start_time < c.close_time

ValidConfig(c) == c.start_time < c.close_time /\ c.rake_bps <= RAKE_BPS_MAX

Create(c, seed) ==
  /\ status = "ABSENT"
  /\ ValidConfig(c)
  /\ status' = "OPEN"
  /\ config' = c
  /\ used_pt' = seed
  /\ UNCHANGED <<winner, total, start_price, settle_price, money, clocks, history>>

(***************************************************************************)
(* OPEN -> OPEN: deposit, withdrawal and rebalancing in one rule.  The new *)
(* totals are free; funds and shares must follow them.  A side's shares    *)
(* are burned out of the supply, so its total falls no further than that.  *)
(***************************************************************************)
PerSide(up, down) == [s \in Side |-> IF s = "UP" THEN up ELSE down]

Staked == total["UP"] + total["DOWN"]

\* Mutant: the previous stake is not taken off the change of capacity.
FundsForgetPrevious(next) ==
  funds' = IF config.variant = "XUDT" THEN next["UP"] + next["DOWN"]
           ELSE funds + next["UP"] + next["DOWN"]

\* xUDT: the one TreasuryCell in the outputs, absolutely.  CKB: the change of
\* capacity.
funds_follow(next) ==
  funds' = IF config.variant = "XUDT" THEN next["UP"] + next["DOWN"]
           ELSE funds + next["UP"] + next["DOWN"] - Staked

\* Mutant: each side's shares follow the other side's total.
SharesFollowOther(next) ==
  /\ \A s \in Side : supply[s] + next[Other(s)] >= total[Other(s)]
  /\ supply' = [s \in Side |-> supply[s] + next[Other(s)] - total[Other(s)]]

\* side_out + prev.side_total = side_in + next.side_total, per side.
shares_follow(next) ==
  /\ \A s \in Side : supply[s] + next[s] >= total[s]
  /\ supply' = [s \in Side |-> supply[s] + next[s] - total[s]]

Deposit(up, down) ==
  LET next == PerSide(up, down)
  IN  /\ status = "OPEN"
      /\ up + down <= MaxU128
      /\ total' = next
      /\ shares_follow(next)
      /\ funds_follow(next)
      /\ UNCHANGED <<status, winner, start_price, settle_price, used_pt, config,
                     redeemed, redeems, clocks, history>>

(***************************************************************************)
(* What every price transition freezes: totals, capacity or treasury, and  *)
(* the share supply of both sides.                                         *)
(***************************************************************************)
\* Mutant: the share supply is left free, so that one share may appear.
SharesNotFrozen ==
  /\ UNCHANGED <<total, config, funds, redeemed, redeems, clocks>>
  /\ \E s \in Side : supply' \in {supply, [supply EXCEPT ![s] = @ + 1]}

phase_frozen == UNCHANGED <<total, config, money, clocks>>

set_start_tick(t, p, upper) ==
  /\ config.start_time <= t /\ t < upper
  /\ start_price' = p
  /\ used_pt' = t
  /\ start_pt' = t
  /\ settle_price' = 0
  /\ winner' = "UNDECIDED"
  /\ UNCHANGED ended_at

\* Mutant: a settle tick from before close_time is taken.
SettleTickFromAnyTime(t, p, upper) ==
  /\ t < upper
  /\ settle_price' = p
  /\ used_pt' = t
  /\ winner' = winner_for(p, start_price)
  /\ UNCHANGED <<start_price, history>>

set_settle_tick(t, p, upper) ==
  /\ config.close_time <= t /\ t < upper
  /\ settle_price' = p
  /\ used_pt' = t
  /\ winner' = winner_for(p, start_price)
  /\ UNCHANGED <<start_price, history>>

(***************************************************************************)
(* ACTIVATE: OPEN -> LOCKED with a provisional start price, or -> VOID     *)
(* when the round is one-sided or was never activated in time.             *)
(***************************************************************************)
ActivateLock(t, p) ==
  /\ status = "OPEN"
  /\ Shown(t, p)
  /\ ~OneSided
  /\ set_start_tick(t, p, config.close_time)
  /\ status' = "LOCKED"
  /\ phase_frozen

\* Mutant: a round that was never activated in time cannot be voided.
VoidOnlyOneSided(t, p) ==
  /\ status = "OPEN"
  /\ Shown(t, p)
  /\ OneSided /\ t >= config.start_time
  /\ status' = "VOID"
  /\ winner' = "VOID"
  /\ start_price' = 0
  /\ settle_price' = 0
  /\ used_pt' = 0
  /\ start_pt' = 0
  /\ ended_at' = header_time
  /\ phase_frozen

ActivateVoid(t, p) ==
  /\ status = "OPEN"
  /\ Shown(t, p)
  /\ (OneSided /\ t >= config.start_time) \/ t >= config.close_time
  /\ status' = "VOID"
  /\ winner' = "VOID"
  /\ start_price' = 0
  /\ settle_price' = 0
  /\ used_pt' = 0
  /\ start_pt' = 0
  /\ ended_at' = header_time
  /\ phase_frozen

(***************************************************************************)
(* CORRECT-start: a strictly earlier tick of [start, close) replaces the   *)
(* start price, for as long as nobody has resolved.                        *)
(***************************************************************************)
CorrectStart(t, p) ==
  /\ status = "LOCKED"
  /\ Shown(t, p)
  /\ set_start_tick(t, p, used_pt)
  /\ UNCHANGED status
  /\ phase_frozen

(***************************************************************************)
(* RESOLVE: LOCKED -> SETTLED with a tick of [close, void_time), or -> VOID*)
(* with a tick that proves the window passed unresolved.                   *)
(***************************************************************************)
ResolveSettle(t, p) ==
  /\ status = "LOCKED"
  /\ Shown(t, p)
  /\ set_settle_tick(t, p, void_time)
  /\ status' = "SETTLED"
  /\ phase_frozen

ResolveVoid(t, p) ==
  /\ status = "LOCKED"
  /\ Shown(t, p)
  /\ window_over(t)
  /\ status' = "VOID"
  /\ winner' = "VOID"
  /\ ended_at' = header_time
  /\ UNCHANGED <<start_price, settle_price, used_pt, start_pt>>
  /\ phase_frozen

\* Mutant: a contest may move the settle tick later.
CorrectSettleEitherWay(t, p) ==
  /\ status = "SETTLED"
  /\ Shown(t, p)
  /\ set_settle_tick(t, p, void_time)
  /\ UNCHANGED status
  /\ phase_frozen

\* Mutant: the contest stays open after FINALIZE.
CorrectFinalized(t, p) ==
  /\ status \in {"SETTLED", "FINALIZED"}
  /\ Shown(t, p)
  /\ set_settle_tick(t, p, used_pt)
  /\ UNCHANGED status
  /\ phase_frozen

CorrectSettle(t, p) ==
  /\ status = "SETTLED"
  /\ Shown(t, p)
  /\ set_settle_tick(t, p, used_pt)
  /\ UNCHANGED status
  /\ phase_frozen

(***************************************************************************)
(* FINALIZE latches the result once a tick proves void_time was reached.   *)
(***************************************************************************)
Finalize(t, p) ==
  /\ status = "SETTLED"
  /\ Shown(t, p)
  /\ window_over(t)
  /\ status' = "FINALIZED"
  /\ ended_at' = header_time
  /\ UNCHANGED <<winner, start_price, settle_price, used_pt, start_pt>>
  /\ phase_frozen

(***************************************************************************)
(* REDEEM burns shares against funds and leaves PoolData alone.  A refund  *)
(* (VOID, or a finalized tie) pays both sides one to one; otherwise only   *)
(* the winning side burns, for its stake and its part of the losing side.  *)
(***************************************************************************)
\* Mutant: a provisional tie is refunded before it is final.
RefundAnyTie == winner = "VOID"

Refunding == status = "VOID" \/ (status = "FINALIZED" /\ winner = "VOID")
Paying == status = "FINALIZED" /\ winner \in Side

\* Mutant: only what one side burned leaves the funds.
PayFirstSide(burned, amount) ==
  /\ \A s \in Side : burned[s] <= supply[s]
  /\ amount <= funds
  /\ funds' = funds - (IF burned["UP"] > 0 THEN burned["UP"] ELSE burned["DOWN"])
  /\ supply' = [s \in Side |-> supply[s] - burned[s]]
  /\ redeemed' = [s \in Side |-> redeemed[s] + burned[s]]
  /\ redeems' = redeems + 1
  /\ UNCHANGED <<pool_data, clocks, history>>

Pay(burned, amount) ==
  /\ \A s \in Side : burned[s] <= supply[s]
  /\ amount <= funds
  /\ funds' = funds - amount
  /\ supply' = [s \in Side |-> supply[s] - burned[s]]
  /\ redeemed' = [s \in Side |-> redeemed[s] + burned[s]]
  /\ redeems' = redeems + 1
  /\ UNCHANGED <<pool_data, clocks, history>>

RedeemRefund(up, down) ==
  /\ Refunding
  /\ up + down > 0
  /\ Pay(PerSide(up, down), up + down)

WinnerTotal == total[winner]
LoserTotal == total[Other(winner)]

RedeemWin(x) ==
  /\ Paying
  /\ x > 0
  /\ payout_fits(x, WinnerTotal, LoserTotal, config.rake_bps)
  /\ Pay([s \in Side |-> IF s = winner THEN x ELSE 0],
         payout(x, WinnerTotal, LoserTotal, config.rake_bps))

(***************************************************************************)
(* CLOSE, the only transaction that ends the PoolCell, the only one that   *)
(* needs the creator (the lock's escape path) and the only one that reads  *)
(* block time.  The capacity of a CKB pool goes to the creator; the rule   *)
(* does not look at the TreasuryCell of an xUDT pool, so what the creator  *)
(* leaves in it stays there, behind a lock that wants the PoolCell.        *)
(***************************************************************************)
\* Mutant: a voided pool cannot be torn down.
CloseOnlyFinalized ==
  /\ status = "FINALIZED"
  /\ header_time > closable_after
  /\ status' = "CLOSED"
  /\ funds' = 0
  /\ UNCHANGED <<winner, total, start_price, settle_price, used_pt, config,
                 supply, redeemed, redeems, clocks, history>>

Close ==
  /\ status \in {"FINALIZED", "VOID"}
  /\ header_time > closable_after
  /\ status' = "CLOSED"
  /\ funds' \in IF config.variant = "XUDT" THEN 0 .. funds ELSE {0}
  /\ UNCHANGED <<winner, total, start_price, settle_price, used_pt, config,
                 supply, redeemed, redeems, clocks, history>>

(***************************************************************************)
(* share_xudt without the PoolCell: holders may burn, never mint.          *)
(***************************************************************************)
BurnShares(s, x) ==
  /\ 0 < x /\ x <= supply[s]
  /\ supply' = [supply EXCEPT ![s] = @ - x]
  /\ UNCHANGED <<pool_data, funds, redeemed, redeems, clocks, history>>

(***************************************************************************)
(* The environment: Pyth signs later ticks, blocks carry later times.      *)
(***************************************************************************)
AdvanceFeed(t) ==
  /\ t > feed_time
  /\ feed_time' = t
  /\ UNCHANGED <<pool_data, money, header_time, history>>

AdvanceHeader(t) ==
  /\ t > header_time
  /\ header_time' = t
  /\ UNCHANGED <<pool_data, money, feed_time, history>>

-----------------------------------------------------------------------------
NoConfig == [variant |-> "CKB", start_time |-> 0, close_time |-> 0, rake_bps |-> 0]

Init ==
  /\ status = "ABSENT"
  /\ winner = "UNDECIDED"
  /\ total = [s \in Side |-> 0]
  /\ start_price = 0
  /\ settle_price = 0
  /\ used_pt = 0
  /\ config = NoConfig
  /\ funds = 0
  /\ supply = [s \in Side |-> 0]
  /\ feed_time = 0
  /\ header_time = 0
  /\ start_pt = 0
  /\ redeemed = [s \in Side |-> 0]
  /\ redeems = 0
  /\ ended_at = 0

Activate(t, p) == ActivateLock(t, p) \/ ActivateVoid(t, p)
Resolve(t, p) == ResolveSettle(t, p) \/ ResolveVoid(t, p)
Correct(t, p) == CorrectStart(t, p) \/ CorrectSettle(t, p)

PriceStep ==
  \E t \in DOMAIN Feed : \E p \in Feed[t] :
    Activate(t, p) \/ Correct(t, p) \/ Resolve(t, p) \/ Finalize(t, p)

Next ==
  \/ \E c \in Configs, seed \in SeedPts : Create(c, seed)
  \/ \E up, down \in Amounts : Deposit(up, down)
  \/ PriceStep
  \/ \E up, down \in Amounts : RedeemRefund(up, down)
  \/ \E x \in Amounts : RedeemWin(x)
  \/ Close
  \/ \E s \in Side, x \in Amounts : BurnShares(s, x)
  \/ \E t \in DOMAIN Feed : AdvanceFeed(t)
  \/ \E t \in HeaderTimes : AdvanceHeader(t)

Spec == Init /\ [][Next]_vars

(***************************************************************************)
(* Fairness.  Pyth keeps signing and blocks keep coming; the transitions   *)
(* with a deadline are permissionless and the keeper submits each as soon  *)
(* as the chain and the oracle allow it.  Players promise nothing, and no  *)
(* one is assumed to contest a recorded price.                             *)
(***************************************************************************)
Fairness ==
  /\ WF_vars(\E t \in DOMAIN Feed : AdvanceFeed(t))
  /\ WF_vars(\E t \in HeaderTimes : AdvanceHeader(t))
  /\ WF_vars(\E t \in DOMAIN Feed : \E p \in Feed[t] : Activate(t, p))
  /\ WF_vars(\E t \in DOMAIN Feed : \E p \in Feed[t] : Resolve(t, p))
  /\ WF_vars(\E t \in DOMAIN Feed : \E p \in Feed[t] : Finalize(t, p))
  /\ WF_vars(Close)

FairSpec == Spec /\ Fairness

-----------------------------------------------------------------------------
(***************************************************************************)
(* Invariants.                                                             *)
(***************************************************************************)

(* The types of PoolData, of the cells beside it and of the history.       *)
TypeOK ==
  /\ status \in Statuses
  /\ winner \in Winners
  /\ total \in [Side -> Nat]
  /\ start_price \in Int /\ settle_price \in Int
  /\ used_pt \in Nat /\ start_pt \in Nat
  /\ config.variant \in Variants
  /\ config.start_time \in 0 .. MaxU64 /\ config.close_time \in 0 .. MaxU64
  /\ config.rake_bps \in 0 .. RAKE_BPS_MAX
  /\ funds \in Nat
  /\ supply \in [Side -> Nat]
  /\ redeemed \in [Side -> Nat]
  /\ redeems \in Nat
  /\ feed_time \in Nat /\ header_time \in Nat /\ ended_at \in Nat

(* Shares burned outside the pool: they never reach the treasury.          *)
Forfeited(s) == total[s] - supply[s] - redeemed[s]

(* What the circulating shares could still claim, all at once.             *)
Claims ==
  IF Refunding THEN supply["UP"] + supply["DOWN"]
  ELSE IF Paying
       THEN payout(supply[winner], WinnerTotal, LoserTotal, config.rake_bps)
  ELSE 0

RakeDue == IF Paying THEN rake(LoserTotal, config.rake_bps) ELSE 0

(* Until a result is latched the pool holds exactly what the totals say,   *)
(* whatever mix of deposits, withdrawals and price transitions ran (the    *)
(* deposit rule checks deltas only; phase_frozen checks nothing moved).    *)
EscrowExact ==
  status \in {"OPEN", "LOCKED", "SETTLED"} => funds = Staked

(* No share exists without a stake behind it, in any state: a side's       *)
(* circulating and redeemed shares never exceed its total.                 *)
SharesBacked == \A s \in Side : supply[s] + redeemed[s] <= total[s]

(* A pool that pays can pay every outstanding claim, and the rake besides, *)
(* after any sequence of partial redemptions and burns.                    *)
Solvent ==
  status \in {"VOID", "FINALIZED"} => funds >= Claims + RakeDue

(* Rounding leaves at most one unit per REDEEM behind: what the creator    *)
(* sweeps beyond rake and forfeited shares is bounded by the redemptions.  *)
DustBounded ==
  Paying /\ Forfeited(winner) = 0 => funds <= Claims + RakeDue + redeems

(* A refunded pool has paid exactly the shares it burned.                  *)
RefundExact ==
  Refunding => funds = Staked - redeemed["UP"] - redeemed["DOWN"]

(* Any holder can redeem any part of a winning stake now, whoever redeemed *)
(* before and in what pieces: the rule neither overflows nor runs dry.     *)
ClaimsRedeemable ==
  Paying => \A x \in Amounts \cap 1 .. supply[winner] :
              /\ payout_fits(x, WinnerTotal, LoserTotal, config.rake_bps)
              /\ payout(x, WinnerTotal, LoserTotal, config.rake_bps) <= funds

(* Recorded prices are ticks Pyth signed, of the phase's own window: the   *)
(* start tick before close, the settle tick at or after close and before   *)
(* void_time, and the winner is the one those two prices name.             *)
TickInBand(t, p, lo, hi) == lo <= t /\ t < hi /\ Shown(t, p)

PricesAreTicks ==
  /\ status \in {"LOCKED", "SETTLED", "FINALIZED"} =>
       TickInBand(start_pt, start_price, config.start_time, config.close_time)
  /\ status = "LOCKED" => used_pt = start_pt /\ winner = "UNDECIDED"
  /\ status \in {"SETTLED", "FINALIZED"} =>
       /\ TickInBand(used_pt, settle_price, config.close_time, void_time)
       /\ winner = winner_for(settle_price, start_price)

(* A decided round was two-sided: REDEEM's division has a divisor.         *)
TwoSided == status \in {"LOCKED", "SETTLED", "FINALIZED"} => ~OneSided

(* Money leaves for a winner only once the contest is over: no tick that   *)
(* could still change the result has been left out of reach.               *)
PaidAfterContest == Paying /\ redeems > 0 => feed_time >= void_time

-----------------------------------------------------------------------------
(***************************************************************************)
(* Action properties.                                                      *)
(***************************************************************************)

(* Once FINALIZED or VOID, result and totals never change again, up to and *)
(* including the sweep.                                                    *)
LatchStep ==
  status \in {"FINALIZED", "VOID", "CLOSED"} =>
    /\ status' \in {status, "CLOSED"}
    /\ UNCHANGED <<winner, total, start_price, settle_price, used_pt, config>>

ResultLatched == [][LatchStep]_vars

(* Within a phase a recorded tick only ever moves earlier, and the settle  *)
(* contest never touches the start price.                                  *)
ContestStep ==
  status \in {"LOCKED", "SETTLED"} /\ status' = status /\ used_pt' # used_pt =>
    /\ used_pt' < used_pt
    /\ status = "SETTLED" => UNCHANGED start_price

ContestMovesEarlier == [][ContestStep]_vars

(* Shares come into being only in an OPEN pool, one for one with funds.    *)
MintStep ==
  (\E s \in Side : supply'[s] > supply[s]) =>
    /\ status = "OPEN" /\ status' = "OPEN"
    /\ supply'["UP"] + supply'["DOWN"] - supply["UP"] - supply["DOWN"]
         = funds' - funds

MintsOnlyFunded == [][MintStep]_vars

-----------------------------------------------------------------------------
(***************************************************************************)
(* Refinement.  Seen as money alone, the pool is a Parimutuel: prices and  *)
(* clocks vanish, and the circulating shares become the debt they stand    *)
(* for, at face value until the result is latched.                         *)
(***************************************************************************)
Phase ==
  IF status \in {"ABSENT", "OPEN"} THEN "betting"
  ELSE IF status \in {"LOCKED", "SETTLED"} THEN "locked"
  ELSE IF status \in {"VOID", "FINALIZED"} THEN "paying"
  ELSE "done"

Owed ==
  IF Phase \in {"betting", "locked"} THEN supply["UP"] + supply["DOWN"]
  ELSE IF Phase = "paying" THEN Claims
  ELSE 0

Money == INSTANCE Parimutuel WITH phase <- Phase, pot <- funds, owed <- Owed

(* Every behaviour of the pool is a behaviour of the abstract promise.     *)
ImplementsParimutuel == Money!Spec

-----------------------------------------------------------------------------
(***************************************************************************)
(* Liveness, under FairSpec.                                               *)
(***************************************************************************)

(* Every round ends: no pool stays in a contestable state for ever.        *)
RoundEnds == status = "OPEN" ~> status \in {"VOID", "FINALIZED", "CLOSED"}

(* The PoolCell is always given back in the end, whoever plays.            *)
CapitalReturns == status = "OPEN" ~> status = "CLOSED"

-----------------------------------------------------------------------------
(***************************************************************************)
(* What documents and comments of the repository claim, and the code does  *)
(* not do.  Each is violated in a run of its own.                          *)
(***************************************************************************)

(* docs/pool_type-spec.md, invariant 2: shares outstanding per side equal  *)
(* that side's total until settlement.  share_xudt lets a holder burn.     *)
SupplyEqualsTotals ==
  status \in {"OPEN", "LOCKED"} => \A s \in Side : supply[s] = total[s]

(* validate_close: the grace after settlement gives winners time to        *)
(* redeem.  It is counted from close_time, so a late FINALIZE leaves none: *)
(* here time means that block time has moved on since.                     *)
WinnersHaveTime ==
  status = "CLOSED" /\ winner \in Side => header_time > ended_at
=============================================================================
