# Up/down pools: the verification project

TLA+ models, TLC configurations and TLAPS proofs kept beside the up/down pool
system: parimutuel pools on CKB whose result is the movement of a Pyth price.
All paths are relative to the repository root (`src/` in the entries of
`PROJECT.json`).

## 1. The system

### Components, their state and their operations

| component | code | state | operations |
|---|---|---|---|
| `pool_type` | `crates/up_down/contracts/pool_type`, `common` | one PoolCell: `PoolData` (status, winner, totals, prices, `used_pt`, configuration) and its capacity | CREATE, DEPOSIT/withdraw, ACTIVATE, CORRECT-start, RESOLVE, CORRECT-settle, FINALIZE, REDEEM, CLOSE |
| `share_xudt` | `contracts/share_xudt` | UP and DOWN share cells | mint and burn with the PoolCell; transfer and burn without it |
| `treasury_lock` | `contracts/treasury_lock` | the TreasuryCell of a xUDT pool | opens only when the PoolCell is an input |
| `pool_admin_lock` | `contracts/pool_admin_lock` | none | anybody may continue a PoolCell, only the creator may end it |
| SDK | `packages/game-sdk` | none | reads pools and shares, computes payouts, assembles each transaction |
| keeper | `packages/watcher/src/keeper*.ts` | a timeline of wake-ups, one per pool and one for the next creation | wake, sweep, start, stop, wind-down |
| executor | `executor.ts`, `reconcile.ts`, `db/` | the `tx_log` table; one wallet behind a mutex | execute, executeDecisions (batches), reconcile at boot |
| oracle worker | `oracle/worker.ts` | a timer; it writes the one oracle cell per feed | advance at each due time, warm at start |
| indexer and API | `indexer.ts`, `api/` | the `pools` table, a projection | index every few seconds, serve rows and odds, build unsigned transactions |
| service | `service.ts` | the process: booting, up, stopping | boot in order, wind down and resume on a signal, stop in order |
| web client | `packages/web` | what is on the screen | shows rounds, pots, odds and stake quotes; deposits, withdrawals, redemptions and burns through the player's wallet |
| deployment | `deployment` | manifest files | upload code cells |

### How they interact

Everything that matters meets in cells. A transition consumes the PoolCell and
recreates it; `share_xudt` and `treasury_lock` delegate to `pool_type` whenever
that PoolCell is an input. Prices arrive as a read-only oracle cell: whoever
submits a transition chooses which signed tick it shows, and the tick's
`publish_time` is the only clock of the price phase; CLOSE alone reads block
time. The keeper reads pools and the oracle cell, decides, and broadcasts
through the executor; the oracle worker advances that cell with the same wallet
under the same mutex. Players act through the SDK or the API and race all of
it. What a player sees has come a longer way: the indexer copies the cell into
a row, the API serves the row, the web client decides from the answer and the
browser's clock whether a stake is still taken and what it would pay.

### What is hard

* Nothing is sequential on chain: deposits, contests, late ticks, redemptions
  and the sweep come in any order the guards allow, from anybody.
* Shares move and burn in transactions that the pool never sees, and each
  transaction is checked by differences only.
* Integer payouts are rounded per redemption, in u128 with overflow checks.
* Two clocks: the tick's publish time and the block time; and two more off
  chain, the wall clock of the process and the tip it reads.
* The keeper awaits between reading, deciding and sending; timers, sweeps,
  retries, crashes between broadcast and bookkeeping, and a database that must
  agree with the chain after a restart.
* A transaction is drafted from several reads, signed much later, and every
  cell in it may have been spent in between.
* A player decides on a row that is as old as the last pass of the indexer.

### What makes each part correct

* pool: it holds what it owes, in every state; recorded prices are signed ticks
  of the right window that only move earlier; a latched result is final and
  nobody is paid before; every round ends and its cell returns.
* shares: never more than the stake behind them.
* cells and SDK: what lands does all of what was ordered and nothing else, out
  of the accounts of the one who signed; no treasury outlives its pool; the
  payout is the contract's.
* keeper and executor: every pool is driven to its end whatever fails; a round
  is created at most once; the log agrees with the chain.
* timeline and service: a live pool always has a timer, one, and in time; a
  stop leaves nothing running.
* oracle worker: each boundary's tick gets on chain inside its window.
* indexer, API, web: a row never goes back and gets to the end; a quote is what
  would be paid if nothing changed; the page refuses no stake that the chain takes.

## 2. Modules

| module | models | code |
|---|---|---|
| `PoolMath` | graces, `winner_for`, `mul_div_floor`, the payout, the phases; widths as constants | `common/src/constants.rs`, `pool_type/src/main.rs` |
| `Parimutuel` | abstract promise about money: pot, debt, phases | (specification) |
| `Pool` | one pool, all arms of `pool_type` with the shares, treasury and clocks around it | `pool_type`, `share_xudt` |
| `Ledger` | the cells of one pool and the scripts that rule on a transaction | the four contracts |
| `Accounts` | abstract promise about people: balances, orders fulfilled to the unit or given up | (specification) |
| `Player` | requests of holders and creator, read by read, drafted, completed, sent; composes `Ledger` | `game-sdk/src/tx`, `query`, `api/server.ts` |
| `Quote` | SDK `redeemPayout`/`closeGrace` and web `stakeQuote`, against the contract | `payout.ts`, `constants.ts`, `pot.ts` |
| `Page` | from the PoolCell to the page; composes `Quote` | `indexer.ts`, `db.ts`, `service.ts`, `api/`; `lanes.ts`, `pot.ts`, `RoundPage.tsx` |
| `Keeper` | one pool driven by the keeper through the SDK's builders, on top of `Pool` | `keeperCore.ts`, `keeper.ts`, `keeperTransitions.ts`, `close.ts`, `executor.ts` |
| `Service` | one process: timeline, wakes, sweeps, oracle worker, boot, signals, stop, crash | `keeper.ts`, `keeperCore.ts`, `oracle/worker.ts`, `service.ts`, `bin/server.ts` |
| `Executor` | overlapping wakes, wallet mutex, `tx_log`, mempool, crash and reconcile | `executor.ts`, `reconcile.ts`, `mutex.ts`, `db.ts` |
| `MCPool`, `MCPlayer`, `MCPage`, `MCKeeper`, `MCService`, `MCExecutor` | instances | |
| `*Proofs` | section 4 | |

`Pool` and `Ledger` are two views of the same contracts. `Pool` has prices,
clocks and sums; `Ledger` has cells with owners and out-points, and leaves which
price a transition shows to `Pool`. `Executor` abstracts a pool to one due
transition and `Service` to its status, so that crashes, mempool and timers do
not multiply the states of the contract.

### Pool and the contract

The variables are the fields of `PoolData` by their names (`total[s]` is
`up_total`/`down_total`, `config` the immutable part), the pool's money
(`funds`: capacity above the base for CKB, the TreasuryCell's balance for
xUDT), the share supply per side, two clocks, and history that only properties
read (`start_pt`, `redeemed`, `redeems`, `ended_at`). One action is one accepted
transaction:

| action | code |
|---|---|
| `Create` | `validate_create`, `validate_type_id_seed` |
| `Deposit` | `validate_deposit` (deposit, withdrawal, rebalancing: totals are free, funds and shares must follow) |
| `ActivateLock`, `ActivateVoid` | `validate_activate` |
| `CorrectStart`, `CorrectSettle` | `validate_correct_start`, `validate_correct_settle` |
| `ResolveSettle`, `ResolveVoid` | `validate_resolve` |
| `Finalize` | `validate_finalize` |
| `RedeemRefund`, `RedeemWin` | `validate_redeem` |
| `Close` | `validate_close` |
| `BurnShares` | `share_xudt` without the PoolCell |
| `AdvanceFeed`, `AdvanceHeader` | the environment: Pyth and block time |

A transaction may show any tick signed so far (`Shown`): the oracle cell is
identified by commitment, not by outpoint, so an old tick can be put on chain
by anybody. `find_oracle`'s commitment is abstracted to "only ticks in `Feed`".
Holders are abstracted to a supply per side, since the scripts only see sums.
`Create` takes `used_pt` from a set, because the code does not check it. A xUDT
sweep may take any part of the funds (`Close`), because `validate_close` does
not require the treasury among the inputs: that the SDK's sweep takes all of
them is `Player`'s `NothingOrphaned`.

### Ledger, Player and the builders

A cell of `Ledger` has a kind (a share of a side, the treasury, the staked
asset, plain CKB), an owner, an amount and a number that stands for its
out-point. Capacity is counted above the occupied floor; fees are left out. A
transaction is a record of what it spends and makes, the code cells it points
to and the header it names; `Accepts` is the conjunction of `pool_type`,
`share_xudt`, `treasury_lock`, `pool_admin_lock`, the asset's conservation and
the signatures, and `Runs` says which of them a node has to load, so that a
missing cell dep is a rejection. `Land` gives new cells out-points that no live
cell has and no request remembers.

`Player` serves one request per person at a time, cut at its awaits:

| action | code |
|---|---|
| `AskDeposit`, `AskWithdraw`, `AskRedeem`, `AskBurn` | the routes of `api/server.ts`, then `getPool` at the head of the `initiate*` functions of `workflows.ts` |
| `draftCreate`, `draftClose` | the keeper's two drafts with the creator's cells |
| `Read` | one await of a workflow: treasury, shares of a side, asset cells, plain cell, header; after the last one the `build*Tx` |
| `Complete` | `completeFeeAndChange`, inputs and change of the wallet (CCC, external) |
| `signAndSend` | signature and broadcast; the node takes it or not |
| `Transition`, `ForeignDeposit`, `TimePasses` | price transitions of anybody, a deposit of other software that leaves a second treasury, the header passing the close deadline |

A read returns cells live at its own moment, so everything read before may be
gone. A builder that throws ends the request. The web client's four write flows
are these requests with a wallet's signature.

### Quote and Page

Two arithmetics of the same rule. `AcceptedPayouts` is the contract's set of
payouts for a burn, `redeemPayout` the SDK's (at most one; empty when it
throws); `mulDivFloor` has no width. The lifecycle is a pool reduced to its two
totals: players ask, stake and withdraw while OPEN, then a result is latched.
`stakeQuote` is kept as the exact fraction behind the floating-point figure.
In `Quote` the pot that a player sees is any pot at all.

`Page` says which one: the pot of the row. `IndexTick`, `Listed`, `Written`,
`PassFails` are `service.ts`'s `indexTick` with its flag and `indexOnce`'s two
awaits, `Restart` is the process, whose database stays. `serializePool`
and `poolRoute` are the API, `phaseOf`, `locked` and `potOf` the web client.
`TypeAmount` is the player on the round's page, wherever the browser's clock
stands. `Gone` is the close: the pool is not listed any more, its row stays.

What the page says about a round is left out, its decisions are kept. Some of its
words are not true of every row: the summary above the ticket prints "Open" and
"until it locks" whatever the status (`RoundPage.tsx:76` and `:83`; `Clock.tsx:5`
wants a round that never looks open once it is not), and a closed ticket says
"Nothing moves now until the closing price lands" of a settled or void round too
(`RoundPage.tsx:155-164`). `RefusalsTrue` is about what the closed ticket does: it
takes no stake, wherever the contract would not take one either.

### Keeper, SDK and contract

`Keeper` adds to `Pool` the state of one wake, cut at its awaits. The PoolCell
may move between any two of them.

| action | code |
|---|---|
| `Wake` | `runWake`: reads the time of the tip |
| `ReadPool`, `Decide` | `handlePoolEntries`: the pool, the current oracle tick, `decide` |
| `Draft` | `executeDecisions`, `runBatchGroup`: guard, row, a draft over the pool as it is then |
| `Broadcast` | sent and committed; it does not ask the contract |
| `Fails` | the catch: the row is failed |
| `AdvanceCell` | the oracle worker writes a later tick |
| `CellsMove` | a second treasury cell comes or goes, the creator's plain cells run out or come back |
| `Others`, `Elsewhere` | everybody else's transactions, the clocks |

`decide*` are the arms of `decide`, `build*` the SDK's builders as the PoolData
they would write. `Broadcast` deliberately writes whatever was built: that this
is a step the contract accepts is the property `ImplementsPool`. A close needs
more than the pool: exactly one treasury cell (`findTreasuryCell` throws on none
and on two) and a plain cell of the creator. `sweepable` says that they are there;
`buildClose` builds nothing without them, and `CellsMove` lets them come and go at
any moment, for a deposit of other software can leave a second treasury. `decide`
does not look at them, so `DecisionBuildable` names them as the one thing that can
keep a decided close from being built, and `Driven` asks of others only what the
code needs of them: every open round gets its result with nobody's help; it is
closed too unless the sweep is kept from its cells again and again. The keeper
modelled here drives one pool; several meet in `Executor` and in `Service`.

### Service

`Service` is the process around those wakes, over a lane of several rounds. A
round is named by the grid boundary that creates it; a pool is its status.
`slots`, `poolIndex` and `cadenceIndex` are the `Timeline`, whose operations
(`schedulePool`, `scheduleCreate`, `remove*`, and `Rung` for the timer) are
functions of a timeline, since handlers perform several of them in one go. The
map of maps is a set of pairs of a due time and an entry, so that `OneTimer`
says of it: one due time per pool, at most one creation ahead, and both indexes
name exactly what is there.

| action | code |
|---|---|
| `Fire` | a slot's timer: the entries leave the timeline, `onWake` is called |
| `Transitions`, `Rearm` | `handlePoolEntries`: what is due is done or fails, then the fresh reads and `scheduleRetryOrNext`; a failure is logged, the pool is armed again like the others |
| `List`, `Link` | `handleCreateEntry`: own pools, creation or not, then the next creation |
| `WakeThrows`, `ScanThrows` | any await throws; the service logs it |
| `Sweep`, `ScanList`, `ScanApply` | `sweep`: list, then arm from the list |
| `WorkerAdvances` | `OracleWorker`: tick at or after the due time, `nextDue` from the grid |
| `Boot`, `KeeperStart`, `KeeperReconciled`, `ScanList`, `ScanApply` | `service.start`, `Keeper.start` |
| `WindDown`, `Resume` | SIGUSR1 and SIGUSR2 |
| `Shutdown`, `Close` | `stop`: timers first, then what is in flight is drained |
| `Crash` | everything in memory is gone |
| `SomeoneElse`, `OutOfBand` | transitions of other people; a pool created by hand, or by a creation that was given up and commits after all |

What fails is told apart from what throws. The executor catches everything, so a
transaction, a creation or an advance that fails is an `Event`: the handler runs on
and arms again, and `NothingLost` holds through any number of them. A `Fault` is an
await of the handler itself that throws (a read of the chain, the listing), after
which what the wake had in hand waits for the next sweep; a crash; and a pool that
comes into being with no wake looking (`OutOfBand`). Only these does `NothingLost`
exclude.

The tip may lag the wall clock by one (`Tips`). A transaction of a batch and the
reads before it are one step, for `Keeper` and `Executor` have their interior.
Time is urgent: a timer, a wake or a sweep is served within `Slack` of its
time, without which being late would mean nothing.

### Executor

A pool stands for one due transition of it, a round for one due creation; all
pools share an oracle cell, hence one batch. `WakePools` and `WakeCreate` are
the reads of a wake, without the mutex; `queue` is the mutex, its head the call
that runs. `Begin` (guards and intents), `Send`, `Record` (the hash), `Waited`
are the awaits of `runBatchGroup` and `execute`, `Rejected` and `Fails` their
catch: the former when the chain gives a reason, the latter as one of the
`MaxFaults` faults (no fee cell, a lost answer, a wait that times out, an RPC
error). A failed batch goes on one key at a time. `Crash` keeps the rows and
forgets the process, `Restart` and `Reconcile` are `service.start`. A failed
row is removed, since no query reads it. The writes of one `for` loop over the
rows of a batch are one step; dying inside it looks to `reconcile` like dying
before it for some of the keys. The boot runs `reconcile` twice in a row; the
second pass repeats the same lookups and is left out. Creations never conflict
in the mempool: which cells seed and fund them is the client's choice.

## 3. Runs

| run | question | outcome |
|---|---|---|
| `pool` | money, shares, prices, contest, refinement of `Parimutuel` under every interleaving; does every round end and its cell return | holds, the latter under `FairSpec` |
| `player` | does what lands fulfil its order to the unit, refining `Accounts`; are drafts accepted; is a treasury ever left behind | holds |
| `page` | do SDK, web client and contract agree; does the row follow the chain; is a refused stake rightly refused | holds while products fit, the progress of the row under `FairPage` |
| `keeper` | is all that the keeper broadcasts accepted; is nothing due missed or blocked; is what it decides buildable | holds, the last up to the cells of a close |
| `keeper_liveness` | does the keeper alone bring every round to its result, and its cell back while nobody keeps the sweep from its cells | holds under `KeeperFairSpec` |
| `service` | is any pool lost by the timeline, late, or armed twice; do the ticks come; is a stop quiet | holds |
| `executor` | is `tx_log` truthful and unique per action; is every due pool advanced | holds, up to orphaned rows |
| `supply_equals_totals` | documented: supply equals totals until settlement | violated |
| `winners_have_time` | commented: the close grace gives winners time | violated |
| `sdk_never_invalid` | commented: the SDK never builds a redeem the chain rejects | violated |
| `never_broadcast` | commented: a row without a hash was never broadcast | violated |
| `back_off` | commented: a lagging tick cannot spin the pool at ~0 ms | violated |

### Bounds, and why they are enough

`pool`: rounds `[100, 200)`, so `grace` is its clamp of 60 and `void_time`
260. The feed has a tick before the round, on both boundaries, inside each
window, two prices in one second, and one at `void_time`: each comparison in the
contract is met on its boundary and on both sides; prices let each side win and
tie. Two block times straddle the last closing second. Amounts are 0, 1 and 3:
uneven sides, partial redemptions and every rounding case (a third, a half after
a rake of 1/2). One configuration per asset, one of them without a rake, a xUDT
round whose activation window holds no tick, and two configurations that CREATE
must refuse. The widths are large, so that no product overflows; overflow is the
subject of `sdk_never_invalid`. The invariants about amounts are also proved for
all values.

`CHECK_DEADLOCK FALSE` everywhere: a closed pool with the clocks at their last
values really stops, a latched result whose pool is closed too, and requests,
outside events and the clock are bounded.

`player`: two holders and the creator; `h1` owns two stake cells, so that a
deposit has to merge cells and make change, and asks twice; `h2` takes the other
side; stakes of one side and of both, a withdrawal that leaves change of shares,
burns of both sides; an xUDT pool, a CKB pool and a round that no chain accepts;
one foreign deposit, after which there are two treasury cells. A rake of one half
makes every payout round. Contests move no cell but the pool's and are left out
of the run (`MaxCorrections = 0`), the proof has any number of them.

`page`: stakes of 2, up to 4 on a side, a rake of a quarter, and every burn
including mints (negative burns) and zero. Two stakes fit on a side, so that
others can bet and withdraw before and after the player; he asks about one side,
since nothing tells the sides apart but their names. Two slots for passes of the
indexer, one more than the flag admits. `MCPageNarrow.cfg` scales u128 down to
15 and takes no rake: the whole side burned at once is a product of two amounts,
4 * 4, that does not fit, while a part of it (2 * 4), refunds and the rake all do.
At 2^128 the same happens with 2^64 base units on each side, some 18.4 tokens of
18 decimals.

`keeper`: the round `[100, 200)` again, oracle ticks at 100, 150, 200, 230 and
260 (both boundaries, a tick inside each window, `void_time`), block times on
both sides of the close deadline, stakes of 0 and 1 per side, so that one-sided
and two-sided rounds occur. `MCKeeperLive.cfg` keeps the ticks on the boundaries
and one block time, after the close deadline; the keeper's own times come from the
blocks, so it finds every deadline passed or none.

`service`: two rounds of duration 2 that overlap (one is open while the other is
locked), lead, grace and retry of 1, close grace of 2: the smallest grid on which
all boundaries are distinct. Ten units of time bring both rounds past their
close. Two wakes in flight, one sweep, which is also what `start` is, and two
outside events: a failed transaction meets a signal or a failed creation, a throw
meets a sweep, a stop meets a resume, a crash meets another person's transition. The last instant stands for all later ones.
`MCServiceBackOff.cfg` needs one round and no outside event.

`executor`: two pools and one round, two overlapping wakes, two faults. Two
pools make a batch that can be split; two wakes race for the mutex; two faults
let a lost answer or a late transaction meet a crash, and a crash meet a dropped
transaction. `never_broadcast` needs one wake and one crash.

### Fairness

`FairSpec` is weak fairness of the environment clocks and of each transition
with a deadline: these are permissionless and the keeper submits them at once.
Deposits, corrections, redemptions and burns have none. There nothing needs strong
fairness: `Activate`, `Resolve`, `Finalize` and `Close` stay enabled once they
are, because an old tick can always be shown.

`keeper_liveness` asks nothing of others: weak fairness of the clocks, of the
oracle worker and of the steps of a wake, which nothing disables for good, and
of `Wake` itself while something is due, because the pool is re-armed every few
seconds (which is what `service` shows). `Broadcast` has strong fairness: each
retry drafts on a fresh read, and the keeper is not assumed to lose every race
against deposits for ever.

`FairPage` is weak fairness of the interval's tick and strong fairness of the two
steps of a pass: a pass may fail or be cut off by a restart any number of times,
but not every one for ever. Nothing is asked of the chain or of players.

`executor` has weak fairness of commits, of the running call, of the restart and
of reconcile, and strong fairness of the wakes of each pool (the pool is retried
as long as it is due; the bound on overlapping wakes is the model's, not the
code's). Creations have none: the code does not retry them after their boundary.
`Progress` excludes orphaned rows: a row that reconcile left as sent because its
transaction was pending, and whose transaction the node then dropped, blocks its
pool until the next restart.

`player` and `service` state safety only; in `service` lateness is bounded by the
urgency of its clock instead.

### What else is assumed

* A listing of pools is one moment of the chain; pages of a cursor are not
  told apart.
* A transaction of the keeper that it has waited for is seen by its next read:
  its CCC client records what it sent.
* A read of `Player` returns the live cells of its moment. A client that caches
  returns older ones; the draft then fails at the node like any stale draft.
* The player types while the row is on the screen; polling adds age to the row,
  which passes that come late already give it.

## 4. Proofs

All theorems are for every value of the constants under the named assumptions of
the modules they extend; TLC evaluates each of them in a run:

* `WidthAssumption`: both widths are naturals.
* `PoolAssumption`: feeds, times and amounts have their types, configurations
  hold u64 times.
* `QuoteAssumption`, `PageAssumption`, `ExecutorAssumption`: types.
* `LedgerAssumption`: the creator's lock is not a holder's, there are finitely
  many holders.
* `PlayerAssumption`: types; a holder owns finitely many cells; a round has a
  known variant and a rake that is a natural (how large is left open: CREATE
  refuses what is too much).
* `ServiceAssumption`: types, and `Grace <= CloseGrace`, which the clamps of
  `constants.ts` give: at most 600 seconds against at least 3600.

* `PoolMathProofs`: `floor(ab/d)` is between 0 and the exact quotient, two
  floors never exceed the floor of the sum by more than they should
  (superadditivity and the one-unit bound), graces are within their clamps.
* `PoolProofs`: `IInv` is the conjunction of `Basic` (types, escrow, one-sided
  rounds never lock), `SharesBacked`, `Decided` (recorded ticks are shown ticks
  of their window and name the winner) and `Paid` (funds against claims, rake
  and number of redemptions once a result is latched). It is needed because
  `Solvent` alone is not inductive: a redemption keeps it only if supply is at
  most the winning total, and FINALIZE establishes it only from `EscrowExact`
  and both-sidedness. Each step of `Next` has its own proof step.
  `ClaimsAreRedeemable`: any part of a winning stake can be redeemed, whatever was
  redeemed before. It is a theorem under `ProductsFit`, that the product of two
  amounts, and of an amount and 10000, fit in u128. Nothing in the contract bounds
  the totals, so this is a condition on the asset; amounts below 2^64 meet it, and
  all of CKB's are.
* `PoolRefinementProofs`: the action properties from `IInv`, and the refinement
  of `Parimutuel`: initial states map to initial states and every action to a
  step or a stutter. Redemption is the interesting case: the debt falls by at
  least the payment because floors are superadditive.
* `PageProofs`, first about `Quote`: `SdkNeverRefuses`, `DilutionIsOneSided`,
  `CloseGraceMirrored`; `SdkNeverInvalid`, what the violation run refutes in
  general, under the condition that makes it true: `MaxU128` is at least `MaxSide`
  times the larger of `MaxSide` and 10000; and under the same condition
  `QuotesAreKept`. They rest on `StakeStays` (the player's stake is part of its
  side) and `Formed` (a quote is of the pot it names, and a locked round has both
  sides). Then about `Page`: `PageImplementsQuote`, a player with a stale row is a
  player of `Quote`, because a row is some earlier pot and `Quote` lets him look
  at any; so the theorems about `Quote` hold of the page. `RowNeverGoesBack`: the
  chain only moves forward (`ChainFollows`) and passes do not overlap, so row,
  listing in flight and chain are in this order at every moment; that order is
  the invariant. `RefusalsAreTrue` follows from the same order: a ticket is
  closed only by a row that is past OPEN, so the chain is past it too, and with the
  same pot.
* `KeeperProofs`: `DriveInv` says of a wake what it may still rely on: the
  configuration never changes (`Configured`), a draft is over the pool as it is
  (`Fresh`), the oracle cell holds a tick shown and only moves later
  (`CellsShown`), and the decision fits the view (`WakeInv`). From it every
  `Broadcast` is a step of `Pool` (`KeeperImplementsPool`), a decision can be
  built if the pool has not moved, up to the two cells a close needs beside it
  (`DecisionsAreBuildable`), and what is overdue
  has an action (`OverduesAreActionable`). `RowsInv` shows that no row blocks
  what is due: a second correction is never needed, because the oracle cell only
  moves later and a correction only earlier. They assume `RoundsFit`: close time
  plus the largest close grace fits in u64, since the SDK's sums do not saturate
  where the contract's do.
* `ExecutorProofs`: four layers. `Ids`: an id stands for one transaction,
  pending or confirmed. `LogInv`: the keys the running call holds are neither
  committed nor rows of a crashed process, without which `OneOpenRow` is not
  inductive. `TruthInv`: rows and call name transactions that contain their
  keys, hence a confirmed one has done them, hence `CommittedIsTrue`. `KindInv`
  and `CountInv`: a transaction advances pools or mints rounds, never both; every
  pending transaction that the running call does not wait for is paid for by a
  fault; and so is every mint of a round but one, which the log or the call still
  knows of. Hence `DuplicatesArePaidFor` and `DraftsAfterCommit`. For any number
  of pools, rounds, overlapping wakes and faults.
* `ServiceProofs`: the lane in layers, each resting on those before. The grid:
  `boundaryAtOrAfter`, `boundaryAfter`, `boundaryAtOrBefore` and `nextRetrySlot`
  are what their names say. The timeline: `IsTimeline`, kept by each operation,
  and what a wake may have in hand, so that it leaves at most one creation ahead
  (`TimersAreUnique`). `QuietInv`: what is stopped has no timers and arms none,
  in any order of a stop, a crash and a boot (`ClosedIsQuiet`). `HeldInv` and
  `AheadInv`: while nothing has thrown, a live pool has a timer or is in the hand
  of a wake, and the next creation likewise (`NothingIsLost`). `LateInv`: a
  listing may be old, but the pool can only be further on than the listing says,
  or its round is over; so a timer armed from a stale list is early and never
  late (`NeverArmedLate`). `TickInv`: the worker's due time is never past the next
  tick that a pool may wait for (`TicksComeInTime`); this one assumes
  `Grace <= D`. The clamp keeps a grace at 60 seconds at least, so a lane with
  rounds shorter than a minute would break it. The presets have five minutes and
  more; nothing in the code forbids a shorter one.
* `PlayerProofs`: `TreasuriesAreSwept`, that no close leaves a treasury cell
  behind. `NothingOrphaned` is not inductive: a close is drafted from reads
  several awaits old. The invariant is `PoolOk` (no pool, or a CKB pool, means
  no treasury cells) and `JobsOk`, the shape of every request; its heart is that
  a close past its read of the treasury carries every treasury cell there is,
  unless its pool has moved since. A treasury cell appears only in a transaction
  that also spends the PoolCell (`TxFor`), the new PoolCell has an out-point
  nobody remembers (`UnusedIsUnused`, by counting), and so the old close can
  no longer land. For any number of holders, overlapping requests and foreign
  deposits.

  `DraftsAreAccepted`: the contracts accept every draft whose inputs are still
  there. Its invariant `Fits` adds two things to the first one. `LedgerSound`:
  amounts are naturals, the pool's totals and status fit together, and while the
  pool is open a lone treasury cell holds exactly what the pool says is staked
  (`TreasuryTrue`; with a second one the builder throws). `JobFit`: what each request has read
  (`TodoOk`, `TreasuryRead`), and that what it has drafted obeys every rule of the
  four contracts and balances (`Stands`). Each builder has a lemma
  (`DepositStands`, `WithdrawStands`, `RedeemStands`, `BurnStands`,
  `CloseStands`, `CreateStands`) that derives all scripts' rules from what was
  read, and `CompletedStands` carries them over the wallet's inputs and change.
  Amounts in a set of cells are counted as a set of units, so that sums over
  disjoint sets add by counting and no induction over the set is needed.

  `AccountsAreKept`: `Player` implements `Accounts`. Two things are needed beyond
  `Fits`. The first is counting: when a transaction lands, each account changes by
  what comes out less what goes in (`LandMoves`), because cells that are made get
  out-points nobody has; only the signer's accounts change (`Owned`), and what
  leaves the pot is what his bank gains, since completed drafts waste nothing
  (`Even`; together `LandBooks`). The second is the invariant `Books`: a draft
  does what its order says (`Does`), a burn spends shares of the sides it names
  only, and a redeem carries every share of its owner that is due. The last is
  the hard one, since the shares were read several awaits ago: as long as the
  pool has not moved, only burns land, burns are signed by the owner, and the
  owner has this one request (`Apart`). Each way to fulfil an order then maps to
  its action (`DepositMaps`, `WithdrawMaps`, `RedeemMaps`, `BurnMaps`,
  `CreateMaps`, `CloseMaps`), a draft that does not land is given up
  (`SendMaps`), a transition moves no account (`DecideMaps`), and a deposit of
  other software overpays (`ForeignMaps`).

Only model-checked is liveness, which is out of the prover's reach (`RoundEnds`,
`CapitalReturns`, `RowsSettle`, `Driven`, `Progress`).

## 5. Divergences between documents and code

Each is a violation run and a finding in `PROJECT.json`:

1. Supply equals totals: a holder may burn shares at any time; only `<=` holds.
2. The close grace is counted from `close_time`: a late FINALIZE leaves winners
   no time before the creator's sweep.
3. The SDK has no overflow check where the contract has one: a side may be too
   large to be redeemed at once, though not in pieces.
4. `reconcile` calls a row without a hash "never broadcast; safe to retry"; the
   process may die after the node accepted it, and a retried creation may mint
   the round twice.
5. `scheduleRetryOrNext` backs off only when the boundary is not after the chain
   tip. In the seconds in which the wall clock has passed a boundary and the tip
   has not, it arms the pool at that boundary, and the timer fires at once,
   again and again until a block passes it.

Seen while modelling, without a run: `mutex.ts:6-8` says that cell selection
always sees the previous transaction's committed state, which a wait that times
out breaks (`DraftsOnCommitted` bounds it by the faults);
`docs/pool_type-spec.md:248` says that `settle_price`/`used_pt` stay 0 on RESOLVE
to VOID, the code carries the start tick on; the same document writes strict
lower bounds of both windows, the code (and its comments) inclusive ones;
`pool_data.rs:57` says `used_pt` is zero until activation, CREATE does not check
it; a full redemption leaves rake plus rounding dust, not the rake alone;
`pot.ts:4` claims to mirror `poolOdds` exactly, but quotes nothing for an empty
losing side where `poolOdds` gives a multiple; `query/pools.ts:285` has the keeper
check the share supply before it closes, `keeperCore.ts` closes on time alone; a
second treasury cell, which a deposit of other software can leave, makes every
draft throw in `findTreasuryCell`, the keeper's close included, until somebody
spends one of them together with the PoolCell (`sweepable` in `Keeper`); the words
on the round's page named in section 2.

## 6. What is left

Not modelled, and why:

* byte layouts, hashes, type ids, network presets and the codec beyond its range
  checks: data without a protocol;
* groups of a batch on different oracle cells: each group is a batch of its own,
  as `Executor` has it; a batch of several pools at the level of cells, which
  would need `pool_admin_lock`'s group rule: `Ledger` has one pool;
* fetching and posting ticks: I/O of other services, `WorkerAdvances` or its failure;
* cursors and pages of listings, the cache of the CCC client, see the
  assumptions;
* a holder's positions over all rows, the lists of rounds, CORS, configuration;
* what the web client says and draws (labels, notes, countdowns, multiples, the
  bar), its formatting, layout, wallet connection and polling: a property of these
  would only restate the function that prints them;
* deployment tooling, a one-shot script; contract tests, read for what they pin
  down.

Worth doing next: a refinement of `Pool`'s sums by `Ledger`'s cells, and `Ledger`
with two pools for the batch.
