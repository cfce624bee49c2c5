------------------------------- MODULE Player -------------------------------
(***************************************************************************)
(* Holders, and the creator's keeper, act on one pool through the SDK: a   *)
(* request reads the chain in several awaits, the builder drafts a         *)
(* transaction from what was read, the draft is completed with the         *)
(* wallet's own cells, signed and submitted.  Between any two of these     *)
(* steps the cells may be spent by another holder, by a transition of the  *)
(* keeper, by a deposit that some other software made, or by the close.    *)
(***************************************************************************)
EXTENDS Ledger, Sequences

CONSTANTS
  Purses,         \* Holders -> the amounts of the stake cells each starts with
  Stakes,         \* Holders -> the amounts per side a deposit may ask for
  Pulls,          \* the amounts per side a withdrawal may ask for
  BurnSides,      \* the sides a burn may name
  Rounds,         \* the parameters a pool may be created with
  MaxAsks,        \* bound: holder -> requests
  MaxCorrections, \* bound: contests of a start or a settle price
  MaxForeign      \* bound: deposits not drafted by this SDK

ASSUME PlayerAssumption ==
  /\ \A h \in Holders : Purses[h] \subseteq Nat /\ IsFiniteSet(Purses[h])
  /\ Stakes \in [Holders -> SUBSET [Side -> Nat]]
  /\ Pulls \subseteq [Side -> Nat]
  /\ \A r \in Rounds : r.variant \in {"CKB", "XUDT"} /\ r.rake_bps \in Nat
  /\ MaxAsks \in [Holders -> Nat] /\ MaxCorrections \in Nat /\ MaxForeign \in Nat

VARIABLES
  job,       \* who -> the request being served, or Idle
  asked,     \* holder -> requests made so far
  born,      \* the pool has been created
  corrected, \* contests so far
  foreign    \* foreign deposits so far

vars == <<ledger, job, asked, born, corrected, foreign>>

Players == Holders \union {Creator}
Idle == [at |-> "idle"]

(***************************************************************************)
(* What each order reads, in order, after the pool itself.                 *)
(***************************************************************************)
If(needed, read) == IF needed THEN <<read>> ELSE << >>
IfXudt(p, read) == If(p.variant = "XUDT", read)
SideReads(S) == If("UP" \in S, "UP") \o If("DOWN" \in S, "DOWN")

\* The stake cells are gathered here only for xUDT; CKB comes at completion.
initiateDeposit(p) == IfXudt(p, "treasury") \o IfXudt(p, "stake")

initiateWithdraw(p, want) ==
  SideReads({s \in Side : want[s] > 0}) \o IfXudt(p, "treasury")

\* An undecided winner is no side: the search finds nothing.
initiateRedeem(p) ==
  SideReads(IF refunds(p) THEN Side ELSE {p.winner}) \o IfXudt(p, "treasury")

initiateBurnShares(sides) == SideReads(sides)

initiateClose(p) ==
  IF p.variant = "XUDT" THEN <<"treasury", "plain", "header">> ELSE <<"plain", "header">>

(***************************************************************************)
(* What one read may return: a set of sets of cells, none when it throws.  *)
(***************************************************************************)
\* Mutant: the first treasury cell is taken, however many there are.
FirstTreasury == {{c} : c \in OfKind(cells, "treasury")}

findTreasuryCell ==
  {T \in {OfKind(cells, "treasury")} : Cardinality(T) = 1}

\* Largest first, and no cell more than needed; which of two equal cells is
\* not told.
selectShareInputs(S, need) ==
  {P \in SUBSET S :
     /\ Total(P) >= need
     /\ \A c \in P, d \in S \ P : c.amount >= d.amount
     /\ \E c \in P : Total(P \ {c}) < need}

\* The node's order, until the sum is reached.
collectAssetCells(S, atLeast) ==
  {P \in SUBSET S : Total(P) >= atLeast /\ \E c \in P : Total(P \ {c}) < atLeast}

\* The one live cell under the pool's type script, or null.
getPool == {p \in {pool} : p # NoPool}

Found(who, j, read) ==
  CASE read \in Side ->
         LET own == CellsOf(cells, read, who)
         IN  IF j.order.op = "withdraw"
             THEN selectShareInputs(own, j.order.want[read])
             ELSE {own}
    [] read = "treasury" ->
         IF j.order.op = "redeem" /\ j.got = {} THEN {} ELSE findTreasuryCell
    [] read = "stake" ->
         collectAssetCells(CellsOf(cells, "stake", who),
                           j.order.want["UP"] + j.order.want["DOWN"])
    [] read = "plain" -> {{c} : c \in CellsOf(cells, "plain", who)}
    [] read = "header" -> {{}}
    [] OTHER -> {}

(***************************************************************************)
(* The builders: the set of drafts, empty when the builder throws.  Shares *)
(* and treasury are continued by amounts taken from the cells that were    *)
(* read, the pool by its own data.                                         *)
(***************************************************************************)
encodeAmount(n) == n \in 0 .. MaxU128

encodePoolData(p) ==
  /\ p.rake_bps <= RAKE_BPS_MAX
  /\ \A s \in Side : encodeAmount(p.total[s])

Encodes(tx) ==
  /\ \A out \in tx.outs : encodeAmount(out.amount)
  /\ tx.next # NoPool => encodePoolData(tx.next)

Draft(guard, tx) == IF guard /\ Encodes(tx) THEN {tx} ELSE {}

\* The code cells: those of the pool's own scripts, of a pool with a treasury.
attachCodeDep(tx, deps) == [tx EXCEPT !.deps = @ \union deps]

resolveAssetDep(p) ==
  IF p.variant = "XUDT" THEN {"treasury_lock", "asset"} ELSE {}

PoolDeps(p) == {"pool_type", "pool_admin_lock"} \union resolveAssetDep(p)

\* Mutant: the side totals are left as they were.
ContinueTotals(p, delta, capacity) == [p EXCEPT !.capacity = capacity]

Continue(p, delta, capacity) ==
  [p EXCEPT !.total = [s \in Side |-> @[s] + delta[s]], !.capacity = capacity]

\* Mutant: what the inputs hold beyond the amount is not returned.
NoChange(kind, who, over) == {}

Change(kind, who, over) == OutIf(kind, who, over)

Minted(who, want) == UNION {OutIf(s, who, want[s]) : s \in Side}

buildDepositTx(who, j) ==
  LET want == j.order.want
      all == want["UP"] + want["DOWN"]
      assetIn == Amount(j.got, "stake")
      open == all > 0 /\ j.pool.status = "OPEN"
      tx == IF j.pool.variant = "XUDT"
            THEN Tx(j.pool, Continue(j.pool, want, j.pool.capacity), j.got,
                    Minted(who, want) \union Change("stake", who, assetIn - all)
                      \union {Out("treasury", "pool", Amount(j.got, "treasury") + all)})
            ELSE Tx(j.pool, Continue(j.pool, want, j.pool.capacity + all), {},
                    Minted(who, want))
  IN  Draft(open /\ (j.pool.variant = "XUDT" => assetIn >= all),
            attachCodeDep(tx, PoolDeps(j.pool) \union {"share_xudt"}))

buildWithdrawTx(who, j) ==
  LET want == j.order.want
      all == want["UP"] + want["DOWN"]
      less == [s \in Side |-> 0 - want[s]]
      change == UNION {Change(s, who, Amount(j.got, s) - want[s]) : s \in Side}
      held == Amount(j.got, "treasury")
      open == /\ all > 0
              /\ j.pool.status = "OPEN"
              /\ \A s \in Side : want[s] <= j.pool.total[s] /\ want[s] <= Amount(j.got, s)
      tx == IF j.pool.variant = "XUDT"
            THEN Tx(j.pool, Continue(j.pool, less, j.pool.capacity), j.got,
                    change \union {Out("treasury", "pool", held - all),
                                   Out("stake", who, all)})
            ELSE Tx(j.pool, Continue(j.pool, less, j.pool.capacity - all), j.got, change)
  IN  Draft(open /\ (j.pool.variant = "XUDT" => held >= all),
            attachCodeDep(tx, PoolDeps(j.pool) \union {"share_xudt"}))

buildRedeemTx(who, j) ==
  LET p == j.pool
      burned == [s \in Side |-> Amount(j.got, s)]
      w == p.winner
      pays == IF refunds(p) THEN burned["UP"] + burned["DOWN"]
              ELSE payout(burned[w], p.total[w], p.total[Other(w)], p.rake_bps)
      due == /\ \E s \in Side : OfKind(j.got, s) # {}
             /\ refunds(p) \/ (/\ p.status = "FINALIZED" /\ w \in Side
                               /\ burned[w] > 0 /\ burned[Other(w)] = 0)
      held == Amount(j.got, "treasury")
      tx == IF p.variant = "XUDT"
            THEN Tx(p, p, j.got, {Out("treasury", "pool", held - pays),
                                  Out("stake", who, pays)})
            ELSE Tx(p, Continue(p, Zero, p.capacity - pays), j.got, {})
  IN  Draft(due /\ pays <= IF p.variant = "XUDT" THEN held ELSE p.capacity,
            attachCodeDep(tx, PoolDeps(p) \union {"share_xudt"}))

buildBurnSharesTx(j) ==
  Draft(j.got # {}, attachCodeDep(Tx(NoPool, NoPool, j.got, {}), {"share_xudt"}))

\* The creator's plain cell comes back as change when the draft is completed.
buildCloseTx(who, j) ==
  LET tx == Tx(j.pool, NoPool, j.got, OutIf("stake", who, Amount(j.got, "treasury")))
  IN  Draft(j.pool.status \in {"FINALIZED", "VOID"} /\ who = Creator,
            attachCodeDep([tx EXCEPT !.header = j.header], PoolDeps(j.pool)))

resolveCreateAsset(round) ==
  {"pool_type"} \union IF round.variant = "XUDT" THEN {"asset"} ELSE {}

buildCreatePoolTx(j) ==
  LET r == j.order.round
      next == [status |-> "OPEN", winner |-> "UNDECIDED", total |-> Zero,
               capacity |-> 0, variant |-> r.variant, rake_bps |-> r.rake_bps,
               start_time |-> r.start_time, close_time |-> r.close_time, n |-> 0]
      tx == Tx(NoPool, next, j.got,
               IF r.variant = "XUDT" THEN {Out("treasury", "pool", 0)} ELSE {})
  IN  Draft(r.start_time < r.close_time, attachCodeDep(tx, resolveCreateAsset(r)))

Drafts(who, j) ==
  CASE j.order.op = "deposit"  -> buildDepositTx(who, j)
    [] j.order.op = "withdraw" -> buildWithdrawTx(who, j)
    [] j.order.op = "redeem"   -> buildRedeemTx(who, j)
    [] j.order.op = "burn"     -> buildBurnSharesTx(j)
    [] j.order.op = "close"    -> buildCloseTx(who, j)
    [] j.order.op = "create"   -> buildCreatePoolTx(j)

(***************************************************************************)
(* Completion (external CCC, called by fees.ts): inputs of the wallet      *)
(* cover what the outputs lack, and what is over returns as change.  In an *)
(* xUDT pool only fee cells move; in a CKB pool the stake itself does.     *)
(***************************************************************************)
Lacking(tx) == StakeOut(tx) - StakeIn(tx)

IsCkb(tx) == \E p \in {tx.prev, tx.next} : p # NoPool /\ p.variant = "CKB"

completeFeeAndChange(who, tx) ==
  LET fuel == OfKind(tx.ins, "plain")
      back == [tx EXCEPT !.outs = @ \union {Out("plain", who, 0) : c \in fuel}]
      lack == Lacking(tx)
  IN  IF ~IsCkb(tx) THEN {back}
      ELSE {[back EXCEPT !.ins = @ \union P,
                         !.outs = @ \union OutIf("stake", who, Total(P) - lack)] :
              P \in IF lack > 0
                    THEN collectAssetCells(CellsOf(cells, "stake", who), lack)
                    ELSE {{}}}

(***************************************************************************)
(* A request: the API refuses an empty amount, then the pool is read.  The *)
(* reads follow one by one; the builder runs with the last of them.        *)
(***************************************************************************)
Built(who, j) ==
  IF j.todo # << >> THEN {j}
  ELSE {[at |-> "draft", order |-> j.order, tx |-> tx] : tx \in Drafts(who, j)}

\* The job goes on with one of the next ones, or is over when there is none.
GoOn(who, next) ==
  IF next = {} THEN job' = [job EXCEPT ![who] = Idle]
  ELSE \E j \in next : job' = [job EXCEPT ![who] = j]

Start(who, order, p, todo) ==
  /\ job[who] = Idle
  /\ GoOn(who, Built(who, [at |-> "reading", order |-> order, todo |-> todo,
                           pool |-> p, got |-> {}, header |-> FALSE]))

AskMore(h) ==
  /\ asked[h] < MaxAsks[h]
  /\ asked' = [asked EXCEPT ![h] = @ + 1]
  /\ UNCHANGED <<ledger, born, corrected, foreign>>

AskDeposit(h, want) ==
  /\ want["UP"] > 0 \/ want["DOWN"] > 0
  /\ \E p \in getPool :
       Start(h, [op |-> "deposit", want |-> want], p, initiateDeposit(p))
  /\ AskMore(h)

AskWithdraw(h, want) ==
  /\ want["UP"] > 0 \/ want["DOWN"] > 0
  /\ \E p \in getPool :
       Start(h, [op |-> "withdraw", want |-> want], p, initiateWithdraw(p, want))
  /\ AskMore(h)

AskRedeem(h) ==
  /\ \E p \in getPool : Start(h, [op |-> "redeem"], p, initiateRedeem(p))
  /\ AskMore(h)

\* The pool need not exist any more.
AskBurn(h, sides) ==
  /\ born
  /\ Start(h, [op |-> "burn", sides |-> sides], NoPool, initiateBurnShares(sides))
  /\ AskMore(h)

KeeperAsks == UNCHANGED <<ledger, asked, born, corrected, foreign>>

draftCreate(round) ==
  /\ ~born
  /\ Start(Creator, [op |-> "create", round |-> round], NoPool, <<"plain">>)
  /\ KeeperAsks

\* The keeper asks when the pool is terminal and its own clock is past the
\* deadline; the tip header may lag behind that clock.
draftClose ==
  /\ \E p \in getPool :
       /\ p.status \in {"FINALIZED", "VOID"}
       /\ Start(Creator, [op |-> "close"], p, initiateClose(p))
  /\ KeeperAsks

Read(who) ==
  /\ job[who].at = "reading"
  /\ LET j == job[who]
         read == Head(j.todo)
     IN  GoOn(who, UNION {Built(who, [j EXCEPT !.todo = Tail(@),
                                               !.got = @ \union S,
                                               !.header = @ \/ (read = "header" /\ late)]) :
                            S \in Found(who, j, read)})
  /\ UNCHANGED <<ledger, asked, born, corrected, foreign>>

Complete(who) ==
  /\ job[who].at = "draft"
  /\ GoOn(who, {[job[who] EXCEPT !.at = "complete", !.tx = tx] :
                  tx \in completeFeeAndChange(who, job[who].tx)})
  /\ UNCHANGED <<ledger, asked, born, corrected, foreign>>

(***************************************************************************)
(* The wallet signs what it was given and broadcasts it.  The node takes   *)
(* it when its inputs are live and the scripts accept it.                  *)
(***************************************************************************)
SeenCells ==
  UNION {IF job[w].at = "idle" THEN {}
         ELSE IF job[w].at = "reading" THEN job[w].got ELSE job[w].tx.ins : w \in Players}
SeenPools ==
  {p \in {pool} \union
         {IF job[w].at = "idle" THEN NoPool
          ELSE IF job[w].at = "reading" THEN job[w].pool ELSE job[w].tx.prev : w \in Players} :
     p # NoPool}

Lands(who) == Live(job[who].tx) /\ Accepts(job[who].tx, who)

signAndSend(who) ==
  /\ job[who].at = "complete"
  /\ IF Lands(who)
     THEN /\ Land(job[who].tx, SeenPools, SeenCells)
          /\ born' = (born \/ job[who].tx.next # NoPool)
     ELSE UNCHANGED <<pool, cells, born>>
  /\ job' = [job EXCEPT ![who] = Idle]
  /\ UNCHANGED <<late, asked, corrected, foreign>>

(***************************************************************************)
(* The rest of the world.  A transition, whichever price it shows, is a    *)
(* transaction that spends the PoolCell alone.                             *)
(***************************************************************************)
OneSided(p) == p.total["UP"] = 0 \/ p.total["DOWN"] = 0

\* What the price rules leave of the winner a transition may write.
RightWinner(p, q) ==
  CASE q.status = "SETTLED" -> q.winner \in Side \union {"VOID"} /\ q.winner # p.winner
    [] q.status = "VOID"    -> q.winner = "VOID"
    [] OTHER                -> q.winner = p.winner

Transition ==
  \E step \in PhaseSteps, w \in Side \union {"VOID", "UNDECIDED"} :
    LET q == [pool EXCEPT !.status = step[2], !.winner = w]
        tx == attachCodeDep(Tx(pool, q, {}, {}), {"pool_type", "pool_admin_lock"})
    IN  /\ pool.status = step[1]
        /\ RightWinner(pool, q)
        /\ step = <<"OPEN", "LOCKED">> => ~OneSided(pool)
        /\ step[1] = step[2] => corrected < MaxCorrections
        /\ Accepts(tx, Creator)
        /\ Land(tx, SeenPools, SeenCells)
        /\ corrected' = IF step[1] = step[2] THEN corrected + 1 ELSE corrected
        /\ UNCHANGED <<late, job, asked, born, foreign>>

TimePasses ==
  /\ pool.status \in {"FINALIZED", "VOID"}
  /\ ~late
  /\ late' = TRUE
  /\ UNCHANGED <<pool, cells, job, asked, born, corrected, foreign>>

\* A deposit that leaves the TreasuryCell where it is and makes another one:
\* pool_type looks at the output treasury only.
ForeignDeposit(h, want) ==
  /\ foreign < MaxForeign
  /\ pool.status = "OPEN" /\ pool.variant = "XUDT"
  /\ LET next == Continue(pool, want, pool.capacity)
     IN  \E S \in collectAssetCells(CellsOf(cells, "stake", h), Staked(next)) :
           LET tx == attachCodeDep(
                       Tx(pool, next, S,
                          Minted(h, want)
                            \union {Out("treasury", "pool", Staked(next))}
                            \union OutIf("stake", h, Total(S) - Staked(next))),
                       PoolDeps(pool) \union {"share_xudt"})
           IN  Accepts(tx, h) /\ Land(tx, SeenPools, SeenCells)
  /\ foreign' = foreign + 1
  /\ UNCHANGED <<late, job, asked, born, corrected>>

(***************************************************************************)
(* The system.                                                             *)
(***************************************************************************)
Init ==
  /\ pool = NoPool
  /\ cells = {[kind |-> "plain", owner |-> Creator, amount |-> 0, n |-> 0]}
       \union UNION {{[kind |-> "stake", owner |-> h, amount |-> a, n |-> 0] :
                        a \in Purses[h]} : h \in Holders}
  /\ late = FALSE
  /\ job = [w \in Players |-> Idle]
  /\ asked = [h \in Holders |-> 0]
  /\ born = FALSE
  /\ corrected = 0
  /\ foreign = 0

Ask(h) ==
  \/ \E want \in Stakes[h] : AskDeposit(h, want)
  \/ \E want \in Pulls : AskWithdraw(h, want)
  \/ AskRedeem(h)
  \/ \E sides \in BurnSides : AskBurn(h, sides)

Serve(who) == Read(who) \/ Complete(who) \/ signAndSend(who)

Next ==
  \/ \E h \in Holders : Ask(h)
  \/ \E round \in Rounds : draftCreate(round)
  \/ draftClose
  \/ \E who \in Players : Serve(who)
  \/ Transition
  \/ TimePasses
  \/ \E h \in Holders : \E want \in Stakes[h] : ForeignDeposit(h, want)

Spec == Init /\ [][Next]_vars

(***************************************************************************)
(* What workflows.ts drafts the contracts accept: a completed draft whose  *)
(* inputs are all live when it is sent breaks no rule of pool_type,        *)
(* share_xudt, treasury_lock, pool_admin_lock, the asset or the node, and  *)
(* points to every script that runs, however old the reads it is built     *)
(* from and whatever landed between them.  A close may still name a header *)
(* that is too early: the keeper asks by its own clock.                    *)
(***************************************************************************)
DraftsStand ==
  \A who \in Players :
    /\ job[who].at = "complete"
    /\ Live(job[who].tx)
    /\ job[who].order.op = "close" => job[who].tx.header
    => Accepts(job[who].tx, who)

(***************************************************************************)
(* Once the PoolCell is gone no treasury cell is left behind, which        *)
(* treasury_lock would never open again.  validate_close does not ask for  *)
(* the treasury, and a deposit may leave a second one (main.rs): it is     *)
(* close.ts and findTreasuryCell that every close takes all there is.      *)
(***************************************************************************)
NothingOrphaned == pool = NoPool => OfKind(cells, "treasury") = {}

(***************************************************************************)
(* What everybody has, as Accounts sees it, and what they have asked for.  *)
(***************************************************************************)
bank == [w \in Players |-> Total(CellsOf(cells, "stake", w))]
shares == [w \in Players |-> [s \in Side |-> Total(CellsOf(cells, s, w))]]
pot == Amount(cells, "treasury") + IF pool = NoPool THEN 0 ELSE pool.capacity
round == IF pool = NoPool THEN pool
         ELSE [f \in {"status", "winner", "total", "rake_bps"} |-> pool[f]]
orders == [w \in Players |-> IF job[w] = Idle THEN [op |-> "none"] ELSE job[w].order]

Abstract == INSTANCE Accounts WITH order <- orders

(***************************************************************************)
(* The cells keep the books of Accounts: whatever was read when, nobody's  *)
(* stake or shares change but by what he himself signed, and an order that *)
(* lands does all of what it says, the change that comes back included.    *)
(***************************************************************************)
ImplementsAccounts == Abstract!Spec
=============================================================================
