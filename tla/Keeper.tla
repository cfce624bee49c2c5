------------------------------- MODULE Keeper -------------------------------
(***************************************************************************)
(* The keeper drives one pool: a wake reads the chain's time, the pool and *)
(* the oracle cell, one await after the other; decide picks an action from *)
(* what was read; under the wallet mutex the SDK builds the transaction    *)
(* from the pool as it is then, and it is broadcast.  Everybody else goes  *)
(* on submitting transactions of Pool in between.                          *)
(*                                                                         *)
(* A broadcast writes what the keeper built as soon as the cells it names  *)
(* are live.  That the contract would have accepted it is not assumed: it  *)
(* is the property ImplementsPool.                                         *)
(*                                                                         *)
(* One wake is followed.  Others that overlap it are among everybody else. *)
(***************************************************************************)
EXTENDS Pool

\* The keeper computes times without a width.  Rounds whose deadlines do not
\* reach the end of u64 are the only ones it can be right about.
ASSUME RoundsFit ==
  \A c \in Configs : c.close_time + CLOSE_GRACE_MAX_SECS <= MaxU64

VARIABLES
  cell,      \* the live oracle cell of the feed: {} or {[t |-> _, p |-> _]}
  logged,    \* actions of this pool with an unfailed row in tx_log
  stage,     \* how far the wake has come
  now,       \* block time read when it began
  seen,      \* the pool as it read it: {} or {view}
  tick,      \* the oracle cell as it read it
  kind,      \* the action it decided on
  draft,     \* the transaction it sent: {} or {the next PoolData}
  live,      \* nobody has spent a cell under the draft
  sweepable  \* what a close looks up is there: of an xUDT pool exactly one
             \* treasury cell, and a plain cell of the creator

wake == <<stage, now, seen, tick, kind, draft, live>>
keeper == <<cell, logged, wake, sweepable>>
keeper_vars == <<vars, keeper>>

Kinds == {"activate", "correct-start", "resolve", "correct-settle", "finalize", "close"}

\* PoolView: what readPool decodes from the PoolCell.
View == [status |-> status, winner |-> winner, total |-> total,
         start_price |-> start_price, settle_price |-> settle_price,
         used_pt |-> used_pt, config |-> config]

-----------------------------------------------------------------------------
(***************************************************************************)
(* The decision core.  bigint: no width.                                   *)
(***************************************************************************)
sdk_duration(v) == v.config.close_time - v.config.start_time
voidTimeOfPool(v) == v.config.close_time + grace(sdk_duration(v))
closeTimeOfPool(v) ==
  v.config.close_time
    + Clamp(sdk_duration(v) * CLOSE_GRACE_MULT, CLOSE_GRACE_MIN_SECS, CLOSE_GRACE_MAX_SECS)

sdk_oneSided(v) == v.total["UP"] = 0 \/ v.total["DOWN"] = 0

locks(v, pt) ==
  ~sdk_oneSided(v) /\ pt >= v.config.start_time /\ pt < v.config.close_time
voids(v, pt) ==
  (sdk_oneSided(v) /\ pt >= v.config.start_time) \/ pt >= v.config.close_time

\* Mutant: a LOCKED round whose window has passed is left alone.
decideOnlyInWindow(v, at, pt) ==
  \/ v.status = "OPEN" /\ (locks(v, pt) \/ voids(v, pt))
  \/ v.status = "LOCKED" /\ at >= v.config.close_time
       /\ pt >= v.config.close_time /\ pt < voidTimeOfPool(v)

\* OPEN -> activate and LOCKED -> resolve, into either of their outcomes.
decideForward(v, at, pt) ==
  \/ v.status = "OPEN" /\ (locks(v, pt) \/ voids(v, pt))
  \/ v.status = "LOCKED" /\ at >= v.config.close_time /\ pt >= v.config.close_time

\* Mutant: the recorded tick itself is taken for a correction.
decideSameTick(v, at, pt) ==
  \/ /\ v.status = "LOCKED" /\ at < v.config.close_time
     /\ pt >= v.config.start_time /\ pt <= v.used_pt
  \/ /\ v.status = "SETTLED" /\ at < voidTimeOfPool(v)
     /\ pt >= v.config.close_time /\ pt <= v.used_pt

decideCorrection(v, at, pt) ==
  \/ /\ v.status = "LOCKED" /\ at < v.config.close_time
     /\ pt >= v.config.start_time /\ pt < v.used_pt
  \/ /\ v.status = "SETTLED" /\ at < voidTimeOfPool(v)
     /\ pt >= v.config.close_time /\ pt < v.used_pt

forwardKind(v) == IF v.status = "OPEN" THEN "activate" ELSE "resolve"
correctionKind(v) == IF v.status = "LOCKED" THEN "correct-start" ELSE "correct-settle"

decideTick(v, at, pt) ==
  {k \in Kinds :
    \/ k = forwardKind(v) /\ decideForward(v, at, pt)
    \/ k = correctionKind(v) /\ decideCorrection(v, at, pt)
    \/ /\ k = "finalize" /\ v.status = "SETTLED"
       /\ ~decideCorrection(v, at, pt) /\ pt >= voidTimeOfPool(v)}

\* Mutant: the pool may be closed at the deadline.
decideCloseAtDeadline(v, at) ==
  v.status \in {"VOID", "FINALIZED"} /\ at >= closeTimeOfPool(v)

decideClose(v, at) == v.status \in {"VOID", "FINALIZED"} /\ at > closeTimeOfPool(v)

decide(v, at, oracle) ==
  {k \in {"close"} : decideClose(v, at)}
    \cup UNION {decideTick(v, at, o.t) : o \in oracle}

nextBoundary(v) ==
  CASE v.status = "OPEN" -> v.config.start_time
    [] v.status = "LOCKED" -> v.config.close_time
    [] v.status = "SETTLED" -> voidTimeOfPool(v)
    [] OTHER -> closeTimeOfPool(v)

-----------------------------------------------------------------------------
(***************************************************************************)
(* The SDK's transition builders: the next PoolData, or {} when they throw.*)
(***************************************************************************)
buildActivate(v, o) ==
  IF v.status # "OPEN" THEN {}
  ELSE IF locks(v, o.t)
       THEN {[v EXCEPT !.status = "LOCKED", !.start_price = o.p, !.used_pt = o.t]}
  ELSE IF voids(v, o.t)
       THEN {[v EXCEPT !.status = "VOID", !.winner = "VOID", !.start_price = 0,
                       !.settle_price = 0, !.used_pt = 0]}
  ELSE {}

buildCorrectStart(v, o) ==
  IF v.status = "LOCKED" /\ o.t >= v.config.start_time /\ o.t < v.used_pt
  THEN {[v EXCEPT !.start_price = o.p, !.used_pt = o.t]}
  ELSE {}

\* Mutant: a round that was not resolved in time is not voided.
buildResolveInTime(v, o) ==
  IF v.status = "LOCKED" /\ o.t >= v.config.close_time /\ o.t < voidTimeOfPool(v)
  THEN {[v EXCEPT !.status = "SETTLED", !.settle_price = o.p, !.used_pt = o.t,
                  !.winner = winner_for(o.p, v.start_price)]}
  ELSE {}

buildResolve(v, o) ==
  IF v.status # "LOCKED" THEN {}
  ELSE IF o.t >= voidTimeOfPool(v)
       THEN {[v EXCEPT !.status = "VOID", !.winner = "VOID"]}
  ELSE IF o.t >= v.config.close_time
       THEN {[v EXCEPT !.status = "SETTLED", !.settle_price = o.p, !.used_pt = o.t,
                       !.winner = winner_for(o.p, v.start_price)]}
  ELSE {}

buildCorrectSettle(v, o) ==
  IF v.status = "SETTLED" /\ o.t >= v.config.close_time /\ o.t < v.used_pt
  THEN {[v EXCEPT !.settle_price = o.p, !.used_pt = o.t,
                  !.winner = winner_for(o.p, v.start_price)]}
  ELSE {}

buildFinalize(v, o) ==
  IF v.status = "SETTLED" /\ o.t >= voidTimeOfPool(v)
  THEN {[v EXCEPT !.status = "FINALIZED"]}
  ELSE {}

\* Throws as well on a second treasury cell or none, and without a plain cell.
buildClose(v) ==
  IF v.status \in {"FINALIZED", "VOID"} /\ sweepable
  THEN {[v EXCEPT !.status = "CLOSED"]}
  ELSE {}

buildTransition(k, v, oracle) ==
  UNION {CASE k = "activate" -> buildActivate(v, o)
           [] k = "correct-start" -> buildCorrectStart(v, o)
           [] k = "resolve" -> buildResolve(v, o)
           [] k = "correct-settle" -> buildCorrectSettle(v, o)
           [] k = "finalize" -> buildFinalize(v, o) : o \in oracle}

built(k, v, oracle) ==
  IF k = "close" THEN buildClose(v) ELSE buildTransition(k, v, oracle)

-----------------------------------------------------------------------------
(***************************************************************************)
(* The wake, one step per await.                                           *)
(***************************************************************************)
EndWake ==
  /\ stage' = "idle"
  /\ now' = 0
  /\ seen' = {} /\ tick' = {} /\ draft' = {}
  /\ kind' = "none"
  /\ live' = FALSE

Wake ==
  /\ stage = "idle"
  /\ stage' = "woken"
  /\ now' = header_time
  /\ UNCHANGED <<vars, cell, logged, seen, tick, kind, draft, live, sweepable>>

ReadPool ==
  /\ stage = "woken"
  /\ IF status \in {"ABSENT", "CLOSED"}
     THEN EndWake
     ELSE /\ stage' = "read"
          /\ seen' = {View}
          /\ UNCHANGED <<now, tick, kind, draft, live>>
  /\ UNCHANGED <<vars, cell, logged, sweepable>>

\* The oracle cell is read last; decide follows without an await.
Decide ==
  /\ stage = "read"
  /\ \E v \in seen :
       IF decide(v, now, cell) = {}
       THEN EndWake
       ELSE /\ stage' = "decided"
            /\ tick' = cell
            /\ kind' \in decide(v, now, cell)
            /\ UNCHANGED <<now, seen, draft, live>>
  /\ UNCHANGED <<vars, cell, logged, sweepable>>

\* Under the wallet mutex: the guard on tx_log, the row, then a draft from
\* the pool as it is now.  A builder that throws fails the row again.
Draft ==
  /\ stage = "decided"
  /\ LET next == IF kind \in logged \/ status = "CLOSED" THEN {}
                 ELSE built(kind, View, tick)
     IN  IF next = {}
         THEN EndWake /\ UNCHANGED logged
         ELSE /\ stage' = "sent"
              /\ logged' = logged \cup {kind}
              /\ draft' = next
              /\ live' = TRUE
              /\ now' = 0 /\ seen' = {}
              /\ UNCHANGED <<tick, kind>>
  /\ UNCHANGED <<vars, cell, sweepable>>

\* The transaction commits: no script is consulted here.  It needs its cells
\* live: the PoolCell, and the oracle cell it shows.
Broadcast ==
  /\ stage = "sent" /\ live
  /\ kind = "close" \/ tick = cell
  /\ \E d \in draft :
       /\ status' = d.status /\ winner' = d.winner /\ total' = d.total
       /\ start_price' = d.start_price /\ settle_price' = d.settle_price
       /\ used_pt' = d.used_pt /\ config' = d.config
       /\ start_pt' = IF kind \in {"activate", "correct-start"} THEN d.used_pt ELSE start_pt
       /\ ended_at' = IF d.status \in {"VOID", "FINALIZED"} THEN header_time ELSE ended_at
  /\ funds' = IF kind = "close" THEN 0 ELSE funds
  /\ EndWake
  /\ UNCHANGED <<supply, redeemed, redeems, clocks, cell, logged, sweepable>>

\* Mutant: a failed attempt leaves its row behind.
FailsKeepsRow ==
  /\ stage = "sent"
  /\ EndWake
  /\ UNCHANGED <<vars, cell, logged, sweepable>>

\* Rejected, or never committed while the keeper waits: the row becomes failed.
Fails ==
  /\ stage = "sent"
  /\ logged' = logged \ {kind}
  /\ EndWake
  /\ UNCHANGED <<vars, cell, sweepable>>

-----------------------------------------------------------------------------
\* The oracle worker replaces the cell by one with a later signed tick.
AdvanceCell(t, p) ==
  /\ Shown(t, p)
  /\ \A o \in cell : t > o.t
  /\ cell' = {[t |-> t, p |-> p]}
  /\ UNCHANGED <<vars, logged, wake, sweepable>>

\* Everybody else's transactions on the PoolCell.
Others ==
  /\ \/ \E c \in Configs, seed \in SeedPts : Create(c, seed)
     \/ \E up, down \in Amounts : Deposit(up, down)
     \/ PriceStep
     \/ \E up, down \in Amounts : RedeemRefund(up, down)
     \/ \E x \in Amounts : RedeemWin(x)
     \/ Close
  /\ live' = FALSE
  /\ UNCHANGED <<cell, logged, stage, now, seen, tick, kind, draft, sweepable>>

\* A deposit of other software leaves a second treasury cell or merges two, the
\* creator spends plain cells or gets some; the cell that goes may be an input
\* of the draft.  (More than can happen: some of these need an OPEN pool.)
CellsMove ==
  /\ sweepable' = ~sweepable
  /\ live' \in {live, FALSE}
  /\ UNCHANGED <<vars, cell, logged, stage, now, seen, tick, kind, draft>>

Elsewhere ==
  /\ \/ \E s \in Side, x \in Amounts : BurnShares(s, x)
     \/ \E t \in DOMAIN Feed : AdvanceFeed(t)
     \/ \E t \in HeaderTimes : AdvanceHeader(t)
  /\ UNCHANGED keeper

KeeperInit ==
  /\ Init
  /\ cell = {} /\ logged = {}
  /\ stage = "idle" /\ now = 0
  /\ seen = {} /\ tick = {} /\ draft = {}
  /\ kind = "none"
  /\ live = FALSE
  /\ sweepable = TRUE

KeeperNext ==
  \/ Wake
  \/ ReadPool
  \/ Decide
  \/ Draft
  \/ Broadcast
  \/ Fails
  \/ \E t \in DOMAIN Feed : \E p \in Feed[t] : AdvanceCell(t, p)
  \/ Others
  \/ CellsMove
  \/ Elsewhere

KeeperSpec == KeeperInit /\ [][KeeperNext]_keeper_vars

(***************************************************************************)
(* Fairness.  The clocks go on and the oracle worker follows the feed; a   *)
(* due pool is woken (its timer, the retry grid, the sweep) and a wake     *)
(* that has begun comes to its end.  Nobody but the keeper owes anything.  *)
(* Strong fairness of Broadcast: the keeper retries for as long as it      *)
(* takes, on what it has read afresh, and does not lose every single race  *)
(* for the PoolCell against deposits.                                      *)
(***************************************************************************)
Due == status \notin {"ABSENT", "CLOSED"} /\ header_time >= nextBoundary(View)

KeeperFairness ==
  /\ WF_keeper_vars(Elsewhere /\ clocks' # clocks)
  /\ WF_keeper_vars(\E t \in DOMAIN Feed : \E p \in Feed[t] : AdvanceCell(t, p))
  /\ WF_keeper_vars(Wake /\ Due)
  /\ WF_keeper_vars(ReadPool)
  /\ WF_keeper_vars(Decide)
  /\ WF_keeper_vars(Draft)
  /\ WF_keeper_vars(Fails)
  /\ SF_keeper_vars(Broadcast)

KeeperFairSpec == KeeperSpec /\ KeeperFairness

-----------------------------------------------------------------------------
(***************************************************************************)
(* Properties.                                                             *)
(***************************************************************************)

(* Whatever the keeper builds, on however old a decision, is a transition  *)
(* that the contract accepts: Broadcast, which asks no script, is always a *)
(* step of Pool.                                                           *)
ImplementsPool == Spec

(* decide and the builder agree: if nobody touched the pool since it was   *)
(* read, what was decided can be built.  Of the cells that a close needs   *)
(* beside the pool, the one treasury and a plain cell of the creator,      *)
(* decide knows nothing: they alone may be missing.                        *)
DecisionBuildable ==
  stage = "decided" /\ seen = {View} =>
    built(kind, View, tick) # {} \/ (kind = "close" /\ ~sweepable)

(* Once the oracle cell has the tick of the boundary the pool waits for,   *)
(* and blocks have passed that boundary, a wake finds something to do: a   *)
(* due pool is never left to the next boundary.  The boundaries are the    *)
(* contract's own.                                                         *)
ContractBoundary ==
  CASE status = "OPEN" -> config.start_time
    [] status = "LOCKED" -> config.close_time
    [] status = "SETTLED" -> void_time
    [] OTHER -> closable_after

OverdueIsActionable ==
  /\ status \notin {"ABSENT", "CLOSED"}
  /\ header_time > ContractBoundary
  /\ status \in {"VOID", "FINALIZED"} \/ \E o \in cell : o.t >= ContractBoundary
  => decide(View, header_time, cell) # {}

(* A row in tx_log never stands in the way of an action that is due: while *)
(* no transaction is out, what decide wants has no row.  For corrections   *)
(* this rests on the oracle cell, which only moves later: the second one   *)
(* that a committed row would block is never called for.                   *)
RowsNeverBlock ==
  stage # "sent" => logged \cap decide(View, header_time, cell) = {}

(* With the keeper alone obliged to act, every round is driven to its      *)
(* result, whatever everybody else does meanwhile.  Its PoolCell is given  *)
(* back too unless a second treasury, or the lack of a plain cell, keeps   *)
(* standing in the way of the sweep.                                       *)
Driven ==
  /\ status = "OPEN" ~> status \in {"VOID", "FINALIZED", "CLOSED"}
  /\ <>[]sweepable => (status = "OPEN" ~> status = "CLOSED")
=============================================================================
