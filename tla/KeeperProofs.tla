---------------------------- MODULE KeeperProofs ----------------------------
(***************************************************************************)
(* Proofs about Keeper, for every feed, set of configurations and width:   *)
(* what it broadcasts is accepted by the contract (the refinement of Pool),*)
(* what it decides can be built, a due pool is acted upon, and tx_log does *)
(* not block what is due.                                                  *)
(***************************************************************************)
EXTENDS Keeper, PoolProofs

(***************************************************************************)
(* The keeper's times are the contract's.                                  *)
(***************************************************************************)
Configured ==
  status # "ABSENT" => config \in Configs /\ config.start_time < config.close_time

LEMMA ViewFields ==
  /\ View.status = status /\ View.winner = winner /\ View.total = total
  /\ View.start_price = start_price /\ View.settle_price = settle_price
  /\ View.used_pt = used_pt /\ View.config = config
BY DEF View

LEMMA GraceAtMost ==
  ASSUME NEW n \in Nat
  PROVE  /\ grace(n) \in Nat /\ grace(n) <= CLOSE_GRACE_MAX_SECS
         /\ close_grace(n) \in Nat /\ close_grace(n) <= CLOSE_GRACE_MAX_SECS
         /\ MaxU64 >= CLOSE_GRACE_MAX_SECS =>
              close_grace(n) = Clamp(n * CLOSE_GRACE_MULT, CLOSE_GRACE_MIN_SECS,
                                     CLOSE_GRACE_MAX_SECS)
<1>1. n * CLOSE_GRACE_MULT \in Nat
  BY DEF CLOSE_GRACE_MULT
<1>2. grace(n) \in GRACE_MIN_SECS .. GRACE_MAX_SECS
  BY GraceRange
<1>3. grace(n) \in Nat /\ grace(n) <= CLOSE_GRACE_MAX_SECS
  BY <1>2 DEF GRACE_MIN_SECS, GRACE_MAX_SECS, CLOSE_GRACE_MAX_SECS
<1>4. saturating_mul(n, CLOSE_GRACE_MULT) \in Nat
  BY <1>1, WidthAssumption DEF saturating_mul
<1>5. close_grace(n) \in Nat /\ close_grace(n) <= CLOSE_GRACE_MAX_SECS
  BY <1>4 DEF close_grace, Clamp, CLOSE_GRACE_MIN_SECS, CLOSE_GRACE_MAX_SECS
<1>6. ASSUME MaxU64 >= CLOSE_GRACE_MAX_SECS
      PROVE  close_grace(n) = Clamp(n * CLOSE_GRACE_MULT, CLOSE_GRACE_MIN_SECS,
                                    CLOSE_GRACE_MAX_SECS)
  BY <1>1, <1>6, WidthAssumption DEF close_grace, Clamp, saturating_mul,
     CLOSE_GRACE_MIN_SECS, CLOSE_GRACE_MAX_SECS
<1> QED
  BY <1>3, <1>5, <1>6

LEMMA TimesMirrored ==
  ASSUME Basic, Configured, status # "ABSENT"
  PROVE  /\ voidTimeOfPool(View) = void_time
         /\ closeTimeOfPool(View) = closable_after
         /\ void_time \in Nat /\ closable_after \in Nat
         /\ config.close_time <= void_time
<1>1. /\ config.start_time \in Nat /\ config.close_time \in Nat
      /\ config.start_time < config.close_time
      /\ config.close_time + CLOSE_GRACE_MAX_SECS <= MaxU64
  BY RoundsFit, WidthAssumption DEF Configured, Basic, TypeOK
<1> DEFINE n == config.close_time - config.start_time
<1>2. n \in Nat /\ duration = n /\ sdk_duration(View) = n
  BY <1>1, ViewFields DEF duration, saturating_sub, sdk_duration
<1>3. MaxU64 \in Nat /\ MaxU64 >= CLOSE_GRACE_MAX_SECS
  BY <1>1, WidthAssumption DEF CLOSE_GRACE_MAX_SECS
<1>4. /\ grace(n) \in Nat /\ grace(n) <= CLOSE_GRACE_MAX_SECS
      /\ close_grace(n) \in Nat /\ close_grace(n) <= CLOSE_GRACE_MAX_SECS
      /\ close_grace(n) = Clamp(n * CLOSE_GRACE_MULT, CLOSE_GRACE_MIN_SECS,
                                CLOSE_GRACE_MAX_SECS)
  BY <1>2, <1>3, GraceAtMost
<1>5. void_time = config.close_time + grace(n)
  BY <1>1, <1>2, <1>3, <1>4 DEF void_time, saturating_add, CLOSE_GRACE_MAX_SECS
<1>6. closable_after = config.close_time + close_grace(n)
  BY <1>1, <1>2, <1>3, <1>4 DEF closable_after, saturating_add, CLOSE_GRACE_MAX_SECS
<1>7. voidTimeOfPool(View) = void_time
  BY <1>2, <1>5, ViewFields DEF voidTimeOfPool
<1>8. closeTimeOfPool(View) = closable_after
  BY <1>2, <1>4, <1>6, ViewFields DEF closeTimeOfPool
<1> QED
  BY <1>1, <1>4, <1>5, <1>6, <1>7, <1>8

(***************************************************************************)
(* The invariant of a wake.                                                *)
(***************************************************************************)
Fresh ==
  status \in {"ABSENT", "OPEN", "LOCKED"} => winner = "UNDECIDED" /\ settle_price = 0

CellsShown == \A o \in cell \cup tick : Shown(o.t, o.p)

(* What was read is of the pool that is still there; the deadline that a   *)
(* decided CLOSE waited for is behind; a draft whose PoolCell is live is   *)
(* what the builder makes of the pool as it is, also when the cells that   *)
(* it looked up have come or gone since.                                   *)
sweptClose(v) ==
  IF v.status \in {"FINALIZED", "VOID"} THEN {[v EXCEPT !.status = "CLOSED"]} ELSE {}

drafted(k, v, oracle) ==
  IF k = "close" THEN sweptClose(v) ELSE buildTransition(k, v, oracle)

WakeInv ==
  /\ now \in Nat /\ now <= header_time
  /\ stage \in {"read", "decided", "sent"} => status # "ABSENT"
  /\ \A v, w \in seen : v = w
  /\ stage \in {"read", "decided"} => \A v \in seen : v.config = config
  /\ stage \in {"decided", "sent"} => kind \in Kinds
  /\ stage \in {"decided", "sent"} /\ kind = "close" => header_time > closable_after
  /\ stage = "decided" => \A v \in seen : kind \in decide(v, now, tick)
  /\ stage = "sent" /\ live => draft \subseteq drafted(kind, View, tick)

DriveInv == Configured /\ Fresh /\ CellsShown /\ WakeInv

(***************************************************************************)
(* Refinement.  Each builder's outcome is an arm of the contract.          *)
(***************************************************************************)
Writes(d) ==
  /\ status' = d.status /\ winner' = d.winner /\ total' = d.total
  /\ start_price' = d.start_price /\ settle_price' = d.settle_price
  /\ used_pt' = d.used_pt /\ config' = d.config
  /\ start_pt' = IF kind \in {"activate", "correct-start"} THEN d.used_pt ELSE start_pt
  /\ ended_at' = IF d.status \in {"VOID", "FINALIZED"} THEN header_time ELSE ended_at

LEMMA CloseAccepted ==
  ASSUME Basic, DriveInv, Broadcast, kind = "close",
         NEW d \in sweptClose(View), Writes(d)
  PROVE  Close
<1>1. status \in {"FINALIZED", "VOID"} /\ d = [View EXCEPT !.status = "CLOSED"]
  BY ViewFields DEF sweptClose
<1>2. /\ d.status = "CLOSED" /\ d.winner = winner /\ d.total = total
      /\ d.start_price = start_price /\ d.settle_price = settle_price
      /\ d.used_pt = used_pt /\ d.config = config
  BY <1>1 DEF View
<1>3. header_time > closable_after
  BY DEF DriveInv, WakeInv, Broadcast
<1>4. funds' = 0 /\ funds \in Nat
  BY DEF Broadcast, Basic, TypeOK
<1> QED
  BY <1>1, <1>2, <1>3, <1>4 DEF Close, Writes, Broadcast, history

LEMMA TransitionAccepted ==
  ASSUME Basic, DriveInv, Broadcast, kind # "close", NEW o \in tick,
         NEW d \in buildTransition(kind, View, {o}), Writes(d)
  PROVE  Activate(o.t, o.p) \/ Correct(o.t, o.p) \/ Resolve(o.t, o.p) \/ Finalize(o.t, o.p)
<1>1. Shown(o.t, o.p) /\ status # "ABSENT" /\ kind \in Kinds
  BY DEF DriveInv, CellsShown, WakeInv, Broadcast
<1>2. /\ o.t \in Nat /\ o.p \in Int /\ used_pt \in Nat /\ void_time \in Nat
      /\ config.start_time \in Nat /\ config.close_time \in Nat
      /\ config.close_time <= void_time /\ voidTimeOfPool(View) = void_time
  BY <1>1, TimesMirrored, PoolAssumption, WidthAssumption
     DEF DriveInv, Basic, TypeOK, Shown
<1>3. sdk_oneSided(View) = OneSided
  BY ViewFields DEF sdk_oneSided, OneSided
<1>4. ASSUME d.total = total, d.config = config
      PROVE  phase_frozen
  BY <1>4 DEF Writes, Broadcast, phase_frozen, money
<1>5. CASE kind = "activate"
  <2>1. d \in buildActivate(View, o)
    BY <1>5 DEF buildTransition
  <2>2. status = "OPEN" /\ winner = "UNDECIDED" /\ settle_price = 0
    BY <2>1, ViewFields DEF buildActivate, DriveInv, Fresh
  <2>3. CASE locks(View, o.t)
    <3>1. d = [View EXCEPT !.status = "LOCKED", !.start_price = o.p, !.used_pt = o.t]
      BY <2>1, <2>3 DEF buildActivate
    <3>2. /\ d.status = "LOCKED" /\ d.winner = winner /\ d.total = total
          /\ d.start_price = o.p /\ d.settle_price = settle_price
          /\ d.used_pt = o.t /\ d.config = config
      BY <3>1 DEF View
    <3>3. ~OneSided /\ config.start_time <= o.t /\ o.t < config.close_time
      BY <1>2, <1>3, <2>3, ViewFields DEF locks
    <3> QED
      BY <1>1, <1>4, <1>5, <2>2, <3>2, <3>3
         DEF Writes, Activate, ActivateLock, set_start_tick
  <2>4. CASE ~locks(View, o.t)
    <3>1. /\ d = [View EXCEPT !.status = "VOID", !.winner = "VOID", !.start_price = 0,
                              !.settle_price = 0, !.used_pt = 0]
          /\ voids(View, o.t)
      BY <2>1, <2>4 DEF buildActivate
    <3>2. /\ d.status = "VOID" /\ d.winner = "VOID" /\ d.total = total
          /\ d.start_price = 0 /\ d.settle_price = 0
          /\ d.used_pt = 0 /\ d.config = config
      BY <3>1 DEF View
    <3>3. (OneSided /\ o.t >= config.start_time) \/ o.t >= config.close_time
      BY <1>3, <3>1, ViewFields DEF voids
    <3> QED
      BY <1>1, <1>4, <1>5, <2>2, <3>2, <3>3 DEF Writes, Activate, ActivateVoid
  <2> QED
    BY <2>3, <2>4
<1>6. CASE kind = "correct-start"
  <2>1. /\ status = "LOCKED" /\ o.t >= config.start_time /\ o.t < used_pt
        /\ d = [View EXCEPT !.start_price = o.p, !.used_pt = o.t]
    BY <1>6, ViewFields DEF buildTransition, buildCorrectStart
  <2>2. /\ d.status = status /\ d.winner = winner /\ d.total = total
        /\ d.start_price = o.p /\ d.settle_price = settle_price
        /\ d.used_pt = o.t /\ d.config = config
    BY <2>1 DEF View
  <2>3. winner = "UNDECIDED" /\ settle_price = 0
    BY <2>1 DEF DriveInv, Fresh
  <2> QED
    BY <1>1, <1>2, <1>4, <1>6, <2>1, <2>2, <2>3
       DEF Writes, Correct, CorrectStart, set_start_tick
<1>7. CASE kind = "resolve"
  <2>1. d \in buildResolve(View, o) /\ status = "LOCKED"
    BY <1>7, ViewFields DEF buildTransition, buildResolve
  <2>2. CASE o.t >= void_time
    <3>1. d = [View EXCEPT !.status = "VOID", !.winner = "VOID"]
      BY <1>2, <2>1, <2>2, ViewFields DEF buildResolve
    <3>2. /\ d.status = "VOID" /\ d.winner = "VOID" /\ d.total = total
          /\ d.start_price = start_price /\ d.settle_price = settle_price
          /\ d.used_pt = used_pt /\ d.config = config
      BY <3>1 DEF View
    <3> QED
      BY <1>1, <1>4, <1>7, <2>1, <2>2, <3>2 DEF Writes, Resolve, ResolveVoid, window_over
  <2>3. CASE ~(o.t >= void_time)
    <3>1. /\ d = [View EXCEPT !.status = "SETTLED", !.settle_price = o.p, !.used_pt = o.t,
                              !.winner = winner_for(o.p, start_price)]
          /\ o.t >= config.close_time
      BY <1>2, <2>1, <2>3, ViewFields DEF buildResolve
    <3>2. /\ d.status = "SETTLED" /\ d.winner = winner_for(o.p, start_price)
          /\ d.total = total /\ d.start_price = start_price /\ d.settle_price = o.p
          /\ d.used_pt = o.t /\ d.config = config
      BY <3>1 DEF View
    <3>3. config.close_time <= o.t /\ o.t < void_time
      BY <1>2, <2>3, <3>1
    <3> QED
      BY <1>1, <1>4, <1>7, <2>1, <3>2, <3>3
         DEF Writes, Resolve, ResolveSettle, set_settle_tick, history
  <2> QED
    BY <2>2, <2>3
<1>8. CASE kind = "correct-settle"
  <2>1. /\ status = "SETTLED" /\ o.t >= config.close_time /\ o.t < used_pt
        /\ d = [View EXCEPT !.settle_price = o.p, !.used_pt = o.t,
                            !.winner = winner_for(o.p, start_price)]
    BY <1>8, ViewFields DEF buildTransition, buildCorrectSettle
  <2>2. /\ d.status = status /\ d.winner = winner_for(o.p, start_price)
        /\ d.total = total /\ d.start_price = start_price /\ d.settle_price = o.p
        /\ d.used_pt = o.t /\ d.config = config
    BY <2>1 DEF View
  <2> QED
    BY <1>1, <1>2, <1>4, <1>8, <2>1, <2>2
       DEF Writes, Correct, CorrectSettle, set_settle_tick, history
<1>9. CASE kind = "finalize"
  <2>1. /\ status = "SETTLED" /\ o.t >= void_time
        /\ d = [View EXCEPT !.status = "FINALIZED"]
    BY <1>2, <1>9, ViewFields DEF buildTransition, buildFinalize
  <2>2. /\ d.status = "FINALIZED" /\ d.winner = winner /\ d.total = total
        /\ d.start_price = start_price /\ d.settle_price = settle_price
        /\ d.used_pt = used_pt /\ d.config = config
    BY <2>1 DEF View
  <2> QED
    BY <1>1, <1>4, <1>9, <2>1, <2>2 DEF Writes, Finalize, window_over
<1> QED
  BY <1>1, <1>5, <1>6, <1>7, <1>8, <1>9 DEF Kinds

LEMMA BroadcastAccepted ==
  ASSUME Basic, DriveInv, Broadcast
  PROVE  Next
<1>1. PICK d \in draft : Writes(d)
  BY DEF Broadcast, Writes
<1>2. d \in drafted(kind, View, tick)
  BY <1>1 DEF DriveInv, WakeInv, Broadcast
<1>3. CASE kind = "close"
  BY <1>1, <1>2, <1>3, CloseAccepted DEF drafted, Next
<1>4. CASE kind # "close"
  <2>1. PICK o \in tick : d \in buildTransition(kind, View, {o})
    BY <1>2, <1>4 DEF drafted, buildTransition
  <2>2. o.t \in DOMAIN Feed /\ o.p \in Feed[o.t]
    BY <2>1 DEF DriveInv, CellsShown, Shown
  <2> QED
    BY <1>1, <1>4, <2>1, <2>2, TransitionAccepted DEF Next, PriceStep
<1> QED
  BY <1>3, <1>4

LEMMA StepRefines == Basic /\ DriveInv /\ [KeeperNext]_keeper_vars => [Next]_vars
<1> SUFFICES ASSUME Basic, DriveInv, [KeeperNext]_keeper_vars
             PROVE  [Next]_vars
  OBVIOUS
<1>1. CASE Broadcast
  BY <1>1, BroadcastAccepted
<1>2. CASE Others
  BY <1>2 DEF Others, Next
<1>3. CASE Elsewhere
  BY <1>3 DEF Elsewhere, Next
<1>4. CASE UNCHANGED vars
  BY <1>4
<1>5. CASE Wake \/ ReadPool \/ Decide \/ Draft \/ Fails \/ CellsMove
  BY <1>4, <1>5 DEF Wake, ReadPool, Decide, Draft, Fails, CellsMove
<1>6. CASE \E t \in DOMAIN Feed : \E p \in Feed[t] : AdvanceCell(t, p)
  BY <1>4, <1>6 DEF AdvanceCell
<1> QED
  BY <1>1, <1>2, <1>3, <1>4, <1>5, <1>6 DEF KeeperNext, keeper_vars

(***************************************************************************)
(* DriveInv is inductive relative to Basic.                                *)
(***************************************************************************)
(* What any step of the pool leaves as it was.                             *)
LEMMA PoolMoves ==
  ASSUME Basic, Configured, Fresh, [Next]_vars
  PROVE  /\ Configured' /\ Fresh'
         /\ feed_time \in Nat /\ feed_time' \in Nat /\ feed_time' >= feed_time
         /\ header_time \in Nat /\ header_time' \in Nat /\ header_time' >= header_time
         /\ status # "ABSENT" => status' # "ABSENT" /\ config' = config
<1> USE DEF Configured, Fresh
<1>1. feed_time \in Nat /\ header_time \in Nat
  BY DEF Basic, TypeOK
<1>2. ASSUME NEW c \in Configs, NEW seed \in SeedPts, Create(c, seed)
      PROVE  /\ Configured' /\ Fresh' /\ UNCHANGED <<feed_time, header_time>>
             /\ status = "ABSENT"
  BY <1>2 DEF Create, ValidConfig, clocks
<1>3. CASE PriceStep
  <2>1. UNCHANGED <<config, feed_time, header_time>> /\ status \in {"OPEN", "LOCKED", "SETTLED"}
    BY <1>3, PriceFreezes DEF phase_frozen, clocks
  <2>2. status' # "ABSENT" /\ Fresh'
    BY <1>3 DEF PriceStep, Activate, Correct, Resolve, ActivateLock, ActivateVoid,
       CorrectStart, ResolveSettle, ResolveVoid, CorrectSettle, Finalize, set_start_tick,
       set_settle_tick
  <2> QED
    BY <1>1, <2>1, <2>2
<1>4. ASSUME NEW up \in Amounts, NEW down \in Amounts, Deposit(up, down)
      PROVE  UNCHANGED <<status, winner, settle_price, config, feed_time, header_time>>
  BY <1>4 DEF Deposit, clocks
<1>5. ASSUME NEW burned, NEW amount, Pay(burned, amount)
      PROVE  UNCHANGED <<status, winner, settle_price, config, feed_time, header_time>>
  BY <1>5 DEF Pay, pool_data, clocks
<1>6. CASE Close
  BY <1>1, <1>6 DEF Close, clocks
<1>7. ASSUME NEW r \in Side, NEW x \in Amounts, BurnShares(r, x)
      PROVE  UNCHANGED <<status, winner, settle_price, config, feed_time, header_time>>
  BY <1>7 DEF BurnShares, pool_data, clocks
<1>8. ASSUME NEW t \in DOMAIN Feed, AdvanceFeed(t)
      PROVE  /\ UNCHANGED <<status, winner, settle_price, config, header_time>>
             /\ feed_time' \in Nat /\ feed_time' >= feed_time
  BY <1>1, <1>8, PoolAssumption DEF AdvanceFeed, pool_data
<1>9. ASSUME NEW t \in HeaderTimes, AdvanceHeader(t)
      PROVE  /\ UNCHANGED <<status, winner, settle_price, config, feed_time>>
             /\ header_time' \in Nat /\ header_time' >= header_time
  BY <1>1, <1>9, PoolAssumption DEF AdvanceHeader, pool_data
<1>10. CASE UNCHANGED vars
  BY <1>1, <1>10 DEF vars, pool_data, clocks
<1>11. CASE UNCHANGED <<status, winner, settle_price, config, feed_time, header_time>>
  BY <1>1, <1>11
<1>12. CASE \E c \in Configs, seed \in SeedPts : Create(c, seed)
  BY <1>1, <1>2, <1>12
<1>13. CASE \E up, down \in Amounts : Deposit(up, down)
  BY <1>4, <1>11, <1>13
<1>14. CASE \/ \E up, down \in Amounts : RedeemRefund(up, down)
            \/ \E x \in Amounts : RedeemWin(x)
  BY <1>5, <1>11, <1>14 DEF RedeemRefund, RedeemWin
<1>15. CASE \E r \in Side, x \in Amounts : BurnShares(r, x)
  BY <1>7, <1>11, <1>15
<1>16. CASE \E t \in DOMAIN Feed : AdvanceFeed(t)
  BY <1>1, <1>8, <1>16
<1>17. CASE \E t \in HeaderTimes : AdvanceHeader(t)
  BY <1>1, <1>9, <1>17
<1> QED
  BY <1>3, <1>6, <1>10, <1>12, <1>13, <1>14, <1>15, <1>16, <1>17 DEF Next

LEMMA DriveInit == KeeperInit => DriveInv
BY DEF KeeperInit, Init, DriveInv, Configured, Fresh, CellsShown, WakeInv

LEMMA CellsStep ==
  ASSUME Basic, DriveInv, [KeeperNext]_keeper_vars
  PROVE  CellsShown'
<1>1. [Next]_vars
  BY StepRefines
<1>2. feed_time \in Nat /\ feed_time' \in Nat /\ feed_time' >= feed_time
  BY <1>1, PoolMoves DEF DriveInv
<1>3. ASSUME NEW t, NEW p, Shown(t, p)
      PROVE  Shown(t, p)'
  BY <1>2, <1>3, PoolAssumption DEF Shown
<1>4. CASE cell' \subseteq cell \cup tick /\ tick' \subseteq cell \cup tick
  BY <1>3, <1>4 DEF DriveInv, CellsShown
<1>5. ASSUME NEW t \in DOMAIN Feed, NEW p \in Feed[t], AdvanceCell(t, p)
      PROVE  CellsShown'
  BY <1>3, <1>5 DEF AdvanceCell, wake, DriveInv, CellsShown
<1> QED
  BY <1>4, <1>5 DEF KeeperNext, keeper_vars, keeper, wake, Wake, ReadPool, Decide, Draft,
     Broadcast, Fails, Others, CellsMove, Elsewhere, EndWake

(* A decided CLOSE has seen the contract's deadline pass.                  *)
LEMMA DecideFacts ==
  ASSUME Basic, Configured, status # "ABSENT", NEW v, v.config = config,
         NEW at, NEW oracle, NEW k \in decide(v, at, oracle)
  PROVE  k \in Kinds /\ (k = "close" => at > closable_after)
<1>1. closeTimeOfPool(v) = closeTimeOfPool(View)
  BY ViewFields DEF closeTimeOfPool, sdk_duration
<1>2. closeTimeOfPool(v) = closable_after
  BY <1>1, TimesMirrored
<1>3. forwardKind(v) # "close" /\ correctionKind(v) # "close"
  BY DEF forwardKind, correctionKind
<1>4. CASE k = "close" /\ decideClose(v, at)
  BY <1>2, <1>4 DEF decideClose, Kinds
<1>5. ASSUME NEW o \in oracle, k \in decideTick(v, at, o.t)
      PROVE  k \in Kinds /\ k # "close"
  BY <1>3, <1>5 DEF decideTick
<1> QED
  BY <1>4, <1>5 DEF decide

LEMMA BuiltIsDrafted ==
  ASSUME NEW k, NEW v, NEW oracle
  PROVE  built(k, v, oracle) \subseteq drafted(k, v, oracle)
BY DEF built, drafted, buildClose, sweptClose

LEMMA WakeStep ==
  ASSUME Basic, DriveInv, [KeeperNext]_keeper_vars
  PROVE  WakeInv'
<1>1. [Next]_vars
  BY StepRefines
<1>2. /\ header_time \in Nat /\ header_time' \in Nat /\ header_time' >= header_time
      /\ status # "ABSENT" => status' # "ABSENT" /\ config' = config
  BY <1>1, PoolMoves DEF DriveInv
<1>3. status # "ABSENT" => closable_after' = closable_after
  BY <1>2 DEF closable_after, duration
<1>4. status # "ABSENT" => closable_after \in Nat
  BY TimesMirrored DEF DriveInv
<1> USE DEF DriveInv, WakeInv
<1>5. CASE EndWake
  BY <1>2, <1>5 DEF EndWake
<1>6. CASE Wake
  BY <1>2, <1>6 DEF Wake, vars, clocks
<1>7. CASE ReadPool /\ ~EndWake
  BY <1>2, <1>7, ViewFields DEF ReadPool, vars, clocks, pool_data
<1>8. CASE Decide /\ ~EndWake
  <2>1. PICK v \in seen : tick' = cell /\ kind' \in decide(v, now, cell)
    BY <1>8 DEF Decide
  <2>2. /\ stage = "read" /\ stage' = "decided"
        /\ UNCHANGED <<now, seen, draft, live, header_time, status, config>>
        /\ decide(v, now', tick') = decide(v, now, cell)
    BY <1>8, <2>1 DEF Decide, vars, clocks, pool_data
  <2>3. kind' \in Kinds /\ (kind' = "close" => now > closable_after)
    BY <2>1, <2>2, DecideFacts
  <2>4. kind' = "close" => header_time' > closable_after'
    BY <1>2, <1>3, <1>4, <2>2, <2>3
  <2>5. \A w \in seen' : kind' \in decide(w, now', tick')
    BY <2>1, <2>2
  <2> QED
    BY <1>2, <2>2, <2>3, <2>4, <2>5
<1>9. CASE Draft /\ ~EndWake
  <2>1. /\ stage = "decided" /\ stage' = "sent" /\ now' = 0 /\ seen' = {}
        /\ UNCHANGED <<vars, tick, kind>>
        /\ draft' \subseteq drafted(kind, View, tick)
    BY <1>9, BuiltIsDrafted DEF Draft
  <2>2. View' = View /\ UNCHANGED <<status, config, header_time>> /\ closable_after' = closable_after
    BY <2>1 DEF vars, pool_data, clocks, View, closable_after, duration
  <2>3. drafted(kind', View', tick') = drafted(kind, View, tick)
    BY <2>1, <2>2
  <2> QED
    BY <1>2, <2>1, <2>2, <2>3
<1>10. CASE UNCHANGED <<wake, pool_data>>
  <2>1. View' = View
    BY <1>10 DEF pool_data, View
  <2>2. drafted(kind', View', tick') = drafted(kind, View, tick)
    BY <1>10, <2>1 DEF wake
  <2>3. \A v : decide(v, now', tick') = decide(v, now, tick)
    BY <1>10 DEF wake
  <2> QED
    BY <1>2, <1>3, <1>4, <1>10, <2>2, <2>3 DEF wake, pool_data
<1>11. CASE live' = FALSE /\ UNCHANGED <<stage, now, seen, tick, kind, draft>>
  <2>1. \A v : decide(v, now', tick') = decide(v, now, tick)
    BY <1>11
  <2> QED
    BY <1>2, <1>3, <1>4, <1>11, <2>1
<1>12. CASE CellsMove
  <2>1. View' = View /\ UNCHANGED <<header_time, pool_data, stage, now, seen, tick, kind, draft>>
    BY <1>12 DEF CellsMove, vars, pool_data, clocks, View
  <2>2. live' => live
    BY <1>12 DEF CellsMove
  <2>3. drafted(kind', View', tick') = drafted(kind, View, tick)
    BY <2>1
  <2>4. \A v : decide(v, now', tick') = decide(v, now, tick)
    BY <2>1
  <2> QED
    BY <1>2, <1>3, <1>4, <2>1, <2>2, <2>3, <2>4 DEF pool_data
<1>13. CASE Elsewhere
  BY <1>10, <1>13 DEF Elsewhere, keeper, BurnShares, AdvanceFeed, AdvanceHeader
<1>14. CASE Broadcast \/ Fails
  BY <1>5, <1>14 DEF Broadcast, Fails
<1>15. CASE \E t \in DOMAIN Feed : \E p \in Feed[t] : AdvanceCell(t, p)
  BY <1>10, <1>15 DEF AdvanceCell, vars
<1>16. CASE UNCHANGED keeper_vars
  BY <1>10, <1>16 DEF keeper_vars, keeper, vars
<1> QED
  BY <1>5, <1>6, <1>7, <1>8, <1>9, <1>11, <1>12, <1>13, <1>14, <1>15, <1>16
     DEF KeeperNext, Others

LEMMA DriveStep == Basic /\ DriveInv /\ [KeeperNext]_keeper_vars => Basic' /\ DriveInv'
<1> SUFFICES ASSUME Basic, DriveInv, [KeeperNext]_keeper_vars
             PROVE  Basic' /\ DriveInv'
  OBVIOUS
<1>1. [Next]_vars
  BY StepRefines
<1>2. Basic'
  BY <1>1, BasicStep
<1>3. Configured' /\ Fresh'
  BY <1>1, PoolMoves DEF DriveInv
<1> QED
  BY <1>2, <1>3, CellsStep, WakeStep DEF DriveInv

LEMMA DriveAlways == KeeperSpec => [](Basic /\ DriveInv)
<1>1. KeeperInit => Basic /\ DriveInv
  BY BasicInit, DriveInit DEF KeeperInit
<1> QED
  BY <1>1, DriveStep, PTL DEF KeeperSpec

(* Whatever the keeper broadcasts, on however old a decision, the contract *)
(* accepts: every behaviour of the keeper is one of the pool.              *)
THEOREM KeeperImplementsPool == KeeperSpec => ImplementsPool
<1>1. KeeperInit => Init
  BY DEF KeeperInit
<1> QED
  BY <1>1, DriveAlways, StepRefines, PTL DEF KeeperSpec, ImplementsPool, Spec

(***************************************************************************)
(* decide against the builders and against the contract's boundaries.      *)
(***************************************************************************)
LEMMA DecidedCanBeBuilt ==
  ASSUME NEW at, NEW oracle, NEW k \in decide(View, at, oracle)
  PROVE  built(k, View, oracle) # {} \/ (k = "close" /\ ~sweepable)
<1>1. forwardKind(View) # "close" /\ correctionKind(View) # "close"
  BY DEF forwardKind, correctionKind
<1>2. CASE k = "close"
  <2>1. decideClose(View, at)
    BY <1>1, <1>2 DEF decide, decideTick
  <2> QED
    BY <1>2, <2>1 DEF decideClose, built, buildClose
<1>3. CASE k # "close"
  <2>1. PICK o \in oracle : k \in decideTick(View, at, o.t)
    BY <1>3 DEF decide
  <2>2. CASE k = forwardKind(View) /\ decideForward(View, at, o.t)
    <3>1. \/ k = "activate" /\ buildActivate(View, o) # {}
          \/ k = "resolve" /\ buildResolve(View, o) # {}
      BY <2>2 DEF forwardKind, decideForward, buildActivate, buildResolve
    <3> QED
      BY <3>1 DEF built, buildTransition
  <2>3. CASE k = correctionKind(View) /\ decideCorrection(View, at, o.t)
    <3>1. \/ k = "correct-start" /\ buildCorrectStart(View, o) # {}
          \/ k = "correct-settle" /\ buildCorrectSettle(View, o) # {}
      BY <2>3 DEF correctionKind, decideCorrection, buildCorrectStart, buildCorrectSettle
    <3> QED
      BY <3>1 DEF built, buildTransition
  <2>4. CASE k = "finalize" /\ View.status = "SETTLED" /\ o.t >= voidTimeOfPool(View)
    <3>1. buildFinalize(View, o) # {}
      BY <2>4 DEF buildFinalize
    <3> QED
      BY <2>4, <3>1 DEF built, buildTransition
  <2> QED
    BY <2>1, <2>2, <2>3, <2>4 DEF decideTick
<1> QED
  BY <1>2, <1>3

(* If nobody touched the pool since it was read, the builder does not      *)
(* refuse what decide chose, unless it is a close that lacks its one       *)
(* treasury or a plain cell of the creator (workflows.ts 125-139, 445).    *)
THEOREM DecisionsAreBuildable == KeeperSpec => []DecisionBuildable
<1>1. DriveInv => DecisionBuildable
  BY DecidedCanBeBuilt DEF DriveInv, WakeInv, DecisionBuildable
<1> QED
  BY <1>1, DriveAlways, PTL

LEMMA OverdueDecided ==
  ASSUME Basic, DriveInv
  PROVE  OverdueIsActionable
<1> SUFFICES ASSUME status \notin {"ABSENT", "CLOSED"}, header_time > ContractBoundary,
                    \/ status \in {"VOID", "FINALIZED"}
                    \/ \E o \in cell : o.t >= ContractBoundary
             PROVE  \E k : k \in decide(View, header_time, cell)
  BY DEF OverdueIsActionable
<1>1. /\ voidTimeOfPool(View) = void_time /\ closeTimeOfPool(View) = closable_after
      /\ void_time \in Nat /\ config.close_time <= void_time
      /\ config.start_time \in Nat /\ config.close_time \in Nat
      /\ config.start_time < config.close_time /\ header_time \in Nat
  BY TimesMirrored, WidthAssumption DEF DriveInv, Configured, Basic, TypeOK
<1>2. CASE status \in {"VOID", "FINALIZED"}
  <2>1. decideClose(View, header_time)
    BY <1>1, <1>2, ViewFields DEF decideClose, ContractBoundary
  <2> QED
    BY <2>1 DEF decide
<1>3. CASE status \notin {"VOID", "FINALIZED"}
  <2>1. PICK o \in cell : o.t >= ContractBoundary
    BY <1>3
  <2>2. o.t \in Nat
    BY PoolAssumption DEF DriveInv, CellsShown, Shown
  <2> SUFFICES \E k : k \in decideTick(View, header_time, o.t)
    BY DEF decide
  <2>3. CASE status = "OPEN"
    <3>1. o.t >= config.start_time
      BY <2>1, <2>3 DEF ContractBoundary
    <3>2. locks(View, o.t) \/ voids(View, o.t)
      BY <1>1, <2>2, <3>1, ViewFields DEF locks, voids
    <3> QED
      BY <2>3, <3>2, ViewFields DEF decideTick, decideForward, forwardKind, Kinds
  <2>4. CASE status = "LOCKED"
    <3>1. o.t >= config.close_time /\ header_time >= config.close_time
      BY <1>1, <2>1, <2>4 DEF ContractBoundary
    <3> QED
      BY <2>4, <3>1, ViewFields DEF decideTick, decideForward, forwardKind, Kinds
  <2>5. CASE status = "SETTLED"
    <3>1. o.t >= void_time
      BY <2>1, <2>5 DEF ContractBoundary
    <3> QED
      BY <1>1, <2>5, <3>1, ViewFields
         DEF decideTick, correctionKind, Kinds
  <2> QED
    BY <1>3, <2>3, <2>4, <2>5 DEF DriveInv, Basic, TypeOK, Statuses
<1> QED
  BY <1>2, <1>3

(* A pool whose boundary has passed, in blocks and in the oracle cell, is  *)
(* always acted upon by the wake that sees it.                             *)
THEOREM OverduesAreActionable == KeeperSpec => []OverdueIsActionable
BY OverdueDecided, DriveAlways, PTL

(***************************************************************************)
(* tx_log.  The row of a committed action stays, and the action is over:   *)
(* the pool has left the status it was for, or holds a tick no later than  *)
(* the oracle cell's, which only moves on.                                 *)
(***************************************************************************)
NotLater == cell # {} /\ \A o \in cell : used_pt <= o.t

Over(k) ==
  /\ status \notin {"ABSENT", "OPEN"}
  /\ k = "correct-start" /\ status = "LOCKED" => NotLater
  /\ k \in {"resolve", "correct-settle", "finalize", "close"} => status # "LOCKED"
  /\ k = "correct-settle" /\ status = "SETTLED" => NotLater
  /\ k \in {"finalize", "close"} => status # "SETTLED"
  /\ k = "close" => status = "CLOSED"

RowsInv ==
  /\ \A o, q \in cell : o = q
  /\ logged \subseteq Kinds
  /\ \A k \in logged : Over(k) \/ (stage = "sent" /\ kind = k)

LEMMA OverStays ==
  ASSUME Basic, DriveInv, [Next]_vars, NEW k \in Kinds, Over(k), UNCHANGED cell
  PROVE  Over(k)'
<1> USE DEF Over, NotLater
<1>1. CASE UNCHANGED <<status, used_pt>>
  BY <1>1
<1>2. CASE PriceStep
  <2>1. PICK t \in DOMAIN Feed : \E p \in Feed[t] :
          Activate(t, p) \/ Correct(t, p) \/ Resolve(t, p) \/ Finalize(t, p)
    BY <1>2 DEF PriceStep
  <2>2. PICK p \in Feed[t] :
          Activate(t, p) \/ Correct(t, p) \/ Resolve(t, p) \/ Finalize(t, p)
    BY <2>1
  <2>3. t \in Nat /\ used_pt \in Nat /\ \A o \in cell : o.t \in Nat
    BY PoolAssumption DEF Basic, TypeOK, DriveInv, CellsShown, Shown
  <2>4. CASE Activate(t, p)
    BY <2>4 DEF Activate, ActivateLock, ActivateVoid
  <2>5. CASE CorrectStart(t, p)
    BY <2>3, <2>5 DEF CorrectStart, set_start_tick
  <2>6. CASE CorrectSettle(t, p)
    BY <2>3, <2>6 DEF CorrectSettle, set_settle_tick
  <2>7. CASE Resolve(t, p)
    BY <2>7 DEF Resolve, ResolveSettle, ResolveVoid
  <2>8. CASE Finalize(t, p)
    BY <2>8 DEF Finalize
  <2> QED
    BY <2>2, <2>4, <2>5, <2>6, <2>7, <2>8 DEF Correct
<1>3. CASE Close
  BY <1>3 DEF Close
<1>4. CASE \E c \in Configs, seed \in SeedPts : Create(c, seed)
  BY <1>4 DEF Create
<1> QED
  BY <1>1, <1>2, <1>3, <1>4 DEF Next, Deposit, RedeemRefund, RedeemWin, Pay, BurnShares,
     AdvanceFeed, AdvanceHeader, vars, pool_data

LEMMA BuiltStatus ==
  ASSUME NEW o, NEW d
  PROVE  /\ d \in buildActivate(View, o) => d.status \in {"LOCKED", "VOID"}
         /\ d \in buildCorrectStart(View, o) => d.status = "LOCKED" /\ d.used_pt = o.t
         /\ d \in buildResolve(View, o) => d.status \in {"SETTLED", "VOID"}
         /\ d \in buildCorrectSettle(View, o) => d.status = "SETTLED" /\ d.used_pt = o.t
         /\ d \in buildFinalize(View, o) => d.status = "FINALIZED"
<1>1. ASSUME d \in buildActivate(View, o)
      PROVE  d.status \in {"LOCKED", "VOID"}
  <2>1. \/ d = [View EXCEPT !.status = "LOCKED", !.start_price = o.p, !.used_pt = o.t]
        \/ d = [View EXCEPT !.status = "VOID", !.winner = "VOID", !.start_price = 0,
                            !.settle_price = 0, !.used_pt = 0]
    BY <1>1 DEF buildActivate
  <2> QED
    BY <2>1 DEF View
<1>2. ASSUME d \in buildCorrectStart(View, o)
      PROVE  d.status = "LOCKED" /\ d.used_pt = o.t
  <2>1. d = [View EXCEPT !.start_price = o.p, !.used_pt = o.t] /\ status = "LOCKED"
    BY <1>2, ViewFields DEF buildCorrectStart
  <2> QED
    BY <2>1 DEF View
<1>3. ASSUME d \in buildResolve(View, o)
      PROVE  d.status \in {"SETTLED", "VOID"}
  <2>1. \/ d = [View EXCEPT !.status = "VOID", !.winner = "VOID"]
        \/ d = [View EXCEPT !.status = "SETTLED", !.settle_price = o.p, !.used_pt = o.t,
                            !.winner = winner_for(o.p, View.start_price)]
    BY <1>3 DEF buildResolve
  <2> QED
    BY <2>1 DEF View
<1>4. ASSUME d \in buildCorrectSettle(View, o)
      PROVE  d.status = "SETTLED" /\ d.used_pt = o.t
  <2>1. /\ d = [View EXCEPT !.settle_price = o.p, !.used_pt = o.t,
                            !.winner = winner_for(o.p, View.start_price)]
        /\ status = "SETTLED"
    BY <1>4, ViewFields DEF buildCorrectSettle
  <2> QED
    BY <2>1 DEF View
<1>5. ASSUME d \in buildFinalize(View, o)
      PROVE  d.status = "FINALIZED"
  <2>1. d = [View EXCEPT !.status = "FINALIZED"]
    BY <1>5 DEF buildFinalize
  <2> QED
    BY <2>1 DEF View
<1> QED
  BY <1>1, <1>2, <1>3, <1>4, <1>5

LEMMA BroadcastIsOver ==
  ASSUME Basic, DriveInv, RowsInv, Broadcast, NEW k, k = kind
  PROVE  Over(k)'
<1>1. PICK d \in draft : Writes(d)
  BY DEF Broadcast, Writes
<1>2. d \in drafted(k, View, tick) /\ k \in Kinds
  BY <1>1 DEF DriveInv, WakeInv, Broadcast
<1>3. cell' = cell /\ status' = d.status /\ used_pt' = d.used_pt
  BY <1>1 DEF Broadcast, Writes
<1>4. CASE k = "close"
  <2>1. d.status = "CLOSED"
    BY <1>2, <1>4 DEF drafted, sweptClose, View
  <2> QED
    BY <1>3, <1>4, <2>1 DEF Over
<1>5. CASE k # "close"
  <2>1. PICK o \in tick : d \in buildTransition(k, View, {o})
    BY <1>2, <1>5 DEF drafted, buildTransition
  <2>2. tick = cell /\ o \in cell /\ \A q \in cell : q = o
    BY <1>5, <2>1 DEF Broadcast, RowsInv
  <2>3. o.t \in Nat
    BY <2>2, PoolAssumption DEF DriveInv, CellsShown, Shown
  <2>4. CASE k = "activate"
    <3>1. d.status \in {"LOCKED", "VOID"}
      BY <2>1, <2>4, BuiltStatus DEF buildTransition
    <3> QED
      BY <1>3, <2>4, <3>1 DEF Over
  <2>5. CASE k = "correct-start"
    <3>1. d.status = "LOCKED" /\ d.used_pt = o.t
      BY <2>1, <2>5, BuiltStatus DEF buildTransition
    <3>2. cell # {} /\ \A q \in cell : d.used_pt <= q.t
      BY <2>2, <2>3, <3>1
    <3> QED
      BY <1>3, <2>5, <3>1, <3>2 DEF Over, NotLater
  <2>6. CASE k = "resolve"
    <3>1. d.status \in {"SETTLED", "VOID"}
      BY <2>1, <2>6, BuiltStatus DEF buildTransition
    <3> QED
      BY <1>3, <2>6, <3>1 DEF Over
  <2>7. CASE k = "correct-settle"
    <3>1. d.status = "SETTLED" /\ d.used_pt = o.t
      BY <2>1, <2>7, BuiltStatus DEF buildTransition
    <3>2. cell # {} /\ \A q \in cell : d.used_pt <= q.t
      BY <2>2, <2>3, <3>1
    <3> QED
      BY <1>3, <2>7, <3>1, <3>2 DEF Over, NotLater
  <2>8. CASE k = "finalize"
    <3>1. d.status = "FINALIZED"
      BY <2>1, <2>8, BuiltStatus DEF buildTransition
    <3> QED
      BY <1>3, <2>8, <3>1 DEF Over
  <2> QED
    BY <1>2, <1>5, <2>4, <2>5, <2>6, <2>7, <2>8 DEF Kinds
<1> QED
  BY <1>4, <1>5

LEMMA RowsStep == Basic /\ DriveInv /\ RowsInv /\ [KeeperNext]_keeper_vars => RowsInv'
<1> SUFFICES ASSUME Basic, DriveInv, RowsInv, [KeeperNext]_keeper_vars
             PROVE  RowsInv'
  OBVIOUS
<1>1. [Next]_vars
  BY StepRefines
<1>2. ASSUME UNCHANGED cell, NEW k \in logged, Over(k)
      PROVE  Over(k)'
  BY <1>1, <1>2, OverStays DEF RowsInv
<1>3. CASE Broadcast
  <2>1. UNCHANGED <<cell, logged>> /\ stage' = "idle"
    BY <1>3 DEF Broadcast, EndWake
  <2>2. \A k \in logged : Over(k)'
    BY <1>2, <1>3, <2>1, BroadcastIsOver DEF RowsInv
  <2> QED
    BY <2>1, <2>2 DEF RowsInv
<1>4. CASE Fails
  <2>1. UNCHANGED cell /\ logged' = logged \ {kind}
    BY <1>4 DEF Fails
  <2>2. \A k \in logged' : Over(k)'
    BY <1>2, <2>1 DEF RowsInv
  <2> QED
    BY <2>1, <2>2 DEF RowsInv
<1>5. CASE Draft
  <2>1. /\ UNCHANGED cell /\ stage = "decided" /\ kind \in Kinds
        /\ \/ UNCHANGED logged
           \/ logged' = logged \cup {kind} /\ stage' = "sent" /\ kind' = kind
    BY <1>5 DEF Draft, DriveInv, WakeInv
  <2>2. \A k \in logged : Over(k)'
    BY <1>2, <2>1 DEF RowsInv
  <2> QED
    BY <2>1, <2>2 DEF RowsInv
<1>6. CASE \/ Wake \/ ReadPool \/ Decide
           \/ Others \/ CellsMove \/ Elsewhere \/ UNCHANGED keeper_vars
  <2>1. /\ UNCHANGED <<cell, logged>>
        /\ stage = "sent" => stage' = "sent" /\ kind' = kind
    BY <1>6 DEF Wake, ReadPool, Decide, Others, CellsMove, Elsewhere, EndWake,
       keeper, wake, keeper_vars
  <2>2. \A k \in logged : Over(k) => Over(k)'
    BY <1>2, <2>1
  <2> QED
    BY <2>1, <2>2 DEF RowsInv
<1>7. ASSUME NEW t \in DOMAIN Feed, NEW p \in Feed[t], AdvanceCell(t, p)
      PROVE  RowsInv'
  <2>1. /\ UNCHANGED <<status, used_pt, logged, stage, kind>>
        /\ cell' = {[t |-> t, p |-> p]} /\ \A o \in cell : t > o.t
    BY <1>7 DEF AdvanceCell, vars, pool_data, wake
  <2>2. t \in Nat /\ used_pt \in Nat /\ \A o \in cell : o.t \in Nat
    BY PoolAssumption DEF Basic, TypeOK, DriveInv, CellsShown, Shown
  <2>3. NotLater => NotLater'
    BY <2>1, <2>2 DEF NotLater
  <2>4. \A k \in logged : Over(k) => Over(k)'
    BY <2>1, <2>3 DEF Over
  <2>5. \A o, q \in cell' : o = q
    BY <2>1
  <2> QED
    BY <2>1, <2>4, <2>5 DEF RowsInv
<1> QED
  BY <1>3, <1>4, <1>5, <1>6, <1>7 DEF KeeperNext

LEMMA OverIsNotDecided ==
  ASSUME Basic, DriveInv, NEW k, Over(k), NEW at
  PROVE  k \notin decide(View, at, cell)
<1> SUFFICES ASSUME k \in decide(View, at, cell)
             PROVE  FALSE
  OBVIOUS
<1>1. used_pt \in Nat /\ \A o \in cell : o.t \in Nat
  BY PoolAssumption DEF Basic, TypeOK, DriveInv, CellsShown, Shown
<1>2. forwardKind(View) # "close" /\ correctionKind(View) # "close"
  BY DEF forwardKind, correctionKind
<1>3. CASE k = "close" /\ decideClose(View, at)
  BY <1>3, ViewFields DEF decideClose, Over
<1>4. ASSUME NEW o \in cell, k \in decideTick(View, at, o.t)
      PROVE  FALSE
  <2>1. CASE k = forwardKind(View) /\ decideForward(View, at, o.t)
    BY <2>1, ViewFields DEF forwardKind, decideForward, Over
  <2>2. CASE k = correctionKind(View) /\ decideCorrection(View, at, o.t)
    BY <1>1, <2>2, ViewFields DEF correctionKind, decideCorrection, Over, NotLater
  <2>3. CASE k = "finalize" /\ View.status = "SETTLED"
    BY <2>3, ViewFields DEF Over
  <2> QED
    BY <1>4, <2>1, <2>2, <2>3 DEF decideTick
<1> QED
  BY <1>3, <1>4 DEF decide

(* The log that survives restarts never blocks what is due.                *)
THEOREM RowsNeverBlocking == KeeperSpec => []RowsNeverBlock
<1>1. KeeperInit => RowsInv
  BY DEF KeeperInit, RowsInv
<1>2. Basic /\ DriveInv /\ RowsInv => RowsNeverBlock
  BY OverIsNotDecided DEF RowsInv, RowsNeverBlock
<1> QED
  BY <1>1, <1>2, DriveAlways, RowsStep, PTL DEF KeeperSpec
=============================================================================
