---------------------------- MODULE PlayerProofs ----------------------------
(***************************************************************************)
(* Proofs about the requests of Player, for any number of holders, of      *)
(* overlapping requests and of pools one after another, with deposits of   *)
(* other software in between.                                              *)
(*                                                                         *)
(* NothingOrphaned: no close that the SDK drafts leaves a treasury cell    *)
(* behind.  A close is drafted from reads that are several awaits old;     *)
(* what saves it is that a treasury cell can only appear in a transaction  *)
(* that also spends the PoolCell, and that the close then finds its        *)
(* PoolCell gone.                                                          *)
(*                                                                         *)
(* DraftsStand: the contracts accept every draft whose inputs are live.    *)
(* The second part adds to the first's invariant what cells hold and what  *)
(* each request has read of it: sums are counted unit by unit, so that     *)
(* they add over disjoint sets of cells.                                   *)
(*                                                                         *)
(* ImplementsAccounts: the cells keep the books of Accounts.  The third    *)
(* part adds what every draft does for the order it was made for.          *)
(***************************************************************************)
EXTENDS Player, PoolMathProofs, FiniteSetTheorems, FunctionTheorems, SequenceTheorems, TLAPS

(***************************************************************************)
(* Shapes: only the fields the argument looks at.                          *)
(***************************************************************************)
Ops == {"deposit", "withdraw", "redeem", "burn", "close", "create"}

IsPool(p) ==
  /\ {"status", "winner", "total", "capacity", "variant", "n"} \subseteq DOMAIN p
  /\ p.status # "NONE"

NoTreasury(S) == \A c \in S : c.kind # "treasury"

(***************************************************************************)
(* What a transaction drafted for an order may be. A treasury cell comes   *)
(* out only of one that makes a PoolCell of a xUDT pool; only a create     *)
(* makes a PoolCell from nothing and only a close ends one.                *)
(***************************************************************************)
TxFor(op, tx) ==
  /\ DOMAIN tx = {"prev", "next", "ins", "outs", "deps", "header"}
  /\ tx.prev = NoPool \/ IsPool(tx.prev)
  /\ tx.next = NoPool \/ IsPool(tx.next)
  /\ tx.next = NoPool \/ tx.next.variant # "XUDT" => NoTreasury(tx.outs)
  /\ tx.prev = NoPool /\ tx.next # NoPool => op = "create"
  /\ tx.prev # NoPool /\ tx.next = NoPool => op = "close"
  /\ tx.prev # NoPool /\ tx.next # NoPool => tx.next.variant = tx.prev.variant

(***************************************************************************)
(* What a request may rely on while others change the ledger. Carried:     *)
(* unless the pool p has moved, S holds every treasury cell there is.      *)
(***************************************************************************)
OnlyFirst(who, op) == op = "create" => who = Creator /\ ~born

Carried(p, S) == p = pool => OfKind(cells, "treasury") \subseteq S

(***************************************************************************)
(* The two states of a request.  A close that has read the treasury        *)
(* carries all of it, or its pool has moved since; before that, nothing is *)
(* known.                                                                  *)
(***************************************************************************)
ReadingOk(who, j) ==
  /\ DOMAIN j = {"at", "order", "todo", "pool", "got", "header"}
  /\ j.at = "reading"
  /\ j.order.op \in Ops
  /\ IF j.order.op \in {"burn", "create"} THEN j.pool = NoPool ELSE IsPool(j.pool)
  /\ OnlyFirst(who, j.order.op)
  /\ j.order.op = "close" =>
       \/ j.todo = <<"treasury", "plain", "header">>
       \/ /\ j.todo \in {<<"plain", "header">>, <<"header">>, << >>}
          /\ Carried(j.pool, j.got)

SendingOk(who, j) ==
  /\ DOMAIN j = {"at", "order", "tx"}
  /\ j.at \in {"draft", "complete"}
  /\ TxFor(j.order.op, j.tx)
  /\ OnlyFirst(who, j.order.op)
  /\ j.tx.prev # NoPool /\ j.tx.next = NoPool => Carried(j.tx.prev, j.tx.ins)

JobOk(who, j) ==
  \/ j = Idle
  \/ ReadingOk(who, j) /\ j.todo # << >>
  \/ SendingOk(who, j)

(***************************************************************************)
(* The inductive invariant. NothingOrphaned alone is not inductive: the    *)
(* close lands from what the request remembers, so the requests are part   *)
(* of it.                                                                  *)
(***************************************************************************)
PoolOk ==
  /\ pool = NoPool \/ IsPool(pool)
  /\ pool # NoPool => born
  /\ pool = NoPool \/ pool.variant # "XUDT" => NoTreasury(cells)

JobsOk ==
  /\ job = [who \in Players |-> job[who]]
  /\ \A who \in Players : JobOk(who, job[who])

IInv == PoolOk /\ JobsOk

Remembered(who) ==
  IF job[who].at = "idle" THEN NoPool
  ELSE IF job[who].at = "reading" THEN job[who].pool ELSE job[who].tx.prev

(***************************************************************************)
(* Out-points: Unused returns a number that is not taken, and only         *)
(* finitely many pools are remembered. So a new PoolCell differs from      *)
(* every one that a request still remembers.                               *)
(***************************************************************************)
LEMMA UnusedIsUnused ==
  ASSUME NEW T, IsFiniteSet(T)
  PROVE  Unused(T) \notin T
<1>1. Cardinality(T) \in Nat
  BY FS_CardinalityType
<1>2. ASSUME 0 .. Cardinality(T) \subseteq T
      PROVE  FALSE
  <2>1. Cardinality(0 .. Cardinality(T)) <= Cardinality(T)
    BY <1>2, FS_Subset
  <2>2. Cardinality(0 .. Cardinality(T)) = Cardinality(T) + 1
    BY <1>1, FS_Interval
  <2> QED
    BY <1>1, <2>1, <2>2
<1>3. \E k \in 0 .. Cardinality(T) : k \notin T
  BY <1>2
<1> QED
  BY <1>3 DEF Unused

LEMMA SeenFinite ==
  IsFiniteSet({p.n : p \in SeenPools})
<1> DEFINE A == {w \in Players : Remembered(w) # NoPool}
           T == {Remembered(w).n : w \in A}
           f == [w \in A |-> Remembered(w).n]
<1>1. IsFiniteSet(Players)
  BY LedgerAssumption, FS_AddElement DEF Players
<1>2. IsFiniteSet(A)
  BY <1>1, FS_Subset
<1>3. f \in Surjection(A, T)
  BY DEF Surjection
<1>4. IsFiniteSet(T)
  BY <1>2, <1>3, FS_Surjection
<1>5. IsFiniteSet(T \union {pool.n})
  BY <1>4, FS_AddElement
<1>6. {p.n : p \in SeenPools} \subseteq T \union {pool.n}
  BY DEF SeenPools, Remembered
<1> QED
  BY <1>5, <1>6, FS_Subset

(***************************************************************************)
(* The builders, one by one: what each may draft.                          *)
(***************************************************************************)
LEMMA DraftsOf ==
  ASSUME NEW who, NEW j
  PROVE  /\ j.order.op = "deposit" => Drafts(who, j) = buildDepositTx(who, j)
         /\ j.order.op = "withdraw" => Drafts(who, j) = buildWithdrawTx(who, j)
         /\ j.order.op = "redeem" => Drafts(who, j) = buildRedeemTx(who, j)
         /\ j.order.op = "burn" => Drafts(who, j) = buildBurnSharesTx(j)
         /\ j.order.op = "close" => Drafts(who, j) = buildCloseTx(who, j)
         /\ j.order.op = "create" => Drafts(who, j) = buildCreatePoolTx(j)
BY DEF Drafts

LEMMA FoundTreasury ==
  ASSUME NEW who, NEW j, j.order.op = "close"
  PROVE Found(who, j, "treasury") = findTreasuryCell
BY DEF Found, Side

(***************************************************************************)
(* No output but the treasury's own is a treasury cell.                    *)
(***************************************************************************)
LEMMA PlainOuts ==
  /\ \A kind, owner, n : kind # "treasury" => NoTreasury(OutIf(kind, owner, n))
  /\ \A who, want : NoTreasury(Minted(who, want))
  /\ \A S, T : NoTreasury(S) /\ NoTreasury(T) => NoTreasury(S \union T)
  /\ NoTreasury({})
<1>1. \A kind, owner, n : kind # "treasury" => NoTreasury(OutIf(kind, owner, n))
  BY DEF NoTreasury, OutIf, Out
<1>2. \A who, want : NoTreasury(Minted(who, want))
  BY DEF NoTreasury, Minted, OutIf, Out, Side
<1> QED
  BY <1>1, <1>2 DEF NoTreasury

LEMMA DraftIs ==
  ASSUME NEW guard, NEW t, NEW tx \in Draft(guard, t)
  PROVE  guard /\ tx = t
BY DEF Draft

LEMMA TxIs ==
  ASSUME NEW prev, NEW next, NEW ins, NEW outs, NEW deps
  PROVE  LET t == attachCodeDep(Tx(prev, next, ins, outs), deps)
         IN  /\ DOMAIN t = {"prev", "next", "ins", "outs", "deps", "header"}
             /\ t.prev = prev /\ t.next = next /\ t.ins = ins /\ t.outs = outs
BY DEF attachCodeDep, Tx

LEMMA PoolIsSome ==
  ASSUME NEW p, IsPool(p)
  PROVE  p # NoPool
BY DEF IsPool, NoPool

LEMMA ContinueIs ==
  ASSUME NEW p, IsPool(p), NEW delta, NEW capacity
  PROVE  /\ IsPool(Continue(p, delta, capacity))
         /\ Continue(p, delta, capacity).variant = p.variant
BY DEF IsPool, Continue

\* A transaction that continues a pool.
LEMMA Continues ==
  ASSUME NEW op, NEW p, NEW q, NEW ins, NEW outs, NEW deps,
         IsPool(p), IsPool(q), q.variant = p.variant,
         p.variant # "XUDT" => NoTreasury(outs)
  PROVE  TxFor(op, attachCodeDep(Tx(p, q, ins, outs), deps))
<1>1. p # NoPool /\ q # NoPool
  BY PoolIsSome
<1> QED
  BY <1>1, TxIs DEF TxFor

LEMMA DepositIs ==
  ASSUME NEW who, NEW j, IsPool(j.pool), NEW op, NEW tx \in buildDepositTx(who, j)
  PROVE  TxFor(op, tx)
<1> DEFINE p == j.pool
           want == j.order.want
           all == want["UP"] + want["DOWN"]
           held == Amount(j.got, "treasury")
           over == Amount(j.got, "stake") - all
           xudt == Tx(p, Continue(p, want, p.capacity), j.got,
                      Minted(who, want) \union Change("stake", who, over)
                        \union {Out("treasury", "pool", held + all)})
           ckb == Tx(p, Continue(p, want, p.capacity + all), {}, Minted(who, want))
<1>1. tx = attachCodeDep(IF p.variant = "XUDT" THEN xudt ELSE ckb,
                         PoolDeps(p) \union {"share_xudt"})
  BY DraftIs DEF buildDepositTx
<1>2. CASE p.variant = "XUDT"
  BY <1>1, <1>2, ContinueIs, Continues
<1>3. CASE p.variant # "XUDT"
  BY <1>1, <1>3, ContinueIs, Continues, PlainOuts
<1> QED
  BY <1>2, <1>3

LEMMA WithdrawIs ==
  ASSUME NEW who, NEW j, IsPool(j.pool), NEW op, NEW tx \in buildWithdrawTx(who, j)
  PROVE  TxFor(op, tx)
<1> DEFINE p == j.pool
           want == j.order.want
           all == want["UP"] + want["DOWN"]
           less == [s \in Side |-> 0 - want[s]]
           change == UNION {Change(s, who, Amount(j.got, s) - want[s]) : s \in Side}
           held == Amount(j.got, "treasury")
           xudt == Tx(p, Continue(p, less, p.capacity), j.got,
                      change \union {Out("treasury", "pool", held - all),
                                     Out("stake", who, all)})
           ckb == Tx(p, Continue(p, less, p.capacity - all), j.got, change)
<1>1. tx = attachCodeDep(IF p.variant = "XUDT" THEN xudt ELSE ckb,
                         PoolDeps(p) \union {"share_xudt"})
  BY DraftIs DEF buildWithdrawTx
<1>2. NoTreasury(change)
  BY DEF NoTreasury, Change, OutIf, Out, Side
<1>3. CASE p.variant = "XUDT"
  <2> HIDE DEF change
  <2> QED
    BY <1>1, <1>3, ContinueIs, Continues
<1>4. CASE p.variant # "XUDT"
  <2> HIDE DEF change
  <2> QED
    BY <1>1, <1>2, <1>4, ContinueIs, Continues
<1> QED
  BY <1>3, <1>4

LEMMA RedeemIs ==
  ASSUME NEW who, NEW j, IsPool(j.pool), NEW op, NEW tx \in buildRedeemTx(who, j)
  PROVE  TxFor(op, tx)
<1> DEFINE p == j.pool
           burned == [s \in Side |-> Amount(j.got, s)]
           w == p.winner
           pays == IF refunds(p) THEN burned["UP"] + burned["DOWN"]
                   ELSE payout(burned[w], p.total[w], p.total[Other(w)], p.rake_bps)
           held == Amount(j.got, "treasury")
           xudt == Tx(p, p, j.got, {Out("treasury", "pool", held - pays),
                                    Out("stake", who, pays)})
           ckb == Tx(p, Continue(p, Zero, p.capacity - pays), j.got, {})
<1>1. tx = attachCodeDep(IF p.variant = "XUDT" THEN xudt ELSE ckb,
                         PoolDeps(p) \union {"share_xudt"})
  BY DraftIs DEF buildRedeemTx
<1> HIDE DEF pays
<1>2. CASE p.variant = "XUDT"
  BY <1>1, <1>2, Continues
<1>3. CASE p.variant # "XUDT"
  BY <1>1, <1>3, ContinueIs, Continues, PlainOuts
<1> QED
  BY <1>2, <1>3

LEMMA BurnIs ==
  ASSUME NEW j, NEW op, NEW tx \in buildBurnSharesTx(j)
  PROVE  TxFor(op, tx) /\ tx.prev = NoPool
BY DraftIs, TxIs, PlainOuts DEF buildBurnSharesTx, TxFor

LEMMA CloseIs ==
  ASSUME NEW who, NEW j, IsPool(j.pool), NEW tx \in buildCloseTx(who, j)
  PROVE  TxFor("close", tx) /\ tx.prev = j.pool /\ tx.ins = j.got
<1> DEFINE outs == OutIf("stake", who, Amount(j.got, "treasury"))
           t == Tx(j.pool, NoPool, j.got, outs)
           u == [t EXCEPT !.header = j.header]
<1>1. tx = attachCodeDep(u, PoolDeps(j.pool))
  BY DraftIs DEF buildCloseTx
<1>2. NoTreasury(outs)
  BY PlainOuts
<1> HIDE DEF outs
<1>3. /\ DOMAIN u = {"prev", "next", "ins", "outs", "deps", "header"}
      /\ u.prev = j.pool /\ u.next = NoPool /\ u.ins = j.got /\ u.outs = outs
  BY DEF Tx
<1> HIDE DEF u
<1>4. /\ DOMAIN tx = {"prev", "next", "ins", "outs", "deps", "header"}
      /\ tx.prev = j.pool /\ tx.next = NoPool /\ tx.ins = j.got /\ tx.outs = outs
  BY <1>1, <1>3 DEF attachCodeDep
<1> QED
  BY <1>2, <1>4 DEF TxFor

LEMMA CreateIs ==
  ASSUME NEW j, NEW tx \in buildCreatePoolTx(j)
  PROVE  TxFor("create", tx) /\ tx.prev = NoPool
<1> DEFINE r == j.order.round
           next == [status |-> "OPEN", winner |-> "UNDECIDED", total |-> Zero,
                    capacity |-> 0, variant |-> r.variant, rake_bps |-> r.rake_bps,
                    start_time |-> r.start_time, close_time |-> r.close_time, n |-> 0]
           outs == IF r.variant = "XUDT" THEN {Out("treasury", "pool", 0)} ELSE {}
<1>1. tx = attachCodeDep(Tx(NoPool, next, j.got, outs), resolveCreateAsset(r))
  BY DraftIs DEF buildCreatePoolTx
<1>2. IsPool(next) /\ next.variant = r.variant
  BY DEF IsPool
<1>3. next.variant # "XUDT" => NoTreasury(outs)
  BY <1>2, PlainOuts
<1> HIDE DEF next, outs
<1> QED
  BY <1>1, <1>2, <1>3, TxIs, PoolIsSome DEF TxFor

\* What is built from a reading is fit to be sent.
LEMMA BuiltIsOk ==
  ASSUME NEW who, NEW j, ReadingOk(who, j), NEW k \in Built(who, j)
  PROVE  JobOk(who, k)
<1>1. CASE j.todo # << >>
  BY <1>1 DEF Built, JobOk
<1>2. CASE j.todo = << >>
  <2>1. PICK tx \in Drafts(who, j) :
          k = [at |-> "draft", order |-> j.order, tx |-> tx]
    BY <1>2 DEF Built
  <2>2. /\ DOMAIN k = {"at", "order", "tx"} /\ k.at = "draft"
        /\ k.order = j.order /\ k.tx = tx
    BY <2>1
  <2>3. /\ TxFor(j.order.op, tx)
        /\ j.order.op = "close" => tx.prev = j.pool /\ tx.ins = j.got
    <3>1. CASE j.order.op = "deposit"
      BY <3>1, DraftsOf, DepositIs DEF ReadingOk
    <3>2. CASE j.order.op = "withdraw"
      BY <3>2, DraftsOf, WithdrawIs DEF ReadingOk
    <3>3. CASE j.order.op = "redeem"
      BY <3>3, DraftsOf, RedeemIs DEF ReadingOk
    <3>4. CASE j.order.op = "burn"
      BY <3>4, DraftsOf, BurnIs DEF ReadingOk
    <3>5. CASE j.order.op = "close"
      BY <3>5, DraftsOf, CloseIs DEF ReadingOk
    <3>6. CASE j.order.op = "create"
      BY <3>6, DraftsOf, CreateIs DEF ReadingOk
    <3> QED
      BY <3>1, <3>2, <3>3, <3>4, <3>5, <3>6 DEF ReadingOk, Ops
  <2>4. j.order.op = "close" => Carried(j.pool, j.got)
    BY <1>2 DEF ReadingOk
  <2>5. tx.prev # NoPool /\ tx.next = NoPool => Carried(tx.prev, tx.ins)
    BY <2>3, <2>4 DEF TxFor
  <2>6. SendingOk(who, k)
    BY <2>2, <2>3, <2>5 DEF SendingOk, ReadingOk, OnlyFirst
  <2> QED
    BY <2>6 DEF JobOk
<1> QED
  BY <1>1, <1>2

(***************************************************************************)
(* Completion adds inputs and outputs of the wallet's own kinds only.      *)
(***************************************************************************)
LEMMA CompletedIs ==
  ASSUME NEW op, NEW who, NEW tx, TxFor(op, tx), NEW t \in completeFeeAndChange(who, tx)
  PROVE  /\ TxFor(op, t)
         /\ t.prev = tx.prev /\ t.next = tx.next /\ tx.ins \subseteq t.ins
<1> DEFINE fuel == {Out("plain", who, 0) : c \in OfKind(tx.ins, "plain")}
           back == [tx EXCEPT !.outs = @ \union fuel]
           lack == Lacking(tx)
           more == IF lack > 0 THEN collectAssetCells(CellsOf(cells, "stake", who), lack)
                   ELSE {{}}
<1>1. NoTreasury(fuel)
  BY DEF NoTreasury, Out
<1> HIDE DEF fuel
<1>2. /\ DOMAIN back = DOMAIN tx
      /\ back.prev = tx.prev /\ back.next = tx.next /\ back.ins = tx.ins
      /\ back.outs = tx.outs \union fuel
  BY DEF TxFor
<1>3. NoTreasury(tx.outs) => NoTreasury(back.outs)
  BY <1>1, <1>2, PlainOuts
<1>4. CASE ~IsCkb(tx)
  <2>1. t = back
    BY <1>4 DEF completeFeeAndChange, fuel
  <2> QED
    BY <1>2, <1>3, <2>1 DEF TxFor
<1>5. CASE IsCkb(tx)
  <2>1. PICK P \in more : t = [back EXCEPT !.ins = @ \union P,
                                          !.outs = @ \union OutIf("stake", who, Total(P) - lack)]
    BY <1>5 DEF completeFeeAndChange, fuel
  <2> DEFINE over == OutIf("stake", who, Total(P) - lack)
  <2>2. NoTreasury(over)
    BY PlainOuts
  <2> HIDE DEF back, lack, more, over
  <2>3. /\ DOMAIN t = DOMAIN tx
        /\ t.prev = tx.prev /\ t.next = tx.next /\ t.ins = tx.ins \union P
        /\ t.outs = back.outs \union over
    BY <1>2, <2>1 DEF TxFor, over
  <2>4. NoTreasury(tx.outs) => NoTreasury(t.outs)
    BY <1>3, <2>2, <2>3, PlainOuts
  <2> QED
    BY <2>3, <2>4 DEF TxFor
<1> QED
  BY <1>4, <1>5

\* A request goes on: the ledger stands still.
LEMMA GoOnKeeps ==
  ASSUME IInv, NEW who \in Players, NEW next, \A k \in next : JobOk(who, k),
         GoOn(who, next), UNCHANGED <<pool, cells, born>>
  PROVE  IInv'
<1>0. pool' = pool /\ cells' = cells /\ born' = born
  OBVIOUS
<1>1. PICK k : JobOk(who, k) /\ job' = [job EXCEPT ![who] = k]
  BY DEF GoOn, JobOk
<1>2. /\ job' = [w \in Players |-> job'[w]]
      /\ \A w \in Players : job'[w] = IF w = who THEN k ELSE job[w]
  BY <1>1 DEF IInv, JobsOk
<1>3. ASSUME NEW w \in Players
      PROVE  JobOk(w, job[w])'
  <2>1. JobOk(w, job'[w])
    BY <1>1, <1>2 DEF IInv, JobsOk
  <2> QED
    BY <1>0, <2>1 DEF JobOk, ReadingOk, SendingOk, OnlyFirst, Carried
<1> QED
  BY <1>0, <1>2, <1>3 DEF IInv, JobsOk, PoolOk

(***************************************************************************)
(* A request begins.                                                       *)
(***************************************************************************)
LEMMA StartKeeps ==
  ASSUME IInv, NEW who \in Players, NEW order, NEW p, NEW todo,
         ReadingOk(who, [at |-> "reading", order |-> order, todo |-> todo,
                         pool |-> p, got |-> {}, header |-> FALSE]),
         Start(who, order, p, todo), UNCHANGED <<pool, cells, born>>
  PROVE  IInv'
<1> DEFINE j == [at |-> "reading", order |-> order, todo |-> todo,
                 pool |-> p, got |-> {}, header |-> FALSE]
<1>1. GoOn(who, Built(who, j))
  BY DEF Start
<1>2. ReadingOk(who, j)
  OBVIOUS
<1> HIDE DEF j
<1>3. \A k \in Built(who, j) : JobOk(who, k)
  BY <1>2, BuiltIsOk
<1> QED
  BY <1>1, <1>3, GoOnKeeps

(***************************************************************************)
(* A read.  The case that matters is the treasury of a close: it is the    *)
(* only cell of its kind at that moment (findTreasuryCell), so all of it   *)
(* is carried.                                                             *)
(***************************************************************************)
LEMMA ReadIsOk ==
  ASSUME NEW who, NEW j, ReadingOk(who, j), j.todo # << >>,
         NEW S \in Found(who, j, Head(j.todo)),
         NEW h
  PROVE  ReadingOk(who, [j EXCEPT !.todo = Tail(@), !.got = @ \union S, !.header = h])
<1> DEFINE read == Head(j.todo)
           k == [j EXCEPT !.todo = Tail(@), !.got = @ \union S, !.header = h]
<1>1. /\ DOMAIN k = DOMAIN j /\ k.at = j.at /\ k.order = j.order /\ k.pool = j.pool
      /\ k.todo = Tail(j.todo) /\ k.got = j.got \union S
  BY DEF ReadingOk
<1> HIDE DEF k
<1>2. ASSUME j.order.op = "close"
      PROVE  /\ k.todo \in {<<"plain", "header">>, <<"header">>, << >>}
             /\ Carried(k.pool, k.got)
  <2>1. CASE j.todo = <<"treasury", "plain", "header">>
    <3>1. read = "treasury" /\ k.todo = <<"plain", "header">>
      BY <1>1, <2>1
    <3>2. S = OfKind(cells, "treasury")
      BY <1>2, <3>1, FoundTreasury DEF findTreasuryCell
    <3> QED
      BY <1>1, <3>1, <3>2 DEF Carried
  <2>2. CASE j.todo \in {<<"plain", "header">>, <<"header">>, << >>} /\ Carried(j.pool, j.got)
    <3>1. j.todo = <<"plain", "header">> => Tail(j.todo) = <<"header">>
      OBVIOUS
    <3>2. j.todo = <<"header">> => Tail(j.todo) = << >>
      OBVIOUS
    <3>3. k.todo \in {<<"plain", "header">>, <<"header">>, << >>}
      BY <1>1, <2>2, <3>1, <3>2
    <3> QED
      BY <1>1, <2>2, <3>3 DEF Carried
  <2> QED
    BY <1>2, <2>1, <2>2 DEF ReadingOk
<1>3. ReadingOk(who, k)
  BY <1>1, <1>2 DEF ReadingOk
<1> QED
  BY <1>3 DEF k

LEMMA ReadKeeps ==
  ASSUME IInv, NEW who \in Players, Read(who)
  PROVE  IInv'
<1> DEFINE j == job[who]
           read == Head(j.todo)
           after(S) == [j EXCEPT !.todo = Tail(@), !.got = @ \union S,
                                 !.header = @ \/ (read = "header" /\ late)]
           next == UNION {Built(who, after(S)) : S \in Found(who, j, read)}
<1>1. ReadingOk(who, j) /\ j.todo # << >>
  <2>1. JobOk(who, j) /\ j.at = "reading"
    BY DEF Read, IInv, JobsOk
  <2> HIDE DEF j
  <2> QED
    BY <2>1 DEF JobOk, Idle, SendingOk
<1>2. ASSUME NEW S \in Found(who, j, read)
      PROVE  ReadingOk(who, after(S))
  BY <1>1, ReadIsOk
<1>3. GoOn(who, next) /\ UNCHANGED <<pool, cells, born>>
  BY DEF Read, ledger
<1> HIDE DEF after
<1>4. \A k \in next : JobOk(who, k)
  BY <1>2, BuiltIsOk
<1> QED
  BY <1>3, <1>4, GoOnKeeps

LEMMA CompleteKeeps ==
  ASSUME IInv, NEW who \in Players, Complete(who)
  PROVE  IInv'
<1> DEFINE j == job[who]
           with(tx) == [j EXCEPT !.at = "complete", !.tx = tx]
           next == {with(tx) : tx \in completeFeeAndChange(who, j.tx)}
<1>1. SendingOk(who, j)
  <2>1. JobOk(who, j) /\ j.at = "draft"
    BY DEF Complete, IInv, JobsOk
  <2> HIDE DEF j
  <2> QED
    BY <2>1 DEF JobOk, Idle, ReadingOk
<1>2. ASSUME NEW tx \in completeFeeAndChange(who, j.tx)
      PROVE  JobOk(who, with(tx))
  <2> DEFINE k == with(tx)
  <2>1. /\ DOMAIN k = DOMAIN j /\ k.at = "complete" /\ k.order = j.order /\ k.tx = tx
    BY <1>1 DEF SendingOk
  <2> HIDE DEF k
  <2>2. /\ TxFor(j.order.op, tx)
        /\ tx.prev = j.tx.prev /\ tx.next = j.tx.next /\ j.tx.ins \subseteq tx.ins
    BY <1>1, CompletedIs DEF SendingOk
  <2>3. SendingOk(who, k)
    BY <1>1, <2>1, <2>2 DEF SendingOk, Carried
  <2> QED
    BY <2>3 DEF JobOk, k
<1>3. GoOn(who, next) /\ UNCHANGED <<pool, cells, born>>
  BY DEF Complete, ledger
<1> HIDE DEF with
<1>4. \A k \in next : JobOk(who, k)
  BY <1>2
<1> QED
  BY <1>3, <1>4, GoOnKeeps

\* A request remembers a pool by its out-point: a pool made since is another.
Untouched(who) ==
  Remembered(who) # NoPool /\ Remembered(who) = pool'
    => /\ Remembered(who) = pool
       /\ OfKind(cells', "treasury") \subseteq OfKind(cells, "treasury")

Landing(op, tx) ==
  /\ TxFor(op, tx)
  /\ tx.prev \in {NoPool, pool}
  /\ tx.prev = NoPool /\ tx.next # NoPool => ~born
  /\ tx.prev # NoPool /\ tx.next = NoPool => Carried(tx.prev, tx.ins)
  /\ Land(tx, SeenPools, SeenCells)
  /\ born' = (born \/ tx.next # NoPool)

(***************************************************************************)
(* A transaction lands.                                                    *)
(***************************************************************************)
LEMMA LandKeeps ==
  ASSUME IInv, NEW op, NEW tx, Landing(op, tx)
  PROVE  PoolOk' /\ \A who \in Players : Untouched(who)
<1> DEFINE kept == cells \ tx.ins
           old == kept \union SeenCells
<1>1. \A c \in cells' : c.kind = "treasury" /\ NoTreasury(tx.outs) => c \in kept
  <2>1. cells' = kept \union {Placed(out, old) : out \in tx.outs}
    BY DEF Landing, Land
  <2>2. \A out \in tx.outs : Placed(out, old).kind = out.kind
    BY DEF Placed
  <2> HIDE DEF kept, old
  <2> QED
    BY <2>1, <2>2 DEF NoTreasury
<1>2. CASE tx.prev = NoPool /\ tx.next = NoPool
  <2>1. NoTreasury(tx.outs) /\ pool' = pool /\ (born => born')
    BY <1>2 DEF Landing, TxFor, Land
  <2>2. OfKind(cells', "treasury") \subseteq OfKind(cells, "treasury")
    BY <1>1, <2>1 DEF OfKind
  <2>3. NoTreasury(cells) => NoTreasury(cells')
    BY <2>2 DEF OfKind, NoTreasury
  <2> QED
    BY <2>1, <2>2, <2>3 DEF IInv, PoolOk, Untouched
<1>3. CASE tx.prev # NoPool /\ tx.next = NoPool
  <2>1. NoTreasury(tx.outs) /\ pool' = NoPool /\ Carried(pool, tx.ins)
    BY <1>3 DEF Landing, TxFor, Land
  <2>2. NoTreasury(cells')
    BY <1>1, <2>1 DEF Carried, OfKind, NoTreasury
  <2> QED
    BY <2>1, <2>2 DEF PoolOk, Untouched
<1>4. CASE tx.next # NoPool
  <2> DEFINE taken == {p.n : p \in SeenPools}
             u == Unused(taken)
  <2>1. /\ IsPool(tx.next) /\ pool' = [tx.next EXCEPT !.n = u] /\ born'
    BY <1>4 DEF Landing, TxFor, Land
  <2>2. u \notin taken
    BY SeenFinite, UnusedIsUnused
  <2> HIDE DEF u
  <2>3. IsPool(pool') /\ pool'.n = u /\ pool'.variant = tx.next.variant
    BY <2>1 DEF IsPool
  <2>4. tx.next.variant # "XUDT" => NoTreasury(cells')
    <3>1. ASSUME tx.next.variant # "XUDT"
          PROVE  NoTreasury(cells) /\ NoTreasury(tx.outs)
      BY <1>4, <3>1 DEF Landing, TxFor, IInv, PoolOk
    <3> QED
      BY <1>1, <3>1 DEF NoTreasury
  <2>5. pool' # NoPool
    BY <2>3, PoolIsSome
  <2>6. PoolOk'
    BY <2>1, <2>3, <2>4, <2>5 DEF PoolOk, IsPool
  <2>7. ASSUME NEW who \in Players, Remembered(who) # NoPool
        PROVE  Remembered(who) # pool'
    <3>1. Remembered(who) \in SeenPools
      BY <2>7 DEF SeenPools, Remembered
    <3> QED
      BY <2>2, <2>3, <3>1
  <2> QED
    BY <2>6, <2>7 DEF Untouched
<1> QED
  BY <1>2, <1>3, <1>4

\* What a request relies on outlives a transaction of somebody else.
LEMMA OthersKeep ==
  ASSUME IInv, NEW who \in Players, job'[who] = job[who], Untouched(who),
         job[who] # Idle /\ job[who].order.op = "create" /\ ~born => ~born'
  PROVE  JobOk(who, job[who])'
<1> DEFINE j == job[who]
<1>1. JobOk(who, j)
  BY DEF IInv, JobsOk
<1>2. j # Idle => OnlyFirst(who, j.order.op) /\ OnlyFirst(who, j.order.op)'
  BY <1>1 DEF JobOk, ReadingOk, SendingOk, OnlyFirst
<1>3. ASSUME NEW S, Remembered(who) # NoPool, Carried(Remembered(who), S)
      PROVE  Remembered(who) = pool' => OfKind(cells', "treasury") \subseteq S
  BY <1>3 DEF Untouched, Carried
<1>4. CASE j = Idle
  BY <1>4 DEF JobOk
<1>5. CASE ReadingOk(who, j) /\ j.todo # << >>
  <2>1. Remembered(who) = j.pool
    BY <1>5 DEF Remembered, ReadingOk
  <2>2. j # Idle
    BY <1>5 DEF Idle, ReadingOk
  <2>3. j.order.op = "close" => j.pool # NoPool
    BY <1>5, PoolIsSome DEF ReadingOk
  <2> HIDE DEF j
  <2>4. ReadingOk(who, j)'
    BY <1>2, <1>3, <1>5, <2>1, <2>2, <2>3 DEF ReadingOk, OnlyFirst, Carried, j
  <2> QED
    BY <1>5, <2>4 DEF JobOk, j
<1>6. CASE SendingOk(who, j)
  <2>1. Remembered(who) = j.tx.prev
    BY <1>6 DEF Remembered, SendingOk
  <2>2. j # Idle
    BY <1>6 DEF Idle, SendingOk
  <2>4. SendingOk(who, j)'
    BY <1>2, <1>3, <1>6, <2>1, <2>2 DEF SendingOk, OnlyFirst, Carried
  <2> QED
    BY <2>4 DEF JobOk
<1> QED
  BY <1>1, <1>4, <1>5, <1>6 DEF JobOk

(***************************************************************************)
(* One lemma for each action that is left.                                 *)
(***************************************************************************)
LEMMA SendKeeps ==
  ASSUME IInv, NEW who \in Players, signAndSend(who)
  PROVE  IInv'
<1> DEFINE j == job[who]
           tx == j.tx
<1>1. SendingOk(who, j)
  <2>1. JobOk(who, j) /\ j.at = "complete"
    BY DEF signAndSend, IInv, JobsOk
  <2> HIDE DEF j
  <2> QED
    BY <2>1 DEF JobOk, Idle, ReadingOk
<1>2. /\ job' = [w \in Players |-> job'[w]]
      /\ \A w \in Players : job'[w] = IF w = who THEN Idle ELSE job[w]
  BY DEF signAndSend, IInv, JobsOk
<1>3. JobOk(who, job[who])'
  BY <1>2 DEF JobOk
<1>4. CASE Lands(who)
  <2>1. /\ Land(tx, SeenPools, SeenCells)
        /\ born' = (born \/ tx.next # NoPool)
        /\ tx.prev \in {NoPool, pool}
    BY <1>4 DEF signAndSend, Lands, Live
  <2>2. /\ TxFor(j.order.op, tx) /\ OnlyFirst(who, j.order.op)
        /\ tx.prev # NoPool /\ tx.next = NoPool => Carried(tx.prev, tx.ins)
    BY <1>1 DEF SendingOk
  <2>3. tx.prev = NoPool /\ tx.next # NoPool => who = Creator /\ ~born
    BY <2>2 DEF TxFor, OnlyFirst
  <2> HIDE DEF j, tx
  <2>4. Landing(j.order.op, tx)
    BY <2>1, <2>2, <2>3 DEF Landing
  <2>5. PoolOk' /\ \A w \in Players : Untouched(w)
    BY <2>4, LandKeeps
  <2>6. ASSUME NEW w \in Players, w # who
        PROVE  JobOk(w, job[w])'
    <3>1. job'[w] = job[w]
      BY <1>2, <2>6
    <3>2. ASSUME job[w] # Idle, job[w].order.op = "create", ~born
          PROVE  ~born'
      <4>1. w = Creator
        BY <3>2 DEF IInv, JobsOk, JobOk, ReadingOk, SendingOk, OnlyFirst
      <4>2. pool = NoPool
        BY <3>2 DEF IInv, PoolOk
      <4> QED
        BY <2>1, <2>3, <2>6, <3>2, <4>1, <4>2
    <3> QED
      BY <2>5, <3>1, <3>2, OthersKeep
  <2> QED
    BY <1>2, <1>3, <2>5, <2>6 DEF IInv, JobsOk
<1>5. CASE ~Lands(who)
  <2>1. pool' = pool /\ cells' = cells /\ born' = born
    BY <1>5 DEF signAndSend
  <2>2. ASSUME NEW w \in Players, w # who
        PROVE  JobOk(w, job[w])'
    BY <1>2, <2>1, <2>2 DEF IInv, JobsOk, JobOk, ReadingOk, SendingOk, OnlyFirst, Carried
  <2> QED
    BY <1>2, <1>3, <2>1, <2>2 DEF IInv, JobsOk, PoolOk
<1> QED
  BY <1>4, <1>5

\* The rest of the world continues the pool that is live.
LEMMA OutsideKeeps ==
  ASSUME IInv, NEW tx, Landing("outside", tx), tx.prev # NoPool, UNCHANGED <<job, born>>
  PROVE  IInv'
<1>1. PoolOk' /\ \A who \in Players : Untouched(who)
  BY LandKeeps
<1>2. ASSUME NEW who \in Players
      PROVE  JobOk(who, job[who])'
  BY <1>1, OthersKeep
<1> QED
  BY <1>1, <1>2 DEF IInv, JobsOk

LEMMA TransitionKeeps ==
  ASSUME IInv, Transition
  PROVE  IInv'
<1>1. PICK step \in PhaseSteps, w \in Side \union {"VOID", "UNDECIDED"} :
        LET q == [pool EXCEPT !.status = step[2], !.winner = w]
            tx == attachCodeDep(Tx(pool, q, {}, {}), {"pool_type", "pool_admin_lock"})
        IN  pool.status = step[1] /\ Land(tx, SeenPools, SeenCells)
  BY DEF Transition
<1> DEFINE q == [pool EXCEPT !.status = step[2], !.winner = w]
           tx == attachCodeDep(Tx(pool, q, {}, {}), {"pool_type", "pool_admin_lock"})
<1>3. pool.status # "NONE" /\ step[2] # "NONE"
  BY <1>1 DEF PhaseSteps
<1>4. IsPool(pool)
  BY <1>3 DEF IInv, PoolOk, NoPool
<1>5. IsPool(q) /\ q.variant = pool.variant
  BY <1>3, <1>4 DEF IsPool
<1> HIDE DEF q
<1>6. TxFor("outside", tx)
  BY <1>4, <1>5, Continues, PlainOuts
<1>7. tx.prev = pool /\ tx.next = q
  BY TxIs
<1>8. pool # NoPool /\ q # NoPool
  BY <1>4, <1>5, PoolIsSome
<1>9. Land(tx, SeenPools, SeenCells) /\ UNCHANGED <<job, born>>
  BY <1>1 DEF Transition, q
<1> HIDE DEF tx
<1>10. Landing("outside", tx)
  BY <1>6, <1>7, <1>8, <1>9 DEF Landing, IInv, PoolOk
<1> QED
  BY <1>7, <1>8, <1>9, <1>10, OutsideKeeps

LEMMA ForeignKeeps ==
  ASSUME IInv, NEW h, NEW want, ForeignDeposit(h, want)
  PROVE  IInv'
<1> DEFINE next == Continue(pool, want, pool.capacity)
           outs(S) == Minted(h, want)
                        \union {Out("treasury", "pool", Staked(next))}
                        \union OutIf("stake", h, Total(S) - Staked(next))
           made(S) == attachCodeDep(Tx(pool, next, S, outs(S)),
                                    PoolDeps(pool) \union {"share_xudt"})
<1>1. PICK S : Land(made(S), SeenPools, SeenCells)
  BY DEF ForeignDeposit
<1>2. pool.status = "OPEN" /\ pool.variant = "XUDT" /\ UNCHANGED <<job, born>>
  BY DEF ForeignDeposit
<1>3. IsPool(pool)
  BY <1>2 DEF IInv, PoolOk, NoPool
<1>4. IsPool(next) /\ next.variant = pool.variant
  BY <1>3, ContinueIs
<1> DEFINE tx == made(S)
<1> HIDE DEF next, outs
<1>5. TxFor("outside", tx)
  BY <1>2, <1>3, <1>4, Continues
<1>6. tx.prev = pool /\ tx.next = next
  BY TxIs
<1>7. pool # NoPool /\ next # NoPool
  BY <1>3, <1>4, PoolIsSome
<1> HIDE DEF tx
<1>8. Landing("outside", tx)
  BY <1>1, <1>2, <1>5, <1>6, <1>7 DEF Landing, IInv, PoolOk, tx
<1> QED
  BY <1>2, <1>6, <1>7, <1>8, OutsideKeeps

LEMMA AskKeeps ==
  ASSUME IInv, NEW h \in Holders, Ask(h)
  PROVE  IInv'
<1>0. h \in Players /\ h # Creator
  BY LedgerAssumption DEF Players
<1>1. UNCHANGED <<pool, cells, born>>
  BY DEF Ask, AskDeposit, AskWithdraw, AskRedeem, AskBurn, AskMore, ledger
<1>2. ASSUME NEW p \in getPool
      PROVE  IsPool(p)
  BY DEF getPool, IInv, PoolOk
<1> DEFINE reading(order, p, todo) ==
             [at |-> "reading", order |-> order, todo |-> todo,
              pool |-> p, got |-> {}, header |-> FALSE]
<1>3. ASSUME NEW order, NEW p, NEW todo, IsPool(p),
             order.op \in {"deposit", "withdraw", "redeem"}
      PROVE  ReadingOk(h, reading(order, p, todo))
  BY <1>3 DEF ReadingOk, OnlyFirst, Ops
<1>4. CASE \E want \in Stakes[h] : AskDeposit(h, want)
  <2>1. PICK want \in Stakes[h] : \E p \in getPool :
          Start(h, [op |-> "deposit", want |-> want], p, initiateDeposit(p))
    BY <1>4 DEF AskDeposit
  <2> PICK p \in getPool :
          Start(h, [op |-> "deposit", want |-> want], p, initiateDeposit(p))
    BY <2>1
  <2> DEFINE order == [op |-> "deposit", want |-> want]
  <2>2. order.op = "deposit"
    OBVIOUS
  <2> HIDE DEF order
  <2>3. ReadingOk(h, reading(order, p, initiateDeposit(p)))
    BY <1>2, <1>3, <2>2
  <2> QED
    BY <1>0, <1>1, <2>3, StartKeeps DEF order
<1>5. CASE \E want \in Pulls : AskWithdraw(h, want)
  <2>1. PICK want \in Pulls : \E p \in getPool :
          Start(h, [op |-> "withdraw", want |-> want], p, initiateWithdraw(p, want))
    BY <1>5 DEF AskWithdraw
  <2> PICK p \in getPool :
          Start(h, [op |-> "withdraw", want |-> want], p, initiateWithdraw(p, want))
    BY <2>1
  <2> DEFINE order == [op |-> "withdraw", want |-> want]
  <2>2. order.op = "withdraw"
    OBVIOUS
  <2> HIDE DEF order
  <2>3. ReadingOk(h, reading(order, p, initiateWithdraw(p, want)))
    BY <1>2, <1>3, <2>2
  <2> QED
    BY <1>0, <1>1, <2>3, StartKeeps DEF order
<1>6. CASE AskRedeem(h)
  <2>1. PICK p \in getPool : Start(h, [op |-> "redeem"], p, initiateRedeem(p))
    BY <1>6 DEF AskRedeem
  <2> DEFINE order == [op |-> "redeem"]
  <2>2. order.op = "redeem"
    OBVIOUS
  <2> HIDE DEF order
  <2>3. ReadingOk(h, reading(order, p, initiateRedeem(p)))
    BY <1>2, <1>3, <2>2
  <2> QED
    BY <1>0, <1>1, <2>1, <2>3, StartKeeps DEF order
<1>7. CASE \E sides \in BurnSides : AskBurn(h, sides)
  <2>1. PICK sides : Start(h, [op |-> "burn", sides |-> sides], NoPool,
                           initiateBurnShares(sides))
    BY <1>7 DEF AskBurn
  <2> DEFINE order == [op |-> "burn", sides |-> sides]
  <2>2. order.op = "burn"
    OBVIOUS
  <2> HIDE DEF order
  <2>3. ReadingOk(h, reading(order, NoPool, initiateBurnShares(sides)))
    BY <2>2 DEF ReadingOk, OnlyFirst, Ops
  <2> QED
    BY <1>0, <1>1, <2>1, <2>3, StartKeeps DEF order
<1> QED
  BY <1>4, <1>5, <1>6, <1>7 DEF Ask

LEMMA CreateKeeps ==
  ASSUME IInv, NEW r, draftCreate(r)
  PROVE  IInv'
<1> DEFINE order == [op |-> "create", round |-> r]
           todo == <<"plain">>
           j == [at |-> "reading", order |-> order, todo |-> todo,
                 pool |-> NoPool, got |-> {}, header |-> FALSE]
<1>1. /\ Start(Creator, order, NoPool, todo) /\ ~born
      /\ UNCHANGED <<pool, cells, born>>
  BY DEF draftCreate, KeeperAsks, ledger
<1>2. order.op = "create"
  OBVIOUS
<1> HIDE DEF order, todo
<1>3. ReadingOk(Creator, j)
  BY <1>1, <1>2 DEF ReadingOk, OnlyFirst, Ops
<1> QED
  BY <1>1, <1>3, StartKeeps DEF Players

LEMMA CloseKeeps ==
  ASSUME IInv, draftClose
  PROVE  IInv'
<1>1. PICK p \in getPool : Start(Creator, [op |-> "close"], p, initiateClose(p))
  BY DEF draftClose
<1>2. UNCHANGED <<pool, cells, born>>
  BY DEF draftClose, KeeperAsks, ledger
<1>3. p = pool /\ IsPool(p)
  BY DEF getPool, IInv, PoolOk
<1> DEFINE order == [op |-> "close"]
           todo == initiateClose(p)
           j == [at |-> "reading", order |-> order, todo |-> todo,
                 pool |-> p, got |-> {}, header |-> FALSE]
<1>4. p.variant = "XUDT" => todo = <<"treasury", "plain", "header">>
  BY DEF initiateClose
<1>5. p.variant # "XUDT" => todo = <<"plain", "header">>
  BY DEF initiateClose
<1>6. p.variant # "XUDT" => Carried(p, {})
  BY <1>3 DEF IInv, PoolOk, Carried, OfKind, NoTreasury
<1>7. order.op = "close"
  OBVIOUS
<1> HIDE DEF order, todo
<1>8. ReadingOk(Creator, j)
  BY <1>3, <1>4, <1>5, <1>6, <1>7 DEF ReadingOk, OnlyFirst, Ops
<1> QED
  BY <1>1, <1>2, <1>8, StartKeeps DEF Players, order, todo

(***************************************************************************)
(* Every step of holders, keeper and other software keeps the invariant:   *)
(* IInv is what the requests in flight may rely on at any time.            *)
(***************************************************************************)
THEOREM Inductive ==
  ASSUME IInv, [Next]_vars
  PROVE  IInv'
<1>1. CASE \E h \in Holders : Ask(h)
  BY <1>1, AskKeeps
<1>2. CASE \E r \in Rounds : draftCreate(r)
  BY <1>2, CreateKeeps
<1>3. CASE draftClose
  BY <1>3, CloseKeeps
<1>4. CASE \E who \in Players : Serve(who)
  BY <1>4, ReadKeeps, CompleteKeeps, SendKeeps DEF Serve
<1>5. CASE Transition
  BY <1>5, TransitionKeeps
<1>6. CASE TimePasses
  <2>1. UNCHANGED <<pool, cells, born, job>>
    BY <1>6 DEF TimePasses
  <2> QED
    BY <2>1 DEF IInv, PoolOk, JobsOk, JobOk, ReadingOk, SendingOk, OnlyFirst, Carried
<1>7. CASE \E h \in Holders : \E want \in Stakes[h] : ForeignDeposit(h, want)
  BY <1>7, ForeignKeeps
<1>8. CASE UNCHANGED vars
  <2>1. UNCHANGED <<pool, cells, born, job>>
    BY <1>8 DEF vars, ledger
  <2> QED
    BY <2>1 DEF IInv, PoolOk, JobsOk, JobOk, ReadingOk, SendingOk, OnlyFirst, Carried
<1> QED
  BY <1>1, <1>2, <1>3, <1>4, <1>5, <1>6, <1>7, <1>8 DEF Next

\* Holders own stake and the creator one plain cell.
LEMMA InitIs ==
  ASSUME Init
  PROVE  IInv
<1>1. NoTreasury(cells)
  BY DEF Init, NoTreasury
<1>2. JobsOk
  BY DEF Init, JobsOk, JobOk
<1> QED
  BY <1>1, <1>2 DEF Init, IInv, PoolOk

(***************************************************************************)
(* Once the PoolCell is gone no treasury cell is left that treasury_lock   *)
(* could never open again: close.ts puts every one of them among the       *)
(* inputs or the close does not land.                                      *)
(***************************************************************************)
THEOREM TreasuriesAreSwept == Spec => []NothingOrphaned
<1>1. Init => IInv
  BY InitIs
<1>2. IInv /\ [Next]_vars => IInv'
  BY Inductive
<1>3. IInv => NothingOrphaned
  BY DEF IInv, PoolOk, NoTreasury, NothingOrphaned, OfKind
<1> QED
  BY <1>1, <1>2, <1>3, PTL DEF Spec

(***************************************************************************)
(* What cells hold.  Total counts units, so sums are cardinalities: they   *)
(* add over disjoint sets, which is all that is needed of them.            *)
(***************************************************************************)
Good(S) ==
  /\ IsFiniteSet(S)
  /\ \A c \in S : c.amount \in Nat /\ (c.kind \in Side => c.amount > 0)

Units(S) == UNION {{c} \X (1 .. c.amount) : c \in S}

LEMMA UnitsFinite ==
  ASSUME NEW S, Good(S)
  PROVE  IsFiniteSet(Units(S))
<1> DEFINE T == {{c} \X (1 .. c.amount) : c \in S}
           f == [c \in S |-> {c} \X (1 .. c.amount)]
<1>1. f \in Surjection(S, T)
  BY DEF Surjection
<1>2. IsFiniteSet(T)
  BY <1>1, FS_Surjection DEF Good
<1>3. ASSUME NEW c \in S
      PROVE  IsFiniteSet({c} \X (1 .. c.amount))
  <2>1. c.amount \in Int
    BY <1>3 DEF Good
  <2>2. IsFiniteSet({c})
    BY FS_Singleton
  <2>3. IsFiniteSet(1 .. c.amount)
    BY <2>1, FS_Interval
  <2> QED
    BY <2>2, <2>3, FS_Product
<1>4. \A t \in T : IsFiniteSet(t)
  BY <1>3
<1> QED
  BY <1>2, <1>4, FS_UNION DEF Units

LEMMA TotalNat ==
  ASSUME NEW S, Good(S)
  PROVE  Total(S) \in Nat
BY UnitsFinite, FS_CardinalityType DEF Total, Units

LEMMA TotalNone == Total({}) = 0 /\ Good({})
<1>1. Units({}) = {}
  BY DEF Units
<1> QED
  BY <1>1, FS_EmptySet DEF Total, Units, Good

LEMMA GoodParts ==
  /\ \A S, T : Good(S) /\ Good(T) => Good(S \union T)
  /\ \A S, T : Good(S) /\ T \subseteq S => Good(T)
<1>1. \A S, T : IsFiniteSet(S) /\ IsFiniteSet(T) => IsFiniteSet(S \union T)
  BY FS_Union
<1>2. \A S, T : IsFiniteSet(S) /\ T \subseteq S => IsFiniteSet(T)
  BY FS_Subset
<1> QED
  BY <1>1, <1>2 DEF Good

LEMMA TotalAdds ==
  ASSUME NEW S, NEW T, Good(S), Good(T), S \cap T = {}
  PROVE  Total(S \union T) = Total(S) + Total(T)
<1>1. Units(S \union T) = Units(S) \union Units(T)
  BY DEF Units
<1>2. Units(S) \cap Units(T) = {}
  BY DEF Units
<1>3. IsFiniteSet(Units(S)) /\ IsFiniteSet(Units(T))
  BY UnitsFinite
<1>4. Cardinality(Units(S) \cap Units(T)) = 0
  BY <1>2, FS_EmptySet
<1>5. Cardinality(Units(S)) \in Nat /\ Cardinality(Units(T)) \in Nat
  BY <1>3, FS_CardinalityType
<1>6. Cardinality(Units(S) \union Units(T)) = Cardinality(Units(S)) + Cardinality(Units(T))
  <2> DEFINE A == Units(S)
             B == Units(T)
  <2> HIDE DEF A, B
  <2>1. Cardinality(A \union B) = Cardinality(A) + Cardinality(B) - Cardinality(A \cap B)
    BY <1>3, FS_Union DEF A, B
  <2> DEFINE x == Cardinality(A)
             y == Cardinality(B)
             z == Cardinality(A \cap B)
  <2>2. x \in Nat /\ y \in Nat /\ z = 0
    BY <1>4, <1>5 DEF A, B
  <2>3. Cardinality(A \union B) = x + y - z
    BY <2>1
  <2> HIDE DEF x, y, z
  <2>4. Cardinality(A \union B) = x + y
    BY <2>2, <2>3
  <2> QED
    BY <2>4 DEF x, y, A, B
<1> QED
  BY <1>1, <1>6 DEF Total, Units

LEMMA TotalOne ==
  ASSUME NEW c, c.amount \in Nat
  PROVE  Total({c}) = c.amount
<1>1. Units({c}) = {c} \X (1 .. c.amount)
  BY DEF Units
<1>2. IsFiniteSet({c}) /\ Cardinality({c}) = 1
  BY FS_Singleton
<1> DEFINE a == c.amount
<1> HIDE DEF a
<1>0. a \in Nat /\ 1 \in Int /\ a \in Int
  BY DEF a
<1>3. IsFiniteSet(1 .. a) /\ Cardinality(1 .. a) = a
  <2>1. IsFiniteSet(1 .. a)
    BY <1>0, FS_Interval
  <2>2. Cardinality(1 .. a) = IF 1 > a THEN 0 ELSE a - 1 + 1
    BY <1>0, FS_Interval
  <2> QED
    BY <1>0, <2>1, <2>2
<1>4. Cardinality({c} \X (1 .. a)) = 1 * a
  <2> DEFINE A == {c}
             B == 1 .. a
  <2>1. IsFiniteSet(A) /\ IsFiniteSet(B) /\ Cardinality(A) = 1 /\ Cardinality(B) = a
    BY <1>2, <1>3
  <2> HIDE DEF A, B
  <2>2. Cardinality(A \X B) = Cardinality(A) * Cardinality(B)
    BY <2>1, FS_Product
  <2> QED
    BY <2>1, <2>2 DEF A, B
<1> QED
  BY <1>0, <1>1, <1>4 DEF Total, Units, a

LEMMA TotalPositive ==
  ASSUME NEW S, Good(S), NEW c \in S, c.amount > 0
  PROVE  Total(S) > 0
<1> DEFINE T == S \ {c}
<1>1. S = T \union {c} /\ T \cap {c} = {} /\ Good(T) /\ Good({c})
  <2>1. T \subseteq S /\ {c} \subseteq S /\ S = T \union {c} /\ T \cap {c} = {}
    OBVIOUS
  <2> HIDE DEF T
  <2> QED
    BY <2>1, GoodParts
<1>2. c.amount \in Nat /\ Total({c}) = c.amount
  BY TotalOne DEF Good
<1>3. Total(T) \in Nat
  BY <1>1, TotalNat
<1> HIDE DEF T
<1>4. Total(S) = Total(T) + Total({c})
  BY <1>1, TotalAdds
<1> QED
  BY <1>2, <1>3, <1>4

(***************************************************************************)
(* Sorting cells by kind.                                                  *)
(***************************************************************************)
LEMMA Kinds ==
  /\ \A S, T, k : OfKind(S \union T, k) = OfKind(S, k) \union OfKind(T, k)
  /\ \A S, k : (\A c \in S : c.kind # k) => OfKind(S, k) = {}
  /\ \A S, k : (\A c \in S : c.kind = k) => OfKind(S, k) = S
  /\ \A S, k : OfKind(S, k) \subseteq S
  /\ \A k : OfKind({}, k) = {}
BY DEF OfKind

LEMMA AmountNat ==
  ASSUME NEW S, Good(S), NEW k
  PROVE  Amount(S, k) \in Nat
<1>1. Good(OfKind(S, k))
  BY Kinds, GoodParts
<1> QED
  BY <1>1, TotalNat DEF Amount

LEMMA AmountOfNone ==
  ASSUME NEW S, NEW k, \A c \in S : c.kind # k
  PROVE  Amount(S, k) = 0
BY Kinds, TotalNone DEF Amount

\* One output.
LEMMA OutIs ==
  ASSUME NEW k, NEW o, NEW n \in Nat
  PROVE  /\ Total({Out(k, o, n)}) = n
         /\ Cardinality({Out(k, o, n)}) = 1
         /\ k \notin Side \/ n > 0 => Good({Out(k, o, n)})
         /\ \A i : OfKind({Out(k, o, n)}, i) = IF i = k THEN {Out(k, o, n)} ELSE {}
<1> DEFINE c == Out(k, o, n)
<1>1. c.kind = k /\ c.amount = n
  BY DEF Out
<1> HIDE DEF c
<1>2. Total({c}) = n
  BY <1>1, TotalOne
<1>3. IsFiniteSet({c}) /\ Cardinality({c}) = 1
  BY FS_Singleton
<1>4. k \notin Side \/ n > 0 => Good({c})
  BY <1>1, <1>3 DEF Good
<1>5. \A i : OfKind({c}, i) = IF i = k THEN {c} ELSE {}
  BY <1>1 DEF OfKind
<1> QED
  BY <1>2, <1>3, <1>4, <1>5 DEF c

LEMMA OutIfIs ==
  ASSUME NEW k, NEW o, NEW n \in Nat
  PROVE  /\ Total(OutIf(k, o, n)) = n
         /\ Good(OutIf(k, o, n))
         /\ \A i : OfKind(OutIf(k, o, n), i) = IF i = k THEN OutIf(k, o, n) ELSE {}
<1>1. CASE n > 0
  BY <1>1, OutIs DEF OutIf
<1>2. CASE n = 0
  <2>1. OutIf(k, o, n) = {}
    BY <1>2 DEF OutIf
  <2> QED
    BY <1>2, <2>1, TotalNone, Kinds
<1> QED
  BY <1>1, <1>2

\* Shares made for both sides.
LEMMA MintedIs ==
  ASSUME NEW who, NEW f \in [Side -> Nat]
  PROVE  /\ Good(Minted(who, f))
         /\ \A s \in Side : Amount(Minted(who, f), s) = f[s]
         /\ \A k : k \notin Side => OfKind(Minted(who, f), k) = {}
<1> DEFINE U == OutIf("UP", who, f["UP"])
           D == OutIf("DOWN", who, f["DOWN"])
<1>1. Minted(who, f) = U \union D
  BY DEF Minted, Side
<1>2. f["UP"] \in Nat /\ f["DOWN"] \in Nat
  BY DEF Side
<1>3. /\ Good(U) /\ Good(D) /\ Total(U) = f["UP"] /\ Total(D) = f["DOWN"]
      /\ \A i : OfKind(U, i) = IF i = "UP" THEN U ELSE {}
      /\ \A i : OfKind(D, i) = IF i = "DOWN" THEN D ELSE {}
  BY <1>2, OutIfIs
<1> HIDE DEF U, D
<1>4. \A k : OfKind(Minted(who, f), k) = OfKind(U, k) \union OfKind(D, k)
  BY <1>1, Kinds
<1>5. OfKind(Minted(who, f), "UP") = U /\ OfKind(Minted(who, f), "DOWN") = D
  BY <1>3, <1>4
<1>6. \A k : k \notin Side => OfKind(Minted(who, f), k) = {}
  BY <1>3, <1>4 DEF Side
<1>7. Good(Minted(who, f))
  BY <1>1, <1>3, GoodParts
<1> QED
  BY <1>3, <1>5, <1>6, <1>7 DEF Side, Amount

(***************************************************************************)
(* What the scripts ask of a transaction, but for what it may make: that   *)
(* is settled when it is completed.                                        *)
(***************************************************************************)
Rules(tx, who) ==
  /\ Runs(tx) \subseteq tx.deps
  /\ pool_type(tx)
  /\ share_xudt(tx)
  /\ treasury_lock(tx)
  /\ pool_admin_lock(tx)
  /\ SignedBy(tx, who)

\* The scripts look at shares and treasuries, at pools and the header.
Alike(t, tx) ==
  /\ t.prev = tx.prev /\ t.next = tx.next /\ t.header = tx.header
  /\ \A k \in Side \union {"treasury"} :
       OfKind(t.ins, k) = OfKind(tx.ins, k) /\ OfKind(t.outs, k) = OfKind(tx.outs, k)

LEMMA AlikeRules ==
  ASSUME NEW t, NEW tx, Alike(t, tx), pool_type(tx)
  PROVE  pool_type(t)
<1>1. \A s \in Side : share_in(t, s) = share_in(tx, s) /\ share_out(t, s) = share_out(tx, s)
  BY DEF Alike, share_in, share_out, Amount
<1>2. /\ Amount(t.ins, "treasury") = Amount(tx.ins, "treasury")
      /\ treasury_present(t.ins) = treasury_present(tx.ins)
      /\ treasury_present(t.outs) = treasury_present(tx.outs)
  BY DEF Alike, Amount, treasury_present
<1>3. \A b : /\ treasury_balance_is(t.ins, b) = treasury_balance_is(tx.ins, b)
             /\ treasury_balance_is(t.outs, b) = treasury_balance_is(tx.outs, b)
  BY DEF Alike, Amount, treasury_balance_is
<1>4. t.prev = tx.prev /\ t.next = tx.next /\ t.header = tx.header
  BY DEF Alike
<1>5. validate_create(tx) => validate_create(t)
  BY <1>3, <1>4 DEF validate_create
<1>6. validate_close(tx) => validate_close(t)
  BY <1>1, <1>4 DEF validate_close, shares_frozen
<1>7. validate_deposit(tx) => validate_deposit(t)
  BY <1>1, <1>3, <1>4 DEF validate_deposit, pool_capacity_unchanged
<1>8. phase_frozen(tx) => phase_frozen(t)
  BY <1>1, <1>2, <1>4 DEF phase_frozen, shares_frozen, pool_capacity_unchanged
<1>9. validate_redeem(tx) => validate_redeem(t)
  <2>1. \A x : treasury_pays(tx, x) => treasury_pays(t, x)
    BY <1>2, <1>3, <1>4 DEF treasury_pays, pool_capacity_unchanged
  <2>2. [s \in Side |-> share_in(t, s) - share_out(t, s)]
          = [s \in Side |-> share_in(tx, s) - share_out(tx, s)]
    BY <1>1
  <2> QED
    BY <1>4, <2>1, <2>2 DEF validate_redeem
<1>10. validate_transition(tx) => validate_transition(t)
  BY <1>4, <1>7, <1>8, <1>9 DEF validate_transition
<1> QED
  BY <1>4, <1>5, <1>6, <1>10 DEF pool_type

(***************************************************************************)
(* A pool the contract keeps: what the builders rely on of the pool they   *)
(* were given.                                                             *)
(***************************************************************************)
PoolSound(p) ==
  /\ IsPool(p)
  /\ {"rake_bps", "start_time", "close_time"} \subseteq DOMAIN p
  /\ p.variant \in {"CKB", "XUDT"}
  /\ p.total \in [Side -> Nat]
  /\ p.capacity \in Int
  /\ p.variant = "XUDT" => p.capacity = 0
  /\ p.rake_bps \in 0 .. RAKE_BPS_MAX
  /\ p.status \in {"LOCKED", "SETTLED", "FINALIZED"} => ~OneSided(p)

NoStake(S) == \A c \in S : c.kind \notin {"stake", "treasury"}

\* What goes in comes out, to the unit: more than Conserved asks.
Even(tx) == StakeOut(tx) = StakeIn(tx)

\* A draft of a CKB pool moves the stake when it is completed, not before.
Balanced(tx) ==
  IF IsCkb(tx) THEN NoStake(tx.ins \union tx.outs) ELSE Even(tx)

Stands(tx, who) ==
  /\ Good(tx.ins) /\ Good(tx.outs)
  /\ Rules(tx, who)
  /\ Balanced(tx)

(***************************************************************************)
(* What a transaction does for the one who signs it: whose cells it moves, *)
(* and how the totals and the pot move with them. The pot is the treasury  *)
(* and the capacity of the PoolCell together, as Accounts has it.          *)
(***************************************************************************)
Shaped(c) == c = Out(c.kind, c.owner, c.amount)

Owned(tx, who) ==
  /\ Good(tx.ins) /\ Good(tx.outs)
  /\ \A c \in tx.ins : c.kind = "treasury" \/ c.owner = who
  /\ \A c \in tx.outs : Shaped(c) /\ (c.kind = "treasury" \/ c.owner = who)

Cap(p) == IF p = NoPool THEN 0 ELSE p.capacity
PotIn(tx) == Amount(tx.ins, "treasury") + Cap(tx.prev)
PotOut(tx) == Amount(tx.outs, "treasury") + Cap(tx.next)

NoShares(S) == \A s \in Side : OfKind(S, s) = {}

Trades(tx, d) ==
  /\ tx.prev # NoPool /\ tx.next # NoPool
  /\ tx.prev.status = "OPEN" /\ tx.next.status = "OPEN"
  /\ \A s \in Side : tx.next.total[s] = tx.prev.total[s] + d[s]
  /\ PotOut(tx) = PotIn(tx) + (d["UP"] + d["DOWN"])

Redeems(tx) ==
  /\ tx.prev # NoPool /\ tx.next # NoPool
  /\ tx.prev.status \in {"FINALIZED", "VOID"} /\ tx.next.status = tx.prev.status
  /\ NoShares(tx.outs)

Burns(tx, sides) ==
  /\ tx.prev = NoPool /\ tx.next = NoPool
  /\ NoShares(tx.outs)
  /\ \A s \in Side : s \notin sides => OfKind(tx.ins, s) = {}
  /\ OfKind(tx.ins, "treasury") = {} /\ OfKind(tx.outs, "treasury") = {}

Creates(tx, r) ==
  /\ tx.prev = NoPool /\ tx.next # NoPool
  /\ tx.next.rake_bps = r.rake_bps
  /\ NoShares(tx.ins) /\ NoShares(tx.outs)
  /\ PotOut(tx) = 0 /\ PotIn(tx) = 0

LEMMA ShapedOuts ==
  /\ \A k, o, n : LET c == Out(k, o, n) IN Shaped(c) /\ c.kind = k /\ c.owner = o
  /\ \A k, o, n : \A c \in OutIf(k, o, n) : Shaped(c) /\ c.kind = k /\ c.owner = o
  /\ \A who, want : \A c \in Minted(who, want) : Shaped(c) /\ c.kind \in Side /\ c.owner = who
<1>1. \A k, o, n : LET c == Out(k, o, n) IN Shaped(c) /\ c.kind = k /\ c.owner = o
  BY DEF Shaped, Out
<1>2. \A k, o, n : \A c \in OutIf(k, o, n) : Shaped(c) /\ c.kind = k /\ c.owner = o
  BY <1>1 DEF OutIf
<1> QED
  BY <1>1, <1>2 DEF Minted

LEMMA FuelIs ==
  ASSUME NEW who, NEW S
  PROVE  LET fuel == {Out("plain", who, 0) : c \in S}
         IN  Good(fuel) /\ \A c \in fuel : c.kind = "plain"
<1> DEFINE fuel == {Out("plain", who, 0) : c \in S}
<1>1. Good({Out("plain", who, 0)})
  BY OutIs DEF Side
<1>2. fuel \subseteq {Out("plain", who, 0)}
  OBVIOUS
<1>3. Good(fuel)
  BY <1>1, <1>2, GoodParts
<1> QED
  BY <1>3 DEF Out

LEMMA CompletedStands ==
  ASSUME NEW op, NEW who, NEW tx, TxFor(op, tx), Stands(tx, who), Good(cells),
         \A p \in {tx.prev, tx.next} : p = NoPool \/ PoolSound(p),
         NEW t \in completeFeeAndChange(who, tx)
  PROVE  Accepts(t, who) /\ Good(t.outs) /\ Even(t)
<1> DEFINE fuel == {Out("plain", who, 0) : c \in OfKind(tx.ins, "plain")}
           back == [tx EXCEPT !.outs = @ \union fuel]
           lack == Lacking(tx)
           more == IF lack > 0 THEN collectAssetCells(CellsOf(cells, "stake", who), lack)
                   ELSE {{}}
<1>1. Good(fuel) /\ \A c \in fuel : c.kind = "plain"
  BY FuelIs
<1>2. \A k : k # "plain" => OfKind(fuel, k) = {}
  BY <1>1, Kinds
<1> HIDE DEF fuel
<1>3. /\ DOMAIN back = DOMAIN tx
      /\ back.prev = tx.prev /\ back.next = tx.next /\ back.ins = tx.ins
      /\ back.deps = tx.deps /\ back.header = tx.header
      /\ back.outs = tx.outs \union fuel
  BY DEF TxFor
<1>4. CASE ~IsCkb(tx)
  <2>1. t = back
    BY <1>4 DEF completeFeeAndChange, fuel
  <2> HIDE DEF back
  <2>2. \A k : k # "plain" => OfKind(t.outs, k) = OfKind(tx.outs, k)
    <3>1. \A k : OfKind(t.outs, k) = OfKind(tx.outs, k) \union OfKind(fuel, k)
      BY <1>3, <2>1 DEF OfKind
    <3> QED
      BY <1>2, <3>1
  <2>3. Alike(t, tx)
    BY <1>3, <2>1, <2>2 DEF Alike, Side
  <2>4. Good(t.outs)
    BY <1>1, <1>3, <2>1, GoodParts DEF Stands
  <2>5. Even(t) /\ Conserved(t)
    <3>1. Even(tx)
      BY <1>4 DEF Stands, Balanced
    <3>2. StakeIn(t) = StakeIn(tx)
      BY <1>3, <2>1 DEF StakeIn
    <3>3. StakeOut(t) = StakeOut(tx)
      BY <1>3, <2>1, <2>2 DEF StakeOut, Amount
    <3>4. StakeIn(tx) \in Int
      BY AmountNat DEF StakeIn, Stands, PoolSound
    <3> QED
      BY <3>1, <3>2, <3>3, <3>4 DEF Even, Conserved
  <2>6. pool_type(t)
    BY <2>3, AlikeRules DEF Stands, Rules
  <2>7. share_xudt(t) /\ treasury_lock(t) /\ pool_admin_lock(t) /\ SignedBy(t, who)
    BY <1>3, <2>1, <2>2 DEF Stands, Rules, share_xudt, treasury_lock, pool_admin_lock,
       SignedBy, share_in, share_out, Amount, treasury_present, Side
  <2>8. Runs(t) \subseteq t.deps
    <3>1. ASSUME NEW K, "plain" \notin K, Moves(t, K)
          PROVE  Moves(tx, K)
      BY <1>1, <1>3, <2>1, <3>1 DEF Moves
    <3>2. Runs(t) \subseteq Runs(tx)
      BY <1>3, <2>1, <3>1 DEF Runs, Side
    <3> QED
      BY <1>3, <2>1, <3>2 DEF Stands, Rules
  <2> QED
    BY <2>4, <2>5, <2>6, <2>7, <2>8 DEF Accepts
<1>5. CASE IsCkb(tx)
  <2>1. PICK P \in more : t = [back EXCEPT !.ins = @ \union P,
                                          !.outs = @ \union OutIf("stake", who, Total(P) - lack)]
    BY <1>5 DEF completeFeeAndChange, fuel
  <2> DEFINE n == Total(P) - lack
             over == OutIf("stake", who, n)
  <2>2. /\ t.prev = tx.prev /\ t.next = tx.next /\ t.deps = tx.deps
        /\ t.header = tx.header
        /\ t.ins = tx.ins \union P
        /\ t.outs = (tx.outs \union fuel) \union over
    <3> HIDE DEF back, lack, more, over
    <3> QED
      BY <1>3, <2>1 DEF TxFor, over
  <2>3. NoStake(tx.ins) /\ NoStake(tx.outs)
    BY <1>5 DEF Stands, Balanced, NoStake
  <2> DEFINE a == IF tx.prev = NoPool THEN 0 ELSE tx.prev.capacity
             b == IF tx.next = NoPool THEN 0 ELSE tx.next.capacity
  <2>4. a \in Int /\ b \in Int
    BY DEF PoolSound
  <2>5. lack = b - a
    <3>1. /\ Amount(tx.ins, "stake") = 0 /\ Amount(tx.ins, "treasury") = 0
          /\ Amount(tx.outs, "stake") = 0 /\ Amount(tx.outs, "treasury") = 0
      BY <2>3, AmountOfNone DEF NoStake
    <3>2. StakeIn(tx) = 0 + 0 + a /\ StakeOut(tx) = 0 + 0 + b
      BY <3>1 DEF StakeIn, StakeOut
    <3> HIDE DEF a, b
    <3> QED
      BY <2>4, <3>2 DEF Lacking
  <2>6. /\ P \subseteq CellsOf(cells, "stake", who)
        /\ lack > 0 => Total(P) >= lack
        /\ lack > 0 \/ P = {}
    BY <2>1 DEF collectAssetCells
  <2>7. Good(P) /\ Total(P) \in Nat
    <3>1. P \subseteq cells
      BY <2>6 DEF CellsOf
    <3> QED
      BY <3>1, GoodParts, TotalNat
  <2>8. n \in Nat
    <3> HIDE DEF lack, a, b
    <3>1. lack > 0 => Total(P) >= lack
      BY <2>6
    <3>2. lack \in Int
      BY <2>4, <2>5
    <3>3. lack > 0 \/ Total(P) = 0
      BY <2>6, TotalNone
    <3> QED
      BY <2>7, <3>1, <3>2, <3>3
  <2>9. /\ Good(over) /\ Total(over) = n
        /\ \A i : OfKind(over, i) = IF i = "stake" THEN over ELSE {}
    BY <2>8, OutIfIs
  <2> HIDE DEF over, n, lack, more, back
  <2>10. \A k : k # "stake" => OfKind(P, k) = {}
    <3>1. \A c \in P : c.kind = "stake"
      BY <2>6 DEF CellsOf
    <3> QED
      BY <3>1, Kinds
  <2>11. /\ \A k : k \notin {"stake"} => OfKind(t.ins, k) = OfKind(tx.ins, k)
         /\ \A k : k \notin {"stake", "plain"} => OfKind(t.outs, k) = OfKind(tx.outs, k)
    <3>1. \A k : OfKind(t.ins, k) = OfKind(tx.ins, k) \union OfKind(P, k)
      BY <2>2 DEF OfKind
    <3>2. \A k : OfKind(t.outs, k) =
                   (OfKind(tx.outs, k) \union OfKind(fuel, k)) \union OfKind(over, k)
      BY <2>2 DEF OfKind
    <3>3. \A k : k # "stake" => OfKind(over, k) = {}
      BY <2>9
    <3> QED
      BY <1>2, <2>10, <3>1, <3>2, <3>3
  <2>12. Alike(t, tx)
    BY <2>2, <2>11 DEF Alike, Side
  <2>13. Good(t.outs)
    <3>1. Good(tx.outs)
      BY DEF Stands
    <3>2. Good(tx.outs \union fuel)
      BY <1>1, <3>1, GoodParts
    <3>3. Good((tx.outs \union fuel) \union over)
      BY <2>9, <3>2, GoodParts
    <3> QED
      BY <2>2, <3>3
  <2>14. Even(t) /\ Conserved(t)
    <3>1. Amount(t.ins, "stake") = Total(P)
      <4>1. OfKind(tx.ins, "stake") = {} /\ OfKind(P, "stake") = P
        BY <2>3, <2>6, Kinds DEF NoStake, CellsOf
      <4>2. OfKind(t.ins, "stake") = OfKind(tx.ins, "stake") \union OfKind(P, "stake")
        BY <2>2 DEF OfKind
      <4>3. OfKind(t.ins, "stake") = P
        BY <4>1, <4>2
      <4> QED
        BY <4>3 DEF Amount
    <3>2. Amount(t.outs, "stake") = n
      <4>1. OfKind(tx.outs, "stake") = {}
        BY <2>3, Kinds DEF NoStake
      <4>2. OfKind(t.outs, "stake") =
              (OfKind(tx.outs, "stake") \union OfKind(fuel, "stake")) \union OfKind(over, "stake")
        BY <2>2 DEF OfKind
      <4>3. OfKind(fuel, "stake") = {} /\ OfKind(over, "stake") = over
        BY <1>2, <2>9
      <4>4. OfKind(t.outs, "stake") = over
        BY <4>1, <4>2, <4>3
      <4> QED
        BY <2>9, <4>4 DEF Amount
    <3>3. Amount(t.ins, "treasury") = 0 /\ Amount(t.outs, "treasury") = 0
      <4>1. OfKind(tx.ins, "treasury") = {} /\ OfKind(tx.outs, "treasury") = {}
        BY <2>3, Kinds DEF NoStake
      <4> QED
        BY <2>11, <4>1, TotalNone DEF Amount
    <3>4. StakeIn(t) = Total(P) + 0 + a /\ StakeOut(t) = n + 0 + b
      BY <2>2, <3>1, <3>2, <3>3 DEF StakeIn, StakeOut
    <3>5. n = Total(P) - (b - a)
      BY <2>5 DEF n
    <3> DEFINE m == Total(P)
    <3> HIDE DEF a, b, m
    <3>6. m \in Nat /\ n = m - (b - a) /\ StakeIn(t) = m + 0 + a
      BY <2>7, <3>4, <3>5 DEF m
    <3> QED
      BY <2>4, <2>8, <3>4, <3>6 DEF Even, Conserved
  <2>15. pool_type(t)
    BY <2>12, AlikeRules DEF Stands, Rules
  <2>16. share_xudt(t) /\ treasury_lock(t) /\ pool_admin_lock(t) /\ SignedBy(t, who)
    <3>1. \A s \in Side : share_in(t, s) = share_in(tx, s) /\ share_out(t, s) = share_out(tx, s)
      BY <2>12 DEF Alike, share_in, share_out, Amount
    <3>2. treasury_present(t.ins) = treasury_present(tx.ins)
      BY <2>12 DEF Alike, treasury_present
    <3>3. \A c \in P : c.owner = who
      BY <2>6 DEF CellsOf
    <3> QED
      BY <2>2, <3>1, <3>2, <3>3 DEF Stands, Rules, share_xudt, treasury_lock,
         pool_admin_lock, SignedBy
  <2>17. Runs(t) \subseteq t.deps
    <3>1. Moves(t, Side) => Moves(tx, Side)
      <4>1. \A c \in P \union over \union fuel : c.kind \notin Side
        <5>1. \A c \in P : c.kind = "stake"
          BY <2>6 DEF CellsOf
        <5>2. \A c \in over : c.kind = "stake"
          BY DEF over, OutIf, Out
        <5> QED
          BY <1>1, <5>1, <5>2 DEF Side
      <4> QED
        BY <2>2, <4>1 DEF Moves
    <3>2. \A p \in {tx.prev, tx.next} \ {NoPool} : p.variant # "XUDT"
      BY <1>5 DEF IsCkb, TxFor
    <3>3. treasury_present(t.ins) = treasury_present(tx.ins)
      BY <2>12 DEF Alike, treasury_present
    <3>4. Runs(t) \subseteq Runs(tx)
      BY <2>2, <3>1, <3>2, <3>3 DEF Runs
    <3> QED
      BY <2>2, <3>4 DEF Stands, Rules
  <2> QED
    BY <2>13, <2>14, <2>15, <2>16, <2>17 DEF Accepts
<1> QED
  BY <1>4, <1>5

(***************************************************************************)
(* A pool continued: everything but the totals and the capacity stays.     *)
(***************************************************************************)
LEMMA ContinueFields ==
  ASSUME NEW p, PoolSound(p), NEW delta, NEW capacity
  PROVE  LET q == Continue(p, delta, capacity)
         IN  /\ DOMAIN q = DOMAIN p
             /\ \A f \in DOMAIN p \ {"total", "capacity"} : q[f] = p[f]
             /\ q.total = [s \in Side |-> p.total[s] + delta[s]]
             /\ q.capacity = capacity
BY DEF PoolSound, IsPool, Continue

LEMMA ContinueSound ==
  ASSUME NEW p, PoolSound(p), NEW delta, NEW capacity \in Int,
         \A s \in Side : p.total[s] + delta[s] \in Nat,
         p.variant = "XUDT" => capacity = 0,
         p.status \in {"OPEN", "VOID"} \/ \A s \in Side : delta[s] = 0
  PROVE  LET q == Continue(p, delta, capacity)
         IN  /\ PoolSound(q)
             /\ q.status = p.status /\ q.winner = p.winner /\ q.variant = p.variant
             /\ \A f \in {"variant", "rake_bps", "start_time", "close_time"} : q[f] = p[f]
             /\ q.capacity = capacity
             /\ q.total \in [Side -> Nat]
             /\ \A s \in Side : q.total[s] = p.total[s] + delta[s]
<1> DEFINE q == Continue(p, delta, capacity)
<1>1. /\ DOMAIN q = DOMAIN p
      /\ \A f \in DOMAIN p \ {"total", "capacity"} : q[f] = p[f]
      /\ q.total = [s \in Side |-> p.total[s] + delta[s]]
      /\ q.capacity = capacity
  BY ContinueFields
<1> HIDE DEF q
<1>2. /\ q.status = p.status /\ q.winner = p.winner /\ q.variant = p.variant
      /\ \A f \in {"variant", "rake_bps", "start_time", "close_time"} : q[f] = p[f]
  BY <1>1 DEF PoolSound, IsPool
<1>3. /\ q.total \in [Side -> Nat]
      /\ \A s \in Side : q.total[s] = p.total[s] + delta[s]
  BY <1>1
<1>4. IsPool(q)
  BY <1>1, <1>2 DEF PoolSound, IsPool
<1>5. p.status \in {"LOCKED", "SETTLED", "FINALIZED"} => q.total = p.total
  <2>1. ASSUME p.status \in {"LOCKED", "SETTLED", "FINALIZED"}
        PROVE  \A s \in Side : q.total[s] = p.total[s]
    BY <1>3, <2>1 DEF PoolSound
  <2> QED
    BY <1>3, <2>1 DEF PoolSound
<1>6. PoolSound(q)
  BY <1>1, <1>2, <1>3, <1>4, <1>5 DEF PoolSound, OneSided
<1> QED
  BY <1>1, <1>2, <1>3, <1>6 DEF q

\* The fields of a draft.
LEMMA TxFields ==
  ASSUME NEW prev, NEW next, NEW ins, NEW outs, NEW deps
  PROVE  LET t == attachCodeDep(Tx(prev, next, ins, outs), deps)
         IN  /\ t.prev = prev /\ t.next = next /\ t.ins = ins /\ t.outs = outs
             /\ t.deps = deps /\ t.header = FALSE
BY DEF attachCodeDep, Tx

\* What every builder that continues a pool need not think of.
LEMMA ContinueRules ==
  ASSUME NEW who, NEW p, NEW q, NEW ins, NEW outs, PoolSound(p), PoolSound(q),
         q.variant = p.variant,
         \A c \in ins : c.kind = "treasury" \/ c.owner = who,
         p.variant = "CKB" => OfKind(ins, "treasury") = {},
         LET t == attachCodeDep(Tx(p, q, ins, outs), PoolDeps(p) \union {"share_xudt"})
         IN  validate_transition(t)
  PROVE  Rules(attachCodeDep(Tx(p, q, ins, outs), PoolDeps(p) \union {"share_xudt"}), who)
<1> DEFINE t == attachCodeDep(Tx(p, q, ins, outs), PoolDeps(p) \union {"share_xudt"})
<1>1. /\ t.prev = p /\ t.next = q /\ t.ins = ins /\ t.outs = outs
      /\ t.deps = PoolDeps(p) \union {"share_xudt"}
  BY DEF attachCodeDep, Tx
<1>2. validate_transition(t)
  OBVIOUS
<1> HIDE DEF t
<1>3. p # NoPool /\ q # NoPool
  BY PoolIsSome DEF PoolSound
<1>4. p.variant = "CKB" \/ p.variant = "XUDT"
  BY DEF PoolSound
<1>5. Runs(t) \subseteq t.deps
  <2>1. CASE p.variant = "XUDT"
    BY <1>1, <2>1 DEF Runs, PoolDeps, resolveAssetDep
  <2>2. CASE p.variant = "CKB"
    BY <1>1, <2>2 DEF Runs, PoolDeps, resolveAssetDep, treasury_present
  <2> QED
    BY <1>4, <2>1, <2>2
<1>6. pool_type(t)
  BY <1>1, <1>2, <1>3 DEF pool_type
<1> QED
  BY <1>1, <1>3, <1>5, <1>6 DEF Rules, share_xudt, treasury_lock, pool_admin_lock,
     SignedBy, t

\* What the builder encodes is in range.
LEMMA EncodedIs ==
  ASSUME NEW guard, NEW t, NEW tx \in Draft(guard, t)
  PROVE  /\ guard /\ tx = t
         /\ \A out \in tx.outs : out.amount \in Nat
BY WidthAssumption DEF Draft, Encodes, encodeAmount

\* All that a set of outputs holds, kind by kind.
LEMMA OutsOf ==
  ASSUME NEW who, NEW f \in [Side -> Nat], NEW n \in Nat, NEW held \in Nat
  PROVE  LET outs == (Minted(who, f) \union OutIf("stake", who, n))
                       \union {Out("treasury", "pool", held)}
         IN  /\ Good(outs)
             /\ \A s \in Side : Amount(outs, s) = f[s]
             /\ Amount(outs, "stake") = n
             /\ treasury_balance_is(outs, held)
<1> DEFINE M == Minted(who, f)
           K == OutIf("stake", who, n)
           T == {Out("treasury", "pool", held)}
           outs == (M \union K) \union T
<1>1. /\ Good(M) /\ \A s \in Side : Amount(M, s) = f[s]
      /\ \A k : k \notin Side => OfKind(M, k) = {}
  BY MintedIs
<1>2. /\ Good(K) /\ Total(K) = n
      /\ \A k : OfKind(K, k) = IF k = "stake" THEN K ELSE {}
  BY OutIfIs
<1>3. /\ Good(T) /\ Total(T) = held /\ Cardinality(T) = 1
      /\ \A k : OfKind(T, k) = IF k = "treasury" THEN T ELSE {}
  BY OutIs DEF Side
<1> HIDE DEF M, K, T
<1>4. Good(outs)
  <2>1. Good(M \union K)
    BY <1>1, <1>2, GoodParts
  <2> QED
    BY <1>3, <2>1, GoodParts
<1>5. \A k : OfKind(outs, k) = (OfKind(M, k) \union OfKind(K, k)) \union OfKind(T, k)
  BY DEF OfKind
<1> HIDE DEF outs
<1>6. \A s \in Side : OfKind(outs, s) = OfKind(M, s)
  BY <1>2, <1>3, <1>5 DEF Side
<1>7. OfKind(outs, "stake") = K
  BY <1>1, <1>2, <1>3, <1>5 DEF Side
<1>8. OfKind(outs, "treasury") = T
  BY <1>1, <1>2, <1>3, <1>5 DEF Side
<1> QED
  BY <1>1, <1>2, <1>3, <1>4, <1>6, <1>7, <1>8 DEF Amount, treasury_balance_is, outs, M, K, T

(***************************************************************************)
(* The builders, one by one: what they draft from what was read is what    *)
(* the contract asks.  Of a deposit and a withdrawal this is only so when  *)
(* the treasury cell that was read held what the pool of the reading says. *)
(***************************************************************************)
KindsOf(op) ==
  CASE op = "deposit" -> {"treasury", "stake"}
    [] op \in {"withdraw", "redeem"} -> Side \union {"treasury"}
    [] op = "burn" -> Side
    [] op = "close" -> {"treasury", "plain"}
    [] op = "create" -> {"plain"}

Gathered(who, op, S) ==
  /\ Good(S)
  /\ \A c \in S : c.kind \in KindsOf(op) /\ (c.kind = "treasury" \/ c.owner = who)

Sides(p) == p = NoPool \/ PoolSound(p)

\* What is unconditional of a draft.
Sound(tx) == Good(tx.outs) /\ Sides(tx.next)

LEMMA StakedMoves ==
  ASSUME NEW p, NEW q, NEW d \in [Side -> Int], p.total \in [Side -> Nat],
         \A s \in Side : q.total[s] = p.total[s] + d[s]
  PROVE  /\ Staked(p) \in Nat
         /\ Staked(q) = Staked(p) + (d["UP"] + d["DOWN"])
<1>1. /\ p.total["UP"] \in Nat /\ p.total["DOWN"] \in Nat
      /\ d["UP"] \in Int /\ d["DOWN"] \in Int
      /\ q.total["UP"] = p.total["UP"] + d["UP"]
      /\ q.total["DOWN"] = p.total["DOWN"] + d["DOWN"]
  BY DEF Side
<1> QED
  BY <1>1 DEF Staked

\* A step that moves the stakes of an open pool.
LEMMA OpenMoves ==
  ASSUME NEW tx, NEW d \in [Side -> Int],
         PoolSound(tx.prev), PoolSound(tx.next),
         tx.prev.status = "OPEN", tx.next.status = "OPEN",
         tx.next.winner = tx.prev.winner,
         \A f \in {"variant", "rake_bps", "start_time", "close_time"} : tx.next[f] = tx.prev[f],
         \A s \in Side : /\ tx.next.total[s] = tx.prev.total[s] + d[s]
                         /\ share_in(tx, s) \in Int
                         /\ share_out(tx, s) = share_in(tx, s) + d[s],
         IF tx.prev.variant = "XUDT"
         THEN /\ treasury_balance_is(tx.outs, Staked(tx.prev) + (d["UP"] + d["DOWN"]))
              /\ tx.next.capacity = tx.prev.capacity
         ELSE tx.next.capacity = tx.prev.capacity + (d["UP"] + d["DOWN"])
  PROVE  validate_transition(tx)
<1>1. tx.prev.total \in [Side -> Nat] /\ tx.prev.capacity \in Int
  BY DEF PoolSound
<1>2. /\ Staked(tx.prev) \in Nat
      /\ Staked(tx.next) = Staked(tx.prev) + (d["UP"] + d["DOWN"])
  BY <1>1, StakedMoves
<1>3. \A s \in Side : share_out(tx, s) + tx.prev.total[s] = share_in(tx, s) + tx.next.total[s]
  <2> TAKE s \in Side
  <2> DEFINE a == share_in(tx, s)
             t == tx.prev.total[s]
             x == d[s]
  <2>1. /\ a \in Int /\ t \in Nat /\ x \in Int
        /\ share_out(tx, s) = a + x /\ tx.next.total[s] = t + x
    BY <1>1
  <2> HIDE DEF a, t, x
  <2>2. (a + x) + t = a + (t + x)
    BY <2>1
  <2> QED
    BY <2>1, <2>2 DEF a, t
<1>4. tx.prev.variant # "XUDT" =>
        tx.next.capacity + Staked(tx.prev) = tx.prev.capacity + Staked(tx.next)
  <2> DEFINE a == tx.prev.capacity
             b == Staked(tx.prev)
             x == d["UP"] + d["DOWN"]
  <2>1. a \in Int /\ b \in Nat /\ x \in Int
    BY <1>1, <1>2 DEF Side
  <2>2. tx.prev.variant # "XUDT" => tx.next.capacity = a + x
    OBVIOUS
  <2>3. Staked(tx.next) = b + x
    BY <1>2
  <2> HIDE DEF a, b, x
  <2>4. (a + x) + b = a + (b + x)
    BY <2>1
  <2> QED
    BY <2>2, <2>3, <2>4 DEF a, b
<1>5. validate_deposit(tx)
  BY <1>2, <1>3, <1>4 DEF validate_deposit, pool_capacity_unchanged
<1> QED
  BY <1>5 DEF validate_transition

LEMMA DepositStands ==
  ASSUME NEW who, NEW j, PoolSound(j.pool), Gathered(who, "deposit", j.got),
         j.order.want \in [Side -> Nat],
         NEW tx \in buildDepositTx(who, j)
  PROVE  /\ Sound(tx)
         /\ tx.prev = j.pool /\ j.pool.status = "OPEN"
         /\ Owned(tx, who) /\ Trades(tx, j.order.want)
         /\ j.pool.variant = "CKB" \/ Amount(j.got, "treasury") = Staked(j.pool)
            => Stands(tx, who)
<1> DEFINE p == j.pool
           want == j.order.want
           all == want["UP"] + want["DOWN"]
           held == Amount(j.got, "treasury")
           paid == Amount(j.got, "stake")
           over == paid - all
           outs == Minted(who, want) \union Change("stake", who, over)
                     \union {Out("treasury", "pool", held + all)}
           xnext == Continue(p, want, p.capacity)
           cnext == Continue(p, want, p.capacity + all)
           deps == PoolDeps(p) \union {"share_xudt"}
           xudt == Tx(p, xnext, j.got, outs)
           ckb == Tx(p, cnext, {}, Minted(who, want))
<1>1. /\ tx = attachCodeDep(IF p.variant = "XUDT" THEN xudt ELSE ckb, deps)
      /\ p.status = "OPEN" /\ all > 0
      /\ p.variant = "XUDT" => paid >= all
  BY EncodedIs DEF buildDepositTx
<1>2. /\ want \in [Side -> Int] /\ all \in Nat
      /\ Good(j.got) /\ held \in Nat /\ paid \in Nat
  BY AmountNat DEF Side, Gathered
<1>3. /\ p.total \in [Side -> Nat] /\ p.capacity \in Int /\ p.variant \in {"CKB", "XUDT"}
      /\ p.variant = "XUDT" => p.capacity = 0
  BY DEF PoolSound
<1>4. \A s \in Side : p.total[s] + want[s] \in Nat
  BY <1>3
<1>5. \A s \in Side : Amount(j.got, s) = 0
  BY AmountOfNone DEF Gathered, KindsOf, Side
<1>6. p # NoPool
  BY PoolIsSome DEF PoolSound
<1>7. CASE p.variant = "XUDT"
  <2>1. /\ PoolSound(xnext)
        /\ xnext.status = p.status /\ xnext.winner = p.winner /\ xnext.variant = p.variant
        /\ \A f \in {"variant", "rake_bps", "start_time", "close_time"} : xnext[f] = p[f]
        /\ xnext.capacity = p.capacity
        /\ \A s \in Side : xnext.total[s] = p.total[s] + want[s]
    BY <1>1, <1>3, <1>4, <1>7, ContinueSound
  <2>2. over \in Nat /\ held + all \in Nat
    <3> HIDE DEF all, held, paid
    <3> QED
      BY <1>1, <1>2, <1>7
  <2> DEFINE n == held + all
  <2>3. /\ Good(outs)
        /\ \A s \in Side : Amount(outs, s) = want[s]
        /\ Amount(outs, "stake") = over
        /\ treasury_balance_is(outs, n)
    <3>1. outs = (Minted(who, want) \union OutIf("stake", who, over))
                   \union {Out("treasury", "pool", n)}
      BY DEF Change
    <3>2. want \in [Side -> Nat] /\ over \in Nat /\ n \in Nat
      BY <2>2
    <3> HIDE DEF outs, over, n, want
    <3> QED
      BY <3>1, <3>2, OutsOf, SMTT(30)
  <2> HIDE DEF xnext, outs, deps
  <2>4. tx = attachCodeDep(Tx(p, xnext, j.got, outs), deps)
    BY <1>1, <1>7
  <2>5. tx.prev = p /\ tx.next = xnext /\ tx.ins = j.got /\ tx.outs = outs
    BY <2>4 DEF attachCodeDep, Tx
  <2>6. Sound(tx)
    BY <2>1, <2>3, <2>5 DEF Sound, Sides
  <2>7. ASSUME held = Staked(p)
        PROVE  Stands(tx, who)
    <3>1. \A s \in Side : /\ share_in(tx, s) = 0
                          /\ share_out(tx, s) = share_in(tx, s) + want[s]
      BY <1>2, <1>5, <2>3, <2>5 DEF share_in, share_out
    <3>2. validate_transition(tx)
      BY <1>1, <1>2, <1>7, <2>1, <2>3, <2>5, <2>7, <3>1, OpenMoves
    <3>3. Rules(tx, who)
      BY <1>7, <2>1, <2>4, <3>2, ContinueRules DEF Gathered, deps
    <3>4. Even(tx)
      <4>1. Amount(outs, "treasury") = n /\ p.capacity = 0 /\ xnext.capacity = 0
        BY <1>3, <1>7, <2>1, <2>3 DEF treasury_balance_is
      <4>2. xnext # NoPool
        BY <2>1, PoolIsSome DEF PoolSound
      <4>3. StakeIn(tx) = paid + held + 0 /\ StakeOut(tx) = over + n + 0
        BY <1>6, <2>3, <2>5, <4>1, <4>2 DEF StakeIn, StakeOut
      <4> HIDE DEF paid, held, all
      <4> QED
        BY <1>2, <4>3 DEF Even
    <3>5. Balanced(tx)
      BY <1>7, <2>1, <2>5, <3>4 DEF Balanced, IsCkb
    <3> QED
      BY <1>2, <2>3, <2>5, <3>3, <3>5 DEF Stands
  <2>8. Owned(tx, who)
    <3>1. \A c \in outs : Shaped(c) /\ (c.kind = "treasury" \/ c.owner = who)
      BY ShapedOuts DEF outs, Change
    <3> QED
      BY <1>2, <2>3, <2>5, <3>1 DEF Owned, Gathered
  <2>9. Trades(tx, want)
    <3>1. Amount(outs, "treasury") = n /\ p.capacity = 0 /\ xnext.capacity = 0
      BY <1>3, <1>7, <2>1, <2>3 DEF treasury_balance_is
    <3>2. PotIn(tx) = held + 0 /\ PotOut(tx) = n + 0
      BY <2>5, <3>1 DEF PotIn, PotOut, Cap
    <3>3. PotOut(tx) = PotIn(tx) + all
      <4> HIDE DEF held, all
      <4> QED
        BY <1>2, <3>2
    <3>4. xnext # NoPool
      BY <2>1, PoolIsSome DEF PoolSound
    <3> QED
      BY <1>1, <1>6, <2>1, <2>5, <3>3, <3>4 DEF Trades
  <2> QED
    BY <1>1, <1>7, <2>5, <2>6, <2>7, <2>8, <2>9
<1>8. CASE p.variant = "CKB"
  <2>0. p.capacity + all \in Int
    <3> HIDE DEF all
    <3> QED
      BY <1>2, <1>3
  <2>1. /\ PoolSound(cnext)
        /\ cnext.status = p.status /\ cnext.winner = p.winner /\ cnext.variant = p.variant
        /\ \A f \in {"variant", "rake_bps", "start_time", "close_time"} : cnext[f] = p[f]
        /\ cnext.capacity = p.capacity + all
        /\ \A s \in Side : cnext.total[s] = p.total[s] + want[s]
    <3> HIDE DEF all
    <3> QED
      BY <1>1, <1>3, <1>4, <1>8, <2>0, ContinueSound
  <2> DEFINE made == Minted(who, want)
  <2>2. Good(made) /\ \A s \in Side : Amount(made, s) = want[s]
    BY MintedIs
  <2>3. \A c \in made : c.kind \in Side
    BY DEF Minted, OutIf, Out
  <2> HIDE DEF cnext, made, deps
  <2>4. tx = attachCodeDep(Tx(p, cnext, {}, made), deps)
    BY <1>1, <1>8 DEF made
  <2>5. tx.prev = p /\ tx.next = cnext /\ tx.ins = {} /\ tx.outs = made
    BY <2>4 DEF attachCodeDep, Tx
  <2>6. Sound(tx)
    BY <2>1, <2>2, <2>5 DEF Sound, Sides
  <2>7. \A s \in Side : /\ share_in(tx, s) = 0
                        /\ share_out(tx, s) = share_in(tx, s) + want[s]
    BY <1>2, <2>2, <2>5, TotalNone, Kinds DEF share_in, share_out, Amount
  <2>8. validate_transition(tx)
    BY <1>1, <1>2, <1>8, <2>1, <2>5, <2>7, OpenMoves
  <2>9. Rules(tx, who)
    BY <1>8, <2>1, <2>4, <2>8, ContinueRules, Kinds DEF deps
  <2>10. Balanced(tx)
    BY <1>6, <1>8, <2>3, <2>5 DEF Balanced, IsCkb, NoStake, Side
  <2>11. Owned(tx, who)
    <3>1. \A c \in made : Shaped(c) /\ c.owner = who
      BY ShapedOuts DEF made
    <3> QED
      BY <2>2, <2>5, <3>1, TotalNone DEF Owned
  <2>12. Trades(tx, want)
    <3>1. Amount(tx.ins, "treasury") = 0 /\ Amount(tx.outs, "treasury") = 0
      BY <2>3, <2>5, AmountOfNone DEF Side
    <3>2. cnext # NoPool
      BY <2>1, PoolIsSome DEF PoolSound
    <3>3. PotIn(tx) = 0 + p.capacity /\ PotOut(tx) = 0 + (p.capacity + all)
      BY <1>6, <2>1, <2>5, <3>1, <3>2 DEF PotIn, PotOut, Cap
    <3>4. PotOut(tx) = PotIn(tx) + all
      <4> HIDE DEF all
      <4> QED
        BY <1>2, <1>3, <3>3
    <3> QED
      BY <1>1, <1>6, <2>1, <2>5, <3>2, <3>4 DEF Trades
  <2> QED
    BY <1>1, <2>2, <2>5, <2>6, <2>9, <2>10, <2>11, <2>12, TotalNone DEF Stands
<1> QED
  BY <1>3, <1>7, <1>8

LEMMA WithdrawStands ==
  ASSUME NEW who, NEW j, PoolSound(j.pool), Gathered(who, "withdraw", j.got),
         j.order.want \in [Side -> Nat],
         j.pool.variant = "CKB" => NoTreasury(j.got),
         NEW tx \in buildWithdrawTx(who, j)
  PROVE  /\ Sound(tx)
         /\ tx.prev = j.pool /\ j.pool.status = "OPEN"
         /\ Owned(tx, who) /\ Trades(tx, [s \in Side |-> 0 - j.order.want[s]])
         /\ j.pool.variant = "CKB" \/ Amount(j.got, "treasury") = Staked(j.pool)
            => Stands(tx, who)
<1> DEFINE p == j.pool
           want == j.order.want
           all == want["UP"] + want["DOWN"]
           less == [s \in Side |-> 0 - want[s]]
           change == UNION {Change(s, who, Amount(j.got, s) - want[s]) : s \in Side}
           held == Amount(j.got, "treasury")
           left == [s \in Side |-> Amount(j.got, s) - want[s]]
           outs == change \union {Out("treasury", "pool", held - all), Out("stake", who, all)}
           xnext == Continue(p, less, p.capacity)
           cnext == Continue(p, less, p.capacity - all)
           deps == PoolDeps(p) \union {"share_xudt"}
           xudt == Tx(p, xnext, j.got, outs)
           ckb == Tx(p, cnext, j.got, change)
<1>1. /\ tx = attachCodeDep(IF p.variant = "XUDT" THEN xudt ELSE ckb, deps)
      /\ p.status = "OPEN" /\ all > 0
      /\ \A s \in Side : want[s] <= p.total[s] /\ want[s] <= Amount(j.got, s)
      /\ p.variant = "XUDT" => held >= all
  BY EncodedIs DEF buildWithdrawTx
<1>2. /\ want \in [Side -> Nat] /\ less \in [Side -> Int] /\ all \in Nat
      /\ less["UP"] + less["DOWN"] = 0 - all
      /\ Good(j.got) /\ held \in Nat /\ \A s \in Side : Amount(j.got, s) \in Nat
  BY AmountNat DEF Side, Gathered
<1>3. /\ p.total \in [Side -> Nat] /\ p.capacity \in Int /\ p.variant \in {"CKB", "XUDT"}
      /\ p.variant = "XUDT" => p.capacity = 0
  BY DEF PoolSound
<1>4. \A s \in Side : p.total[s] + less[s] \in Nat
  BY <1>1, <1>2, <1>3
<1>5. left \in [Side -> Nat] /\ \A s \in Side : left[s] = Amount(j.got, s) + less[s]
  BY <1>1, <1>2
<1>6. p # NoPool
  BY PoolIsSome DEF PoolSound
<1>7. change = Minted(who, left)
  BY DEF Change, Minted
<1>8. Amount(j.got, "stake") = 0
  BY AmountOfNone DEF Gathered, KindsOf, Side
<1>9. CASE p.variant = "XUDT"
  <2>1. /\ PoolSound(xnext)
        /\ xnext.status = p.status /\ xnext.winner = p.winner /\ xnext.variant = p.variant
        /\ \A f \in {"variant", "rake_bps", "start_time", "close_time"} : xnext[f] = p[f]
        /\ xnext.capacity = p.capacity
        /\ \A s \in Side : xnext.total[s] = p.total[s] + less[s]
    BY <1>1, <1>3, <1>4, <1>9, ContinueSound
  <2> DEFINE n == held - all
  <2>2. n \in Nat
    <3> HIDE DEF all, held
    <3> QED
      BY <1>1, <1>2, <1>9
  <2>3. /\ Good(outs)
        /\ \A s \in Side : Amount(outs, s) = left[s]
        /\ Amount(outs, "stake") = all
        /\ treasury_balance_is(outs, n)
    <3>1. OutIf("stake", who, all) = {Out("stake", who, all)}
      BY <1>1 DEF OutIf
    <3>2. outs = (Minted(who, left) \union OutIf("stake", who, all))
                   \union {Out("treasury", "pool", n)}
      BY <1>7, <3>1
    <3>3. left \in [Side -> Nat] /\ all \in Nat /\ n \in Nat
      BY <1>2, <1>5, <2>2
    <3> DEFINE made == (Minted(who, left) \union OutIf("stake", who, all))
                          \union {Out("treasury", "pool", n)}
    <3> HIDE DEF outs, all, n, left
    <3>4. /\ Good(made)
          /\ \A s \in Side : Amount(made, s) = left[s]
          /\ Amount(made, "stake") = all
          /\ treasury_balance_is(made, n)
      BY <3>3, OutsOf
    <3> QED
      BY <3>2, <3>4
  <2> HIDE DEF xnext, outs, deps
  <2>4. tx = attachCodeDep(Tx(p, xnext, j.got, outs), deps)
    BY <1>1, <1>9
  <2>5. tx.prev = p /\ tx.next = xnext /\ tx.ins = j.got /\ tx.outs = outs
    BY <2>4 DEF attachCodeDep, Tx
  <2>6. Sound(tx)
    BY <2>1, <2>3, <2>5 DEF Sound, Sides
  <2>7. ASSUME held = Staked(p)
        PROVE  Stands(tx, who)
    <3>1. \A s \in Side : /\ share_in(tx, s) \in Int
                          /\ share_out(tx, s) = share_in(tx, s) + less[s]
      BY <1>2, <1>5, <2>3, <2>5 DEF share_in, share_out
    <3>2. n = Staked(p) + (less["UP"] + less["DOWN"])
      <4> HIDE DEF held, all, less
      <4> QED
        BY <1>2, <2>7
    <3>3. treasury_balance_is(tx.outs, Staked(p) + (less["UP"] + less["DOWN"]))
      BY <2>3, <2>5, <3>2
    <3>4. validate_transition(tx)
      <4> HIDE DEF less
      <4> QED
        BY <1>1, <1>2, <1>9, <2>1, <2>5, <3>1, <3>3, OpenMoves
    <3>5. Rules(tx, who)
      BY <1>9, <2>1, <2>4, <3>4, ContinueRules DEF Gathered, deps
    <3>6. Even(tx)
      <4>1. Amount(outs, "treasury") = n /\ p.capacity = 0 /\ xnext.capacity = 0
        BY <1>3, <1>9, <2>1, <2>3 DEF treasury_balance_is
      <4>2. xnext # NoPool
        BY <2>1, PoolIsSome DEF PoolSound
      <4>3. StakeIn(tx) = 0 + held + 0 /\ StakeOut(tx) = all + n + 0
        BY <1>6, <1>8, <2>3, <2>5, <4>1, <4>2 DEF StakeIn, StakeOut
      <4> HIDE DEF held, all
      <4> QED
        BY <1>2, <4>3 DEF Even
    <3>7. Balanced(tx)
      BY <1>9, <2>1, <2>5, <3>6 DEF Balanced, IsCkb
    <3> QED
      BY <1>2, <2>3, <2>5, <3>5, <3>7 DEF Stands
  <2>8. Owned(tx, who)
    <3>1. \A c \in outs : Shaped(c) /\ (c.kind = "treasury" \/ c.owner = who)
      BY ShapedOuts DEF outs, Change
    <3> QED
      BY <1>2, <2>3, <2>5, <3>1 DEF Owned, Gathered
  <2>9. Trades(tx, less)
    <3>1. Amount(outs, "treasury") = n /\ p.capacity = 0 /\ xnext.capacity = 0
      BY <1>3, <1>9, <2>1, <2>3 DEF treasury_balance_is
    <3>2. PotIn(tx) = held + 0 /\ PotOut(tx) = n + 0
      BY <2>5, <3>1 DEF PotIn, PotOut, Cap
    <3>3. PotOut(tx) = PotIn(tx) + (less["UP"] + less["DOWN"])
      <4> HIDE DEF held, all, less
      <4> QED
        BY <1>2, <3>2
    <3>4. xnext # NoPool
      BY <2>1, PoolIsSome DEF PoolSound
    <3> HIDE DEF less
    <3> QED
      BY <1>1, <1>6, <2>1, <2>5, <3>3, <3>4 DEF Trades
  <2> QED
    BY <1>1, <1>9, <2>5, <2>6, <2>7, <2>8, <2>9
<1>10. CASE p.variant = "CKB"
  <2>0. p.capacity - all \in Int
    <3> HIDE DEF all
    <3> QED
      BY <1>2, <1>3
  <2>1. /\ PoolSound(cnext)
        /\ cnext.status = p.status /\ cnext.winner = p.winner /\ cnext.variant = p.variant
        /\ \A f \in {"variant", "rake_bps", "start_time", "close_time"} : cnext[f] = p[f]
        /\ cnext.capacity = p.capacity - all
        /\ \A s \in Side : cnext.total[s] = p.total[s] + less[s]
    <3> DEFINE rest == p.capacity - all
    <3>1. rest \in Int /\ p.status = "OPEN"
      BY <1>1, <2>0
    <3> HIDE DEF rest, less
    <3>2. LET q == Continue(p, less, rest)
          IN  /\ PoolSound(q)
              /\ q.status = p.status /\ q.winner = p.winner /\ q.variant = p.variant
              /\ \A f \in {"variant", "rake_bps", "start_time", "close_time"} : q[f] = p[f]
              /\ q.capacity = rest
              /\ \A s \in Side : q.total[s] = p.total[s] + less[s]
      BY <1>4, <1>10, <3>1, ContinueSound
    <3> QED
      BY <3>2 DEF rest
  <2>2. Good(change) /\ \A s \in Side : Amount(change, s) = left[s]
    <3> HIDE DEF left, change
    <3> QED
      BY <1>5, <1>7, MintedIs
  <2>3. \A c \in change : c.kind \in Side
    BY DEF Change, OutIf, Out
  <2>4. cnext.capacity = p.capacity + (less["UP"] + less["DOWN"])
    <3> HIDE DEF less, all
    <3> QED
      BY <1>2, <1>3, <2>1
  <2> HIDE DEF cnext, change, deps
  <2>5. tx = attachCodeDep(Tx(p, cnext, j.got, change), deps)
    BY <1>1, <1>10
  <2>6. tx.prev = p /\ tx.next = cnext /\ tx.ins = j.got /\ tx.outs = change
    BY <2>5 DEF attachCodeDep, Tx
  <2>7. Sound(tx)
    BY <2>1, <2>2, <2>6 DEF Sound, Sides
  <2>8. \A s \in Side : /\ share_in(tx, s) \in Int
                        /\ share_out(tx, s) = share_in(tx, s) + less[s]
    BY <1>2, <1>5, <2>2, <2>6 DEF share_in, share_out
  <2>9. validate_transition(tx)
    <3> HIDE DEF less
    <3> QED
      BY <1>1, <1>2, <1>10, <2>1, <2>4, <2>6, <2>8, OpenMoves
  <2>10. OfKind(j.got, "treasury") = {}
    BY <1>10, Kinds DEF NoTreasury
  <2>11. Rules(tx, who)
    BY <1>10, <2>1, <2>5, <2>9, <2>10, ContinueRules DEF Gathered, deps
  <2>12. NoStake(tx.ins \union tx.outs)
    BY <1>10, <2>3, <2>6 DEF NoStake, NoTreasury, Gathered, KindsOf, Side
  <2>13. Balanced(tx)
    BY <1>6, <1>10, <2>6, <2>12 DEF Balanced, IsCkb
  <2>14. Owned(tx, who)
    <3>1. \A c \in change : Shaped(c) /\ c.owner = who
      BY ShapedOuts DEF change, Change
    <3> QED
      BY <1>2, <2>2, <2>6, <3>1 DEF Owned, Gathered
  <2>15. Trades(tx, less)
    <3>1. Amount(tx.ins, "treasury") = 0 /\ Amount(tx.outs, "treasury") = 0
      BY <2>6, <2>12, AmountOfNone DEF NoStake
    <3>2. cnext # NoPool
      BY <2>1, PoolIsSome DEF PoolSound
    <3> HIDE DEF less
    <3>3. PotIn(tx) = 0 + p.capacity /\ PotOut(tx) = 0 + (p.capacity + (less["UP"] + less["DOWN"]))
      BY <1>6, <2>4, <2>6, <3>1, <3>2 DEF PotIn, PotOut, Cap
    <3>4. PotOut(tx) = PotIn(tx) + (less["UP"] + less["DOWN"])
      <4> HIDE DEF all
      <4> QED
        BY <1>2, <1>3, <3>3
    <3> QED
      BY <1>1, <1>6, <2>1, <2>6, <3>2, <3>4 DEF Trades
  <2> QED
    BY <1>1, <1>2, <2>2, <2>6, <2>7, <2>11, <2>13, <2>14, <2>15 DEF Stands
<1> QED
  BY <1>3, <1>9, <1>10

LEMMA RedeemStands ==
  ASSUME NEW who, NEW j, PoolSound(j.pool), Gathered(who, "redeem", j.got),
         IF j.pool.variant = "CKB" THEN NoTreasury(j.got)
         ELSE Cardinality(OfKind(j.got, "treasury")) = 1,
         NEW tx \in buildRedeemTx(who, j)
  PROVE  /\ Sound(tx) /\ tx.prev = j.pool /\ Stands(tx, who)
         /\ Owned(tx, who) /\ Redeems(tx) /\ tx.ins = j.got
<1> DEFINE p == j.pool
           w == p.winner
           burned == [s \in Side |-> Amount(j.got, s)]
           pays == IF refunds(p) THEN burned["UP"] + burned["DOWN"]
                   ELSE payout(burned[w], p.total[w], p.total[Other(w)], p.rake_bps)
           held == Amount(j.got, "treasury")
           outs == {Out("treasury", "pool", held - pays), Out("stake", who, pays)}
           cnext == Continue(p, Zero, p.capacity - pays)
           deps == PoolDeps(p) \union {"share_xudt"}
           xudt == Tx(p, p, j.got, outs)
           ckb == Tx(p, cnext, j.got, {})
           due == /\ \E s \in Side : OfKind(j.got, s) # {}
                  /\ refunds(p) \/ (/\ p.status = "FINALIZED" /\ w \in Side
                                    /\ burned[w] > 0 /\ burned[Other(w)] = 0)
           enough == pays <= IF p.variant = "XUDT" THEN held ELSE p.capacity
           made == attachCodeDep(IF p.variant = "XUDT" THEN xudt ELSE ckb, deps)
<1>0. tx \in Draft(due /\ enough, made)
  BY DEF buildRedeemTx
<1>1. /\ tx = attachCodeDep(IF p.variant = "XUDT" THEN xudt ELSE ckb, deps)
      /\ \E s \in Side : OfKind(j.got, s) # {}
      /\ refunds(p) \/ (/\ p.status = "FINALIZED" /\ w \in Side
                        /\ burned[w] > 0 /\ burned[Other(w)] = 0)
      /\ pays <= IF p.variant = "XUDT" THEN held ELSE p.capacity
      /\ \A out \in tx.outs : out.amount \in Nat
  <2>1. due /\ enough /\ tx = made /\ \A out \in tx.outs : out.amount \in Nat
    <3> HIDE DEF due, enough, made
    <3> QED
      BY <1>0, EncodedIs
  <2> QED
    BY <2>1
<1>2. /\ Good(j.got) /\ held \in Nat
      /\ burned \in [Side -> Nat] /\ \A s \in Side : burned[s] = Amount(j.got, s)
  BY AmountNat DEF Gathered
<1>3. /\ p.total \in [Side -> Nat] /\ p.capacity \in Int /\ p.variant \in {"CKB", "XUDT"}
      /\ p.variant = "XUDT" => p.capacity = 0
      /\ p.rake_bps \in 0 .. RAKE_BPS_MAX
  BY DEF PoolSound
<1>4. p # NoPool
  BY PoolIsSome DEF PoolSound
<1>5. Amount(j.got, "stake") = 0
  BY AmountOfNone DEF Gathered, KindsOf, Side
<1>6. burned["UP"] + burned["DOWN"] > 0
  <2>1. PICK s \in Side : OfKind(j.got, s) # {}
    BY <1>1
  <2>2. PICK c \in OfKind(j.got, s) : TRUE
    BY <2>1
  <2>3. c.amount > 0 /\ Good(OfKind(j.got, s))
    BY <1>2, Kinds, GoodParts DEF OfKind, Good
  <2>4. burned[s] > 0
    BY <1>2, <2>3, TotalPositive DEF Amount
  <2>5. burned["UP"] \in Nat /\ burned["DOWN"] \in Nat /\ s \in {"UP", "DOWN"}
    BY <1>2 DEF Side
  <2> HIDE DEF burned
  <2> QED
    BY <2>4, <2>5
<1> HIDE DEF burned
<1>7. ~refunds(p) => p.total[w] \in Nat \ {0} /\ p.total[Other(w)] \in Nat
  <2>1. ASSUME ~refunds(p)
        PROVE  p.status = "FINALIZED" /\ w \in Side
    BY <1>1, <2>1
  <2>2. ~refunds(p) => ~OneSided(p)
    BY <2>1 DEF PoolSound
  <2>3. \A s \in Side : s \in {"UP", "DOWN"} /\ Other(s) \in Side
    BY DEF Side, Other
  <2> QED
    BY <1>3, <2>1, <2>2, <2>3 DEF OneSided
<1>8. pays \in Nat
  <2>1. CASE refunds(p)
    BY <1>2, <2>1 DEF Side
  <2>2. CASE ~refunds(p)
    <3>1. burned[w] \in Nat
      BY <1>1, <1>2, <2>2
    <3>2. payout(burned[w], p.total[w], p.total[Other(w)], p.rake_bps) \in Nat
      BY <1>3, <1>7, <2>2, <3>1, PayoutBounds
    <3> QED
      BY <2>2, <3>2
  <2> QED
    BY <2>1, <2>2
<1>9. /\ p.status \in {"FINALIZED", "VOID"}
      /\ refunds(p) => pays = burned["UP"] + burned["DOWN"]
      /\ ~refunds(p) =>
           /\ w \in Side /\ burned[w] > 0 /\ burned[Other(w)] = 0 /\ p.total[w] # 0
           /\ pays = payout(burned[w], p.total[w], p.total[Other(w)], p.rake_bps)
  BY <1>1, <1>7 DEF refunds
<1> HIDE DEF pays
<1>10. ASSUME tx.prev = p, tx.ins = j.got, \A s \in Side : share_out(tx, s) = 0,
              treasury_pays(tx, pays), tx.next.total = p.total, tx.next.winner = w,
              tx.next.status = p.status,
              \A f \in {"variant", "rake_bps", "start_time", "close_time"} :
                 tx.next[f] = p[f]
       PROVE  validate_transition(tx)
  <2>1. [s \in Side |-> share_in(tx, s) - share_out(tx, s)] = burned
    <3>1. \A s \in Side : share_in(tx, s) - share_out(tx, s) = burned[s]
      BY <1>2, <1>10 DEF share_in
    <3> QED
      BY <1>2, <3>1
  <2>2. \A s \in Side : burned[s] >= 0
    BY <1>2
  <2>3. validate_redeem(tx)
    BY <1>6, <1>9, <1>10, <2>1, <2>2 DEF validate_redeem
  <2> QED
    BY <1>9, <1>10, <2>3 DEF validate_transition
<1>11. CASE p.variant = "XUDT"
  <2> DEFINE n == held - pays
  <2>1. n \in Nat
    <3> HIDE DEF held
    <3> QED
      BY <1>1, <1>2, <1>8, <1>11
  <2> DEFINE T == {Out("treasury", "pool", n)}
             K == {Out("stake", who, pays)}
  <2>2. /\ Good(T) /\ Total(T) = n /\ Cardinality(T) = 1
        /\ \A k : OfKind(T, k) = IF k = "treasury" THEN T ELSE {}
        /\ Good(K) /\ Total(K) = pays
        /\ \A k : OfKind(K, k) = IF k = "stake" THEN K ELSE {}
    <3> HIDE DEF n
    <3> QED
      BY <1>8, <2>1, OutIs DEF Side
  <2>3. outs = T \union K
    OBVIOUS
  <2> HIDE DEF T, K
  <2>4. \A k : OfKind(outs, k) = OfKind(T, k) \union OfKind(K, k)
    BY <2>3, Kinds
  <2>5. /\ Good(outs)
        /\ OfKind(outs, "treasury") = T /\ OfKind(outs, "stake") = K
        /\ \A s \in Side : OfKind(outs, s) = {}
    <3> HIDE DEF outs, n
    <3>1. Good(outs)
      BY <2>2, <2>3, GoodParts
    <3> QED
      BY <2>2, <2>4, <3>1 DEF Side
  <2>6. /\ treasury_balance_is(outs, n) /\ Amount(outs, "stake") = pays
        /\ Amount(outs, "treasury") = n /\ \A s \in Side : Amount(outs, s) = 0
    BY <2>2, <2>5, TotalNone DEF Amount, treasury_balance_is
  <2> HIDE DEF outs, deps
  <2>7. tx = attachCodeDep(Tx(p, p, j.got, outs), deps)
    BY <1>1, <1>11
  <2>8. tx.prev = p /\ tx.next = p /\ tx.ins = j.got /\ tx.outs = outs
    BY <2>7 DEF attachCodeDep, Tx
  <2>9. treasury_pays(tx, pays)
    BY <1>11, <2>6, <2>8 DEF treasury_pays, treasury_balance_is, pool_capacity_unchanged
  <2>10. validate_transition(tx)
    BY <1>10, <2>6, <2>8, <2>9 DEF share_out
  <2>11. Rules(tx, who)
    BY <1>11, <2>7, <2>10, ContinueRules DEF Gathered, deps
  <2>12. Even(tx)
    <3>1. StakeIn(tx) = 0 + held + 0 /\ StakeOut(tx) = pays + n + 0
      BY <1>3, <1>4, <1>5, <1>11, <2>6, <2>8 DEF StakeIn, StakeOut
    <3> HIDE DEF held
    <3> QED
      BY <1>2, <1>8, <3>1 DEF Even
  <2>13. Balanced(tx)
    BY <1>11, <2>8, <2>12 DEF Balanced, IsCkb
  <2>14. Owned(tx, who)
    <3>1. \A c \in outs : Shaped(c) /\ (c.kind = "treasury" \/ c.owner = who)
      BY ShapedOuts DEF outs
    <3> QED
      BY <1>2, <2>5, <2>8, <3>1 DEF Owned, Gathered
  <2>15. Redeems(tx)
    BY <1>4, <1>9, <2>5, <2>8 DEF Redeems, NoShares
  <2> QED
    BY <1>2, <2>5, <2>8, <2>11, <2>13, <2>14, <2>15 DEF Stands, Sound, Sides
<1>12. CASE p.variant = "CKB"
  <2>0. p.capacity - pays \in Int /\ \A s \in Side : Zero[s] = 0
    BY <1>3, <1>8 DEF Zero
  <2>1. /\ PoolSound(cnext)
        /\ cnext.status = p.status /\ cnext.winner = p.winner /\ cnext.variant = p.variant
        /\ \A f \in {"variant", "rake_bps", "start_time", "close_time"} : cnext[f] = p[f]
        /\ cnext.capacity = p.capacity - pays
        /\ cnext.total \in [Side -> Nat]
        /\ \A s \in Side : cnext.total[s] = p.total[s] + Zero[s]
    <3>1. \A s \in Side : p.total[s] + Zero[s] \in Nat
      BY <1>3, <2>0
    <3> HIDE DEF cnext
    <3> QED
      BY <1>12, <2>0, <3>1, ContinueSound DEF cnext
  <2>2. cnext.total = p.total
    <3>1. \A s \in Side : cnext.total[s] = p.total[s]
      BY <1>3, <2>0, <2>1
    <3> QED
      BY <1>3, <2>1, <3>1
  <2> HIDE DEF cnext, deps
  <2>3. tx = attachCodeDep(Tx(p, cnext, j.got, {}), deps)
    BY <1>1, <1>12
  <2>4. tx.prev = p /\ tx.next = cnext /\ tx.ins = j.got /\ tx.outs = {}
    BY <2>3 DEF attachCodeDep, Tx
  <2>5. treasury_pays(tx, pays)
    BY <1>12, <2>1, <2>4 DEF treasury_pays
  <2>6. \A s \in Side : share_out(tx, s) = 0
    BY <2>4, TotalNone, Kinds DEF share_out, Amount
  <2>7. validate_transition(tx)
    BY <1>10, <2>1, <2>2, <2>4, <2>5, <2>6
  <2>8. OfKind(j.got, "treasury") = {}
    BY <1>12, Kinds DEF NoTreasury
  <2>9. Rules(tx, who)
    BY <1>12, <2>1, <2>3, <2>7, <2>8, ContinueRules DEF Gathered, deps
  <2>10. NoStake(tx.ins \union tx.outs)
    BY <1>12, <2>4 DEF NoStake, NoTreasury, Gathered, KindsOf, Side
  <2>11. Balanced(tx)
    BY <1>4, <1>12, <2>4, <2>10 DEF Balanced, IsCkb
  <2>12. Owned(tx, who)
    BY <1>2, <2>4, TotalNone DEF Owned, Gathered
  <2>13. Redeems(tx)
    <3>1. cnext # NoPool
      BY <2>1, PoolIsSome DEF PoolSound
    <3> QED
      BY <1>4, <1>9, <2>1, <2>4, <3>1, Kinds DEF Redeems, NoShares
  <2> QED
    BY <1>2, <2>1, <2>4, <2>9, <2>11, <2>12, <2>13, TotalNone DEF Stands, Sound, Sides
<1> QED
  BY <1>3, <1>11, <1>12

LEMMA BurnStands ==
  ASSUME NEW who, NEW j, Gathered(who, "burn", j.got), NEW tx \in buildBurnSharesTx(j)
  PROVE  /\ Sound(tx) /\ tx.prev = NoPool /\ Stands(tx, who)
         /\ Owned(tx, who) /\ tx.next = NoPool /\ tx.ins = j.got /\ tx.outs = {}
<1>1. tx = attachCodeDep(Tx(NoPool, NoPool, j.got, {}), {"share_xudt"})
  BY EncodedIs DEF buildBurnSharesTx
<1>2. /\ tx.prev = NoPool /\ tx.next = NoPool /\ tx.ins = j.got /\ tx.outs = {}
      /\ tx.deps = {"share_xudt"}
  BY <1>1 DEF attachCodeDep, Tx
<1>3. /\ Good(j.got) /\ \A c \in j.got : c.kind \in Side /\ c.owner = who
  BY DEF Gathered, KindsOf, Side
<1>4. \A k : Amount(tx.outs, k) = 0 /\ Amount(tx.ins, k) \in Nat
  BY <1>2, <1>3, TotalNone, Kinds, AmountNat DEF Amount
<1>5. OfKind(tx.ins, "treasury") = {}
  BY <1>2, <1>3, Kinds DEF Side
<1>6. Runs(tx) \subseteq tx.deps
  BY <1>2, <1>5 DEF Runs, treasury_present
<1>7. Rules(tx, who)
  BY <1>2, <1>3, <1>4, <1>5, <1>6 DEF Rules, pool_type, share_xudt, share_in, share_out,
     treasury_lock, treasury_present, pool_admin_lock, SignedBy
<1>8. Even(tx)
  <2>1. Amount(tx.ins, "stake") = 0 /\ Amount(tx.ins, "treasury") = 0
    BY <1>2, <1>3, AmountOfNone DEF Side
  <2>2. StakeOut(tx) = 0 + 0 + 0 /\ StakeIn(tx) = 0 + 0 + 0
    BY <1>2, <1>4, <2>1 DEF StakeOut, StakeIn
  <2> QED
    BY <2>2 DEF Even
<1>9. Balanced(tx)
  BY <1>2, <1>8 DEF Balanced, IsCkb
<1>10. Owned(tx, who)
  BY <1>2, <1>3, TotalNone DEF Owned
<1> QED
  BY <1>2, <1>3, <1>7, <1>9, <1>10, TotalNone DEF Sound, Sides, Stands

LEMMA CloseStands ==
  ASSUME NEW who, NEW j, PoolSound(j.pool), Gathered(who, "close", j.got),
         \E c \in j.got : c.owner = who,
         j.pool.variant = "CKB" => NoTreasury(j.got),
         NEW tx \in buildCloseTx(who, j)
  PROVE  /\ Sound(tx) /\ tx.prev = j.pool /\ tx.next = NoPool /\ (tx.header => Stands(tx, who))
         /\ Owned(tx, who) /\ who = Creator
<1> DEFINE p == j.pool
           held == Amount(j.got, "treasury")
           outs == OutIf("stake", who, held)
           t == Tx(p, NoPool, j.got, outs)
<1>1. /\ tx = attachCodeDep([t EXCEPT !.header = j.header], PoolDeps(p))
      /\ p.status \in {"FINALIZED", "VOID"} /\ who = Creator
  BY EncodedIs DEF buildCloseTx
<1>2. Good(j.got) /\ held \in Nat
  BY AmountNat DEF Gathered
<1>3. /\ Good(outs) /\ Total(outs) = held
      /\ \A k : OfKind(outs, k) = IF k = "stake" THEN outs ELSE {}
  BY <1>2, OutIfIs
<1>4. outs = {} \/ held > 0
  BY DEF OutIf
<1>5. \A c \in outs : c.kind = "stake"
  BY DEF OutIf, Out
<1> HIDE DEF outs
<1>6. /\ tx.prev = p /\ tx.next = NoPool /\ tx.ins = j.got /\ tx.outs = outs
      /\ tx.deps = PoolDeps(p)
  BY <1>1 DEF attachCodeDep, Tx
<1>7. p # NoPool /\ p.variant \in {"CKB", "XUDT"} /\ (p.variant = "XUDT" => p.capacity = 0)
  BY PoolIsSome DEF PoolSound
<1>8. \A c \in j.got : c.kind \in {"treasury", "plain"} /\ (c.kind = "treasury" \/ c.owner = who)
  BY DEF Gathered, KindsOf
<1>9. \A s \in Side : share_in(tx, s) = 0 /\ share_out(tx, s) = 0
  BY <1>3, <1>6, <1>8, AmountOfNone, TotalNone DEF share_in, share_out, Side, Amount
<1>10. Sound(tx)
  BY <1>3, <1>6 DEF Sound, Sides
<1>11. p.variant = "CKB" => OfKind(j.got, "treasury") = {} /\ held = 0
  BY Kinds, AmountOfNone DEF NoTreasury
<1>12. Runs(tx) \subseteq tx.deps
  <2>1. ~Moves(tx, Side)
    BY <1>5, <1>6, <1>8 DEF Moves, Side
  <2>2. CASE p.variant = "XUDT"
    BY <1>6, <2>1, <2>2 DEF Runs, PoolDeps, resolveAssetDep
  <2>3. CASE p.variant = "CKB"
    BY <1>6, <1>11, <2>1, <2>3 DEF Runs, PoolDeps, resolveAssetDep, treasury_present
  <2> QED
    BY <1>7, <2>2, <2>3
<1>13. ASSUME tx.header
       PROVE  Rules(tx, who)
  <2>1. pool_type(tx)
    BY <1>1, <1>6, <1>7, <1>9, <1>13 DEF pool_type, validate_close, shares_frozen
  <2> QED
    BY <1>1, <1>6, <1>7, <1>8, <1>12, <2>1 DEF Rules, share_xudt, treasury_lock,
       pool_admin_lock, SignedBy
<1>14. Balanced(tx)
  <2>1. CASE p.variant = "XUDT"
    <3>1. Amount(tx.outs, "stake") = held /\ Amount(tx.outs, "treasury") = 0
      BY <1>3, <1>6, TotalNone DEF Amount
    <3>2. Amount(tx.ins, "stake") = 0
      BY <1>6, <1>8, AmountOfNone
    <3>3. StakeIn(tx) = 0 + held + 0 /\ StakeOut(tx) = held + 0 + 0
      BY <1>6, <1>7, <2>1, <3>1, <3>2 DEF StakeIn, StakeOut
    <3>4. Even(tx)
      <4> HIDE DEF held
      <4> QED
        BY <1>2, <3>3 DEF Even
    <3> QED
      BY <1>6, <2>1, <3>4 DEF Balanced, IsCkb
  <2>2. CASE p.variant = "CKB"
    <3>1. outs = {}
      BY <1>4, <1>11, <2>2
    <3>2. NoStake(tx.ins \union tx.outs)
      BY <1>6, <1>8, <2>2, <3>1 DEF NoStake, NoTreasury
    <3> QED
      BY <1>6, <1>7, <2>2, <3>2 DEF Balanced, IsCkb
  <2> QED
    BY <1>7, <2>1, <2>2
<1>15. Owned(tx, who)
  <2>1. \A c \in outs : Shaped(c) /\ c.owner = who
    BY ShapedOuts DEF outs
  <2> QED
    BY <1>2, <1>3, <1>6, <1>8, <2>1 DEF Owned
<1> QED
  BY <1>1, <1>2, <1>3, <1>6, <1>10, <1>13, <1>14, <1>15 DEF Stands

LEMMA RakeInRange ==
  ASSUME NEW n \in Nat, n <= RAKE_BPS_MAX
  PROVE  n \in 0 .. RAKE_BPS_MAX
<1>1. RAKE_BPS_MAX \in Int
  BY DEF RAKE_BPS_MAX
<1> QED
  BY <1>1

LEMMA CreateStands ==
  ASSUME NEW who, NEW j, j.order.round \in Rounds, Gathered(who, "create", j.got),
         NEW tx \in buildCreatePoolTx(j)
  PROVE  /\ Sound(tx) /\ tx.prev = NoPool /\ Stands(tx, who)
         /\ Owned(tx, who) /\ Creates(tx, j.order.round)
<1> DEFINE r == j.order.round
           next == [status |-> "OPEN", winner |-> "UNDECIDED", total |-> Zero,
                    capacity |-> 0, variant |-> r.variant, rake_bps |-> r.rake_bps,
                    start_time |-> r.start_time, close_time |-> r.close_time, n |-> 0]
           outs == IF r.variant = "XUDT" THEN {Out("treasury", "pool", 0)} ELSE {}
           deps == resolveCreateAsset(r)
           t == attachCodeDep(Tx(NoPool, next, j.got, outs), deps)
<1>1. r.start_time < r.close_time /\ tx = t
  <2>1. tx \in Draft(r.start_time < r.close_time, t)
    BY DEF buildCreatePoolTx
  <2> HIDE DEF t
  <2> QED
    BY <2>1, EncodedIs
<1> HIDE DEF outs, deps
<1>2. tx.prev = NoPool /\ tx.ins = j.got /\ tx.outs = outs /\ tx.deps = deps
  BY <1>1 DEF attachCodeDep, Tx
<1>3. tx.next = next
  BY <1>1 DEF attachCodeDep, Tx
<1>4. IsPool(next)
  BY DEF IsPool
<1>5. next.rake_bps <= RAKE_BPS_MAX
  <2>1. encodePoolData(tx.next)
    <3>1. Encodes(tx)
      BY DEF buildCreatePoolTx, Draft
    <3>2. tx.next # NoPool
      BY <1>3, <1>4, PoolIsSome
    <3> QED
      BY <3>1, <3>2 DEF Encodes
  <2> QED
    BY <1>3, <2>1 DEF encodePoolData
<1>6. r.variant \in {"CKB", "XUDT"} /\ r.rake_bps \in Nat
  BY PlayerAssumption
<1>7. Zero \in [Side -> Nat]
  BY DEF Zero
<1>8. PoolSound(next)
  <2>1. /\ {"rake_bps", "start_time", "close_time"} \subseteq DOMAIN next
        /\ next.variant = r.variant /\ next.rake_bps = r.rake_bps
        /\ next.total = Zero /\ next.capacity = 0 /\ next.status = "OPEN"
    OBVIOUS
  <2> HIDE DEF next
  <2>2. next.rake_bps \in 0 .. RAKE_BPS_MAX
    <3> DEFINE n == next.rake_bps
    <3>1. n \in Nat /\ n <= RAKE_BPS_MAX
      BY <1>5, <1>6, <2>1
    <3> HIDE DEF n
    <3>2. n \in 0 .. RAKE_BPS_MAX
      BY <3>1, RakeInRange
    <3> QED
      BY <3>2 DEF n
  <2> QED
    BY <1>4, <1>6, <1>7, <2>1, <2>2 DEF PoolSound
<1>9. Good(outs) /\ Amount(outs, "treasury") = 0 /\ Amount(outs, "stake") = 0
  <2>1. CASE r.variant = "XUDT"
    <3> DEFINE T == {Out("treasury", "pool", 0)}
    <3>0. 0 \in Nat /\ "treasury" \notin Side
      BY DEF Side
    <3>1. /\ Good(T) /\ Total(T) = 0
          /\ \A i : OfKind(T, i) = IF i = "treasury" THEN T ELSE {}
      BY <3>0, OutIs
    <3>2. outs = T
      BY <2>1 DEF outs
    <3> HIDE DEF T
    <3> QED
      BY <3>1, <3>2, TotalNone DEF Amount
  <2>2. CASE r.variant # "XUDT"
    BY <2>2, TotalNone, Kinds DEF outs, Amount
  <2> QED
    BY <2>1, <2>2
<1>10. r.variant = "XUDT" => treasury_balance_is(outs, 0)
  BY <1>9, OutIs DEF outs, treasury_balance_is
<1>11. \A c \in j.got : c.kind = "plain" /\ c.owner = who
  BY DEF Gathered, KindsOf
<1>12. \A c \in outs : c.kind = "treasury" /\ r.variant = "XUDT"
  BY DEF outs, Out
<1>13. /\ next.rake_bps = r.rake_bps
       /\ next.status = "OPEN" /\ next.winner = "UNDECIDED" /\ next.total = Zero
       /\ next.start_time < next.close_time /\ next.variant = r.variant
       /\ next.capacity = 0
  BY <1>1
<1>14. next # NoPool
  BY <1>4, PoolIsSome
<1> HIDE DEF next, t
<1>15. pool_type(tx)
  BY <1>2, <1>3, <1>5, <1>10, <1>13 DEF pool_type, validate_create
<1>16. Amount(j.got, "stake") = 0 /\ Amount(j.got, "treasury") = 0 /\ OfKind(j.got, "treasury") = {}
  BY <1>11, AmountOfNone, Kinds
<1>17. \A s \in Side : share_in(tx, s) = 0 /\ share_out(tx, s) = 0
  BY <1>2, <1>11, <1>12, AmountOfNone DEF share_in, share_out, Side
<1>18. Runs(tx) \subseteq tx.deps
  <2>1. ~Moves(tx, Side)
    BY <1>2, <1>11, <1>12 DEF Moves, Side
  <2> QED
    BY <1>2, <1>3, <1>13, <1>16, <2>1 DEF Runs, treasury_present, deps, resolveCreateAsset
<1>19. Rules(tx, who)
  BY <1>2, <1>11, <1>15, <1>16, <1>17, <1>18 DEF Rules, share_xudt, treasury_lock,
     treasury_present, pool_admin_lock, SignedBy
<1>20. Balanced(tx)
  <2>1. CASE r.variant = "XUDT"
    <3>1. StakeIn(tx) = 0 + 0 + 0 /\ StakeOut(tx) = 0 + 0 + 0
      BY <1>2, <1>3, <1>9, <1>13, <1>14, <1>16 DEF StakeIn, StakeOut
    <3>2. Even(tx)
      BY <3>1 DEF Even
    <3> QED
      BY <1>2, <1>3, <1>13, <2>1, <3>2 DEF Balanced, IsCkb
  <2>2. CASE r.variant = "CKB"
    <3>1. NoStake(tx.ins \union tx.outs)
      BY <1>2, <1>11, <1>12, <2>2 DEF NoStake
    <3> QED
      BY <1>2, <1>3, <1>13, <1>14, <2>2, <3>1 DEF Balanced, IsCkb
  <2> QED
    BY <1>6, <2>1, <2>2
<1>21. Good(j.got)
  BY DEF Gathered
<1>22. Owned(tx, who)
  <2>1. \A c \in outs : Shaped(c) /\ c.kind = "treasury"
    BY ShapedOuts DEF outs
  <2> QED
    BY <1>2, <1>9, <1>11, <1>21, <2>1 DEF Owned
<1>23. Creates(tx, r)
  <2>1. PotIn(tx) = 0 + 0 /\ PotOut(tx) = 0 + 0
    BY <1>2, <1>3, <1>9, <1>13, <1>14, <1>16 DEF PotIn, PotOut, Cap
  <2>2. NoShares(tx.ins) /\ NoShares(tx.outs)
    BY <1>2, <1>11, <1>12, Kinds DEF NoShares, Side
  <2> QED
    BY <1>2, <1>3, <1>13, <1>14, <2>1, <2>2 DEF Creates
<1> QED
  BY <1>2, <1>3, <1>8, <1>9, <1>19, <1>20, <1>21, <1>22, <1>23 DEF Sound, Sides, Stands

(***************************************************************************)
(* The books the contracts keep.  TreasuryTrue is what a deposit and a     *)
(* withdrawal rely on: while the pool is open, a treasury cell that is the *)
(* only one holds what the pool says.  With a foreign deposit's second one *)
(* beside it no balance means anything, and findTreasuryCell throws.       *)
(***************************************************************************)
TreasuryTrue ==
  /\ pool # NoPool
  /\ pool.variant = "XUDT"
  /\ pool.status = "OPEN"
  /\ Cardinality(OfKind(cells, "treasury")) = 1
  => Amount(cells, "treasury") = Staked(pool)

LedgerSound == Good(cells) /\ Sides(pool) /\ TreasuryTrue

(***************************************************************************)
(* What a request has read and has still to read.                          *)
(***************************************************************************)
PoolOps == {"deposit", "withdraw", "redeem", "close"}

SideTodos == {<< >>, <<"UP">>, <<"DOWN">>, <<"UP", "DOWN">>}
PotTodos == {<<"treasury">>, <<"UP", "treasury">>, <<"DOWN", "treasury">>,
             <<"UP", "DOWN", "treasury">>}

CkbTodos(op) ==
  IF op = "deposit" THEN {<< >>}
  ELSE IF op = "close" THEN {<<"plain", "header">>, <<"header">>, << >>}
  ELSE SideTodos

BeforeTreasury(op) ==
  IF op = "deposit" THEN {<<"treasury", "stake">>}
  ELSE IF op = "close" THEN {<<"treasury", "plain", "header">>}
  ELSE PotTodos

AfterTreasury(op) ==
  IF op = "deposit" THEN {<<"stake">>, << >>}
  ELSE IF op = "close" THEN {<<"plain", "header">>, <<"header">>, << >>}
  ELSE {<< >>}

\* The one treasury cell has been read, and unless the pool has moved it
\* holds what the pool says.
TreasuryRead(j) ==
  /\ Cardinality(OfKind(j.got, "treasury")) = 1
  /\ j.order.op \in {"deposit", "withdraw"} /\ j.pool.status = "OPEN" /\ j.pool = pool
     => Amount(j.got, "treasury") = Staked(j.pool)

TodoOk(j) ==
  /\ j.order.op = "burn" => j.todo \in SideTodos
  /\ j.order.op = "create" => j.todo \in {<<"plain">>, << >>}
  /\ j.order.op \in PoolOps =>
       IF j.pool.variant = "CKB"
       THEN j.todo \in CkbTodos(j.order.op) /\ NoTreasury(j.got)
       ELSE \/ j.todo \in BeforeTreasury(j.order.op) /\ NoTreasury(j.got)
            \/ j.todo \in AfterTreasury(j.order.op) /\ TreasuryRead(j)
  /\ j.order.op = "close" /\ j.todo \in {<<"header">>, << >>}
     => \E c \in j.got : c.owner = Creator

ReadingFit(who, j) ==
  /\ Sides(j.pool)
  /\ Gathered(who, j.order.op, j.got)
  /\ j.order.op \in {"deposit", "withdraw"} => j.order.want \in [Side -> Nat]
  /\ j.order.op = "create" => j.order.round \in Rounds
  /\ j.order.op = "close" => who = Creator
  /\ TodoOk(j)

SendingFit(who, j) ==
  /\ Sides(j.tx.prev) /\ Sides(j.tx.next)
  /\ j.order.op = "close" => j.tx.prev # NoPool /\ j.tx.next = NoPool
  /\ /\ j.tx.prev \in {NoPool, pool}
     /\ j.order.op = "close" => j.tx.header
     => IF j.at = "draft" THEN Stands(j.tx, who)
        ELSE Accepts(j.tx, who) /\ Good(j.tx.outs)

JobFit(who, j) ==
  /\ j.at = "reading" => ReadingFit(who, j)
  /\ j.at \in {"draft", "complete"} => SendingFit(who, j)

Fits == LedgerSound /\ \A who \in Players : JobFit(who, job[who])

LEMMA BuiltFits ==
  ASSUME NEW who, NEW j, ReadingOk(who, j), ReadingFit(who, j), NEW k \in Built(who, j)
  PROVE  JobFit(who, k)
<1>1. CASE j.todo # << >>
  BY <1>1 DEF Built, JobFit, ReadingOk
<1>2. CASE j.todo = << >>
  <2>1. PICK tx \in Drafts(who, j) :
          k = [at |-> "draft", order |-> j.order, tx |-> tx]
    BY <1>2 DEF Built
  <2>2. k.at = "draft" /\ k.order = j.order /\ k.tx = tx
    BY <2>1
  <2>3. Gathered(who, j.order.op, j.got)
    BY DEF ReadingFit
  <2>4. j.order.op \in PoolOps => PoolSound(j.pool)
    BY PoolIsSome DEF ReadingOk, ReadingFit, Sides, PoolOps
  <2>5. j.order.op \in PoolOps =>
          IF j.pool.variant = "CKB" THEN NoTreasury(j.got) ELSE TreasuryRead(j)
    BY <1>2 DEF ReadingFit, TodoOk, BeforeTreasury, PotTodos
  <2>6. CASE j.order.op = "deposit"
    <3>2. tx \in buildDepositTx(who, j) /\ j.order.want \in [Side -> Nat]
      BY <2>6, DraftsOf DEF ReadingFit
    <3>3. /\ Sound(tx) /\ tx.prev = j.pool /\ j.pool.status = "OPEN"
          /\ j.pool.variant = "CKB" \/ Amount(j.got, "treasury") = Staked(j.pool)
             => Stands(tx, who)
      BY <2>3, <2>4, <2>6, <3>2, DepositStands DEF PoolOps
    <3>4. j.pool # NoPool
      BY <2>4, <2>6, PoolIsSome DEF PoolSound, PoolOps
    <3> QED
      BY <2>2, <2>4, <2>5, <2>6, <3>3, <3>4 DEF JobFit, SendingFit, Sound, Sides,
         TreasuryRead, PoolOps
  <2>7. CASE j.order.op = "withdraw"
    <3>2. tx \in buildWithdrawTx(who, j) /\ j.order.want \in [Side -> Nat]
      BY <2>7, DraftsOf DEF ReadingFit
    <3>3. /\ Sound(tx) /\ tx.prev = j.pool /\ j.pool.status = "OPEN"
          /\ j.pool.variant = "CKB" \/ Amount(j.got, "treasury") = Staked(j.pool)
             => Stands(tx, who)
      BY <2>3, <2>4, <2>5, <2>7, <3>2, WithdrawStands DEF PoolOps
    <3>4. j.pool # NoPool
      BY <2>4, <2>7, PoolIsSome DEF PoolSound, PoolOps
    <3> QED
      BY <2>2, <2>4, <2>5, <2>7, <3>3, <3>4 DEF JobFit, SendingFit, Sound, Sides,
         TreasuryRead, PoolOps
  <2>8. CASE j.order.op = "redeem"
    <3>1. tx \in buildRedeemTx(who, j)
      BY <2>8, DraftsOf
    <3>2. Sound(tx) /\ tx.prev = j.pool /\ Stands(tx, who)
      BY <2>3, <2>4, <2>5, <2>8, <3>1, RedeemStands DEF PoolOps, TreasuryRead
    <3> QED
      BY <2>2, <2>4, <2>8, <3>2 DEF JobFit, SendingFit, Sound, Sides, PoolOps
  <2>9. CASE j.order.op = "burn"
    <3>1. tx \in buildBurnSharesTx(j)
      BY <2>9, DraftsOf
    <3>2. Sound(tx) /\ tx.prev = NoPool /\ Stands(tx, who)
      BY <2>3, <2>9, <3>1, BurnStands
    <3> QED
      BY <2>2, <2>9, <3>2 DEF JobFit, SendingFit, Sound, Sides
  <2>10. CASE j.order.op = "close"
    <3>1. tx \in buildCloseTx(who, j) /\ who = Creator /\ \E c \in j.got : c.owner = who
      BY <1>2, <2>10, DraftsOf DEF ReadingFit, TodoOk
    <3>2. Sound(tx) /\ tx.prev = j.pool /\ tx.next = NoPool /\ (tx.header => Stands(tx, who))
      BY <2>3, <2>4, <2>5, <2>10, <3>1, CloseStands DEF PoolOps
    <3>3. j.pool # NoPool
      BY <2>4, <2>10, PoolIsSome DEF PoolSound, PoolOps
    <3> QED
      BY <2>2, <2>4, <2>10, <3>2, <3>3 DEF JobFit, SendingFit, Sound, Sides, PoolOps
  <2>11. CASE j.order.op = "create"
    <3>1. tx \in buildCreatePoolTx(j) /\ j.order.round \in Rounds
      BY <2>11, DraftsOf DEF ReadingFit
    <3>2. Sound(tx) /\ tx.prev = NoPool /\ Stands(tx, who)
      BY <2>3, <2>11, <3>1, CreateStands
    <3> QED
      BY <2>2, <2>11, <3>2 DEF JobFit, SendingFit, Sound, Sides
  <2> QED
    BY <2>6, <2>7, <2>8, <2>9, <2>10, <2>11 DEF ReadingOk, Ops
<1> QED
  BY <1>1, <1>2

(***************************************************************************)
(* A transaction that the scripts accept lands: the books stay true.       *)
(***************************************************************************)
LEMMA TreasuryMade ==
  ASSUME NEW tx, pool_type(tx), IsPool(tx.next), tx.next.variant = "XUDT",
         tx.next.status = "OPEN"
  PROVE  treasury_balance_is(tx.outs, Staked(tx.next))
<1>1. tx.next # NoPool
  BY PoolIsSome
<1>2. CASE tx.prev = NoPool
  <2>1. validate_create(tx)
    BY <1>1, <1>2 DEF pool_type
  <2>2. Staked(tx.next) = 0
    BY <2>1 DEF validate_create, Staked, Zero, Side
  <2> QED
    BY <2>1, <2>2 DEF validate_create
<1>3. CASE tx.prev # NoPool
  <2>1. validate_transition(tx)
    BY <1>1, <1>3 DEF pool_type
  <2>2. validate_deposit(tx) /\ tx.prev.variant = "XUDT"
    BY <2>1 DEF validate_transition, PhaseSteps
  <2> QED
    BY <2>2 DEF validate_deposit
<1> QED
  BY <1>2, <1>3

LEMMA LandSound ==
  ASSUME LedgerSound, NEW tx, Land(tx, SeenPools, SeenCells),
         pool_type(tx), treasury_lock(tx), Good(tx.outs),
         Sides(tx.prev), Sides(tx.next),
         tx.prev = NoPool /\ tx.next = NoPool => NoTreasury(tx.outs)
  PROVE  LedgerSound'
<1> DEFINE kept == cells \ tx.ins
           old == kept \union SeenCells
           made == {Placed(out, old) : out \in tx.outs}
           put == [out \in tx.outs |-> Placed(out, old)]
           taken == {p.n : p \in SeenPools}
           u == Unused(taken)
<1>1. /\ cells' = kept \union made
      /\ pool' = IF tx.prev = NoPool /\ tx.next = NoPool THEN pool
                 ELSE IF tx.next = NoPool THEN NoPool
                 ELSE [tx.next EXCEPT !.n = u]
  BY DEF Land
<1> HIDE DEF u
<1>2. \A out \in tx.outs : /\ Placed(out, old).kind = out.kind
                           /\ Placed(out, old).amount = out.amount
  BY DEF Placed
<1>3. Good(made)
  <2>1. put \in Surjection(tx.outs, made)
    BY DEF Surjection
  <2>2. IsFiniteSet(made)
    BY <2>1, FS_Surjection DEF Good
  <2> HIDE DEF old
  <2> QED
    BY <1>2, <2>2 DEF Good
<1>4. Good(cells')
  <2>1. Good(kept)
    BY GoodParts DEF LedgerSound
  <2> HIDE DEF kept, made
  <2> QED
    BY <1>1, <1>3, <2>1, GoodParts
<1>5. Sides(pool')
  <2>1. CASE tx.next = NoPool
    BY <1>1, <2>1 DEF LedgerSound, Sides
  <2>2. CASE tx.next # NoPool
    <3>1. PoolSound(tx.next) /\ pool' = [tx.next EXCEPT !.n = u]
      BY <1>1, <2>2 DEF Sides
    <3>2. PoolSound(pool')
      BY <3>1 DEF PoolSound, IsPool, OneSided
    <3> QED
      BY <3>2 DEF Sides
  <2> QED
    BY <2>1, <2>2
<1>6. TreasuryTrue'
  <2>1. CASE tx.prev = NoPool /\ tx.next = NoPool
    <3>1. pool' = pool
      BY <1>1, <2>1
    <3>2. OfKind(tx.ins, "treasury") = {}
      BY <2>1 DEF treasury_lock, treasury_present
    <3>3. \A c \in made : c.kind # "treasury"
      <4> HIDE DEF old
      <4> QED
        BY <1>2, <2>1 DEF NoTreasury
    <3>4. OfKind(cells', "treasury") = OfKind(cells, "treasury")
      <4> HIDE DEF made
      <4> QED
        BY <1>1, <3>2, <3>3 DEF OfKind
    <3> QED
      BY <3>1, <3>4 DEF LedgerSound, TreasuryTrue, Amount
  <2>2. CASE tx.prev # NoPool /\ tx.next = NoPool
    <3>1. pool' = NoPool
      BY <1>1, <2>2
    <3> QED
      BY <3>1 DEF TreasuryTrue
  <2>3. CASE tx.next # NoPool
    <3>1. PoolSound(tx.next) /\ pool' = [tx.next EXCEPT !.n = u]
      BY <1>1, <2>3 DEF Sides
    <3>2. /\ pool'.variant = tx.next.variant /\ pool'.status = tx.next.status
          /\ pool'.total = tx.next.total /\ IsPool(tx.next)
      BY <3>1 DEF PoolSound, IsPool
    <3>3. SUFFICES ASSUME tx.next.variant = "XUDT", tx.next.status = "OPEN",
                          Cardinality(OfKind(cells', "treasury")) = 1
                   PROVE  Total(OfKind(cells', "treasury")) = Staked(pool')
      BY <3>2 DEF TreasuryTrue, Amount
    <3>4. treasury_balance_is(tx.outs, Staked(tx.next))
      BY <3>2, <3>3, TreasuryMade
    <3>5. IsFiniteSet(OfKind(tx.outs, "treasury")) /\ IsFiniteSet(OfKind(cells', "treasury"))
      BY <1>4, Kinds, FS_Subset DEF Good
    <3>6. PICK out : OfKind(tx.outs, "treasury") = {out}
      BY <3>4, <3>5, FS_Singleton DEF treasury_balance_is
    <3>7. out \in tx.outs /\ out.kind = "treasury" /\ out.amount \in Nat
      BY <3>6 DEF OfKind, Good
    <3> DEFINE c == Placed(out, old)
    <3>8. c \in OfKind(cells', "treasury") /\ c.amount = out.amount
      <4>1. c \in made /\ c.kind = "treasury" /\ c.amount = out.amount
        BY <1>2, <3>7
      <4> HIDE DEF c, made
      <4> QED
        BY <1>1, <4>1 DEF OfKind
    <3> HIDE DEF c
    <3>9. OfKind(cells', "treasury") = {c}
      <4>1. PICK d : OfKind(cells', "treasury") = {d}
        BY <3>3, <3>5, FS_Singleton
      <4> QED
        BY <3>8, <4>1
    <3>10. Total({c}) = out.amount /\ Total({out}) = out.amount
      BY <3>7, <3>8, TotalOne
    <3>11. out.amount = Staked(tx.next)
      BY <3>4, <3>6, <3>10 DEF treasury_balance_is, Amount
    <3>12. Staked(pool') = Staked(tx.next)
      BY <3>2 DEF Staked
    <3> QED
      BY <3>9, <3>10, <3>11, <3>12
  <2> QED
    BY <2>1, <2>2, <2>3
<1> QED
  BY <1>4, <1>5, <1>6 DEF LedgerSound

(***************************************************************************)
(* A request whose pool is the live one still after a transaction: then    *)
(* the pool has not moved, or a new PoolCell would be one it remembers.    *)
(***************************************************************************)
Unmoved(who) ==
  Remembered(who) # NoPool /\ Remembered(who) = pool' => Remembered(who) = pool

LEMMA LandUnmoved ==
  ASSUME NEW tx, Land(tx, SeenPools, SeenCells), Sides(tx.next), NEW who \in Players
  PROVE  Unmoved(who)
<1> DEFINE taken == {p.n : p \in SeenPools}
           u == Unused(taken)
<1>1. pool' = IF tx.prev = NoPool /\ tx.next = NoPool THEN pool
              ELSE IF tx.next = NoPool THEN NoPool
              ELSE [tx.next EXCEPT !.n = u]
  BY DEF Land
<1>2. u \notin taken
  BY SeenFinite, UnusedIsUnused
<1>3. Remembered(who) # NoPool => Remembered(who).n \in taken
  <2>1. ASSUME Remembered(who) # NoPool
        PROVE  Remembered(who) \in SeenPools
    BY <2>1 DEF SeenPools, Remembered
  <2> QED
    BY <2>1
<1> HIDE DEF u, taken
<1>4. CASE tx.next # NoPool
  <2>1. pool'.n = u
    BY <1>1, <1>4 DEF Sides, PoolSound, IsPool
  <2> QED
    BY <1>2, <1>3, <2>1 DEF Unmoved
<1>5. CASE tx.next = NoPool
  BY <1>1, <1>5 DEF Unmoved
<1> QED
  BY <1>4, <1>5

LEMMA OthersFit ==
  ASSUME IInv, NEW who \in Players, JobFit(who, job[who]), job'[who] = job[who],
         Unmoved(who)
  PROVE  JobFit(who, job[who])'
<1> DEFINE j == job[who]
<1>1. JobOk(who, j)
  BY DEF IInv, JobsOk
<1>2. ASSUME j.at = "reading"
      PROVE  ReadingFit(who, j)'
  <2>1. ReadingOk(who, j)
    BY <1>1, <1>2 DEF JobOk, Idle, SendingOk
  <2>2. ReadingFit(who, j)
    BY <1>2 DEF JobFit
  <2>3. Remembered(who) = j.pool
    BY <1>2 DEF Remembered
  <2>4. j.order.op \in PoolOps => j.pool # NoPool
    BY <2>1, PoolIsSome DEF ReadingOk, PoolOps
  <2>5. j.order.op \in PoolOps /\ TreasuryRead(j) => TreasuryRead(j)'
    BY <2>3, <2>4 DEF TreasuryRead, Unmoved
  <2>6. TodoOk(j)'
    BY <2>2, <2>5 DEF ReadingFit, TodoOk
  <2> QED
    BY <2>2, <2>6 DEF ReadingFit
<1>3. ASSUME j.at \in {"draft", "complete"}
      PROVE  SendingFit(who, j)'
  <2>1. Remembered(who) = j.tx.prev
    BY <1>3 DEF Remembered
  <2>2. SendingFit(who, j)
    BY <1>3 DEF JobFit
  <2>3. j.tx.prev \in {NoPool, pool'} => j.tx.prev \in {NoPool, pool}
    BY <2>1 DEF Unmoved
  <2> QED
    BY <2>2, <2>3 DEF SendingFit
<1> QED
  BY <1>2, <1>3 DEF JobFit

(***************************************************************************)
(* The steps of a request that leave the ledger alone.                     *)
(***************************************************************************)
LEMMA GoOnFits ==
  ASSUME IInv, Fits, NEW who \in Players, NEW next, \A k \in next : JobFit(who, k),
         GoOn(who, next), UNCHANGED <<pool, cells>>
  PROVE  Fits'
<1>1. pool' = pool /\ cells' = cells
  OBVIOUS
<1>2. JobFit(who, Idle)
  BY DEF JobFit, Idle
<1>3. PICK k : JobFit(who, k) /\ job' = [job EXCEPT ![who] = k]
  BY <1>2 DEF GoOn
<1>4. LedgerSound'
  BY <1>1 DEF Fits, LedgerSound, TreasuryTrue
<1>5. ASSUME NEW w \in Players
      PROVE  JobFit(w, job[w])'
  <2>1. JobFit(w, job'[w])
    BY <1>3 DEF IInv, JobsOk, Fits
  <2> QED
    BY <1>1, <2>1 DEF JobFit, ReadingFit, SendingFit, TodoOk, TreasuryRead
<1> QED
  BY <1>4, <1>5 DEF Fits

LEMMA StartFits ==
  ASSUME IInv, Fits, NEW who \in Players, NEW order, NEW p, NEW todo,
         LET j == [at |-> "reading", order |-> order, todo |-> todo,
                   pool |-> p, got |-> {}, header |-> FALSE]
         IN  ReadingOk(who, j) /\ ReadingFit(who, j),
         Start(who, order, p, todo), UNCHANGED <<pool, cells>>
  PROVE  Fits'
<1> DEFINE j == [at |-> "reading", order |-> order, todo |-> todo,
                 pool |-> p, got |-> {}, header |-> FALSE]
<1>1. GoOn(who, Built(who, j))
  BY DEF Start
<1>2. ReadingOk(who, j) /\ ReadingFit(who, j)
  OBVIOUS
<1> HIDE DEF j
<1>3. \A k \in Built(who, j) : JobFit(who, k)
  BY <1>2, BuiltFits
<1> QED
  BY <1>1, <1>3, GoOnFits

(***************************************************************************)
(* Joining short sequences.                                                *)
(***************************************************************************)
LEMMA TwoJoin ==
  ASSUME NEW a, NEW b
  PROVE  <<a>> \o <<b>> = <<a, b>>
<1> DEFINE S == {a, b}
           s == <<a>> \o <<b>>
           t == <<a, b>>
<1>1. <<a>> \in Seq(S) /\ <<b>> \in Seq(S) /\ t \in Seq(S)
  OBVIOUS
<1>2. Len(<<a>>) = 1 /\ Len(<<b>>) = 1 /\ <<a>>[1] = a /\ <<b>>[1] = b
  OBVIOUS
<1>3. Len(t) = 2 /\ t[1] = a /\ t[2] = b
  OBVIOUS
<1>4. s \in Seq(S) /\ Len(s) = 2 /\ s[1] = a /\ s[2] = b
  BY <1>1, <1>2, ConcatProperties
<1> HIDE DEF s, t
<1>5. \A i \in 1 .. Len(s) : s[i] = t[i]
  BY <1>3, <1>4
<1> QED
  BY <1>1, <1>3, <1>4, <1>5, SeqEqual DEF s, t

LEMMA ThreeJoin ==
  ASSUME NEW a, NEW b, NEW c
  PROVE  <<a, b>> \o <<c>> = <<a, b, c>>
<1> DEFINE S == {a, b, c}
           s == <<a, b>> \o <<c>>
           t == <<a, b, c>>
<1>1. <<a, b>> \in Seq(S) /\ <<c>> \in Seq(S) /\ t \in Seq(S)
  OBVIOUS
<1>2. Len(<<a, b>>) = 2 /\ Len(<<c>>) = 1 /\ <<a, b>>[1] = a /\ <<a, b>>[2] = b /\ <<c>>[1] = c
  OBVIOUS
<1>3. Len(t) = 3 /\ t[1] = a /\ t[2] = b /\ t[3] = c
  OBVIOUS
<1>4. s \in Seq(S) /\ Len(s) = 3 /\ s[1] = a /\ s[2] = b /\ s[3] = c
  BY <1>1, <1>2, ConcatProperties
<1> HIDE DEF s, t
<1>5. \A i \in 1 .. Len(s) : s[i] = t[i]
  BY <1>3, <1>4
<1> QED
  BY <1>1, <1>3, <1>4, <1>5, SeqEqual DEF s, t

LEMMA EmptyJoins ==
  ASSUME NEW a, NEW b
  PROVE  /\ << >> \o <<a>> = <<a>> /\ <<a>> \o << >> = <<a>>
         /\ <<a, b>> \o << >> = <<a, b>> /\ << >> \o << >> = << >>
OBVIOUS

\* What is read, in order.
LEMMA ReadsAre ==
  /\ \A p : p.variant = "XUDT" => initiateDeposit(p) = <<"treasury", "stake">>
  /\ \A p : p.variant # "XUDT" => initiateDeposit(p) = << >>
  /\ \A S : SideReads(S) \in SideTodos
  /\ \A S, p : p.variant = "XUDT" => SideReads(S) \o IfXudt(p, "treasury") \in PotTodos
  /\ \A S, p : p.variant # "XUDT" => SideReads(S) \o IfXudt(p, "treasury") \in SideTodos
<1>1. /\ <<"treasury">> \o <<"stake">> = <<"treasury", "stake">>
      /\ << >> \o << >> = << >>
      /\ <<"UP">> \o <<"DOWN">> = <<"UP", "DOWN">>
      /\ <<"UP">> \o << >> = <<"UP">>
      /\ << >> \o <<"DOWN">> = <<"DOWN">>
      /\ <<"UP", "DOWN">> \o << >> = <<"UP", "DOWN">>
      /\ <<"DOWN">> \o << >> = <<"DOWN">>
  BY TwoJoin, EmptyJoins
<1>2. /\ << >> \o <<"treasury">> = <<"treasury">>
      /\ <<"UP">> \o <<"treasury">> = <<"UP", "treasury">>
      /\ <<"DOWN">> \o <<"treasury">> = <<"DOWN", "treasury">>
      /\ <<"UP", "DOWN">> \o <<"treasury">> = <<"UP", "DOWN", "treasury">>
  BY TwoJoin, ThreeJoin, EmptyJoins
<1>3. \A p, r : IfXudt(p, r) = IF p.variant = "XUDT" THEN <<r>> ELSE << >>
  BY DEF IfXudt, If
<1>4. \A S : SideReads(S) \in SideTodos
  BY <1>1 DEF SideReads, If, SideTodos
<1>5. ASSUME NEW S, NEW p, p.variant = "XUDT"
      PROVE  SideReads(S) \o IfXudt(p, "treasury") \in PotTodos
  <2>1. SideReads(S) \in {<< >>, <<"UP">>, <<"DOWN">>, <<"UP", "DOWN">>}
    BY <1>4 DEF SideTodos
  <2> QED
    BY <1>2, <1>3, <1>5, <2>1 DEF PotTodos
<1>6. ASSUME NEW S, NEW p, p.variant # "XUDT"
      PROVE  SideReads(S) \o IfXudt(p, "treasury") \in SideTodos
  <2>1. SideReads(S) \in {<< >>, <<"UP">>, <<"DOWN">>, <<"UP", "DOWN">>}
    BY <1>4 DEF SideTodos
  <2> QED
    BY <1>1, <1>3, <1>6, <2>1 DEF SideTodos
<1> QED
  BY <1>1, <1>3, <1>4, <1>5, <1>6 DEF initiateDeposit

\* A request begins with nothing gathered.
LEMMA BeginFits ==
  ASSUME NEW who, NEW order, NEW p, NEW todo, Sides(p),
         order.op \in Ops,
         order.op \in {"deposit", "withdraw"} => order.want \in [Side -> Nat],
         order.op = "create" => order.round \in Rounds,
         order.op = "close" => who = Creator,
         order.op = "burn" => todo \in SideTodos,
         order.op = "create" => todo = <<"plain">>,
         order.op \in PoolOps =>
           IF p.variant = "CKB" THEN todo \in CkbTodos(order.op)
           ELSE todo \in BeforeTreasury(order.op),
         order.op = "close" => todo \notin {<<"header">>, << >>}
  PROVE  ReadingFit(who, [at |-> "reading", order |-> order, todo |-> todo,
                          pool |-> p, got |-> {}, header |-> FALSE])
<1> DEFINE j == [at |-> "reading", order |-> order, todo |-> todo,
                 pool |-> p, got |-> {}, header |-> FALSE]
<1>1. j.order = order /\ j.todo = todo /\ j.pool = p /\ j.got = {}
  OBVIOUS
<1> HIDE DEF j
<1>2. Gathered(who, j.order.op, j.got) /\ NoTreasury(j.got)
  BY <1>1, TotalNone DEF Gathered, NoTreasury
<1>3. TodoOk(j)
  BY <1>1, <1>2 DEF TodoOk
<1>4. ReadingFit(who, j)
  BY <1>1, <1>2, <1>3 DEF ReadingFit
<1> QED
  BY <1>4 DEF j

(***************************************************************************)
(* What is still to be read of the sides.                                  *)
(***************************************************************************)
Asks(todo, s) == \E i \in 1 .. Len(todo) : todo[i] = s

LEMMA AsksOf ==
  /\ \A s : ~Asks(<< >>, s)
  /\ \A a, s : Asks(<<a>>, s) <=> s = a
  /\ \A a, b, s : Asks(<<a, b>>, s) <=> s = a \/ s = b
  /\ \A a, b, c, s : Asks(<<a, b, c>>, s) <=> s = a \/ s = b \/ s = c
<1>1. \A s : ~Asks(<< >>, s)
  BY DEF Asks
<1>2. \A a, s : Asks(<<a>>, s) <=> s = a
  BY DEF Asks
<1>3. \A a, b, s : Asks(<<a, b>>, s) <=> s = a \/ s = b
  <2> TAKE a, b, s
  <2>1. Len(<<a, b>>) = 2 /\ <<a, b>>[1] = a /\ <<a, b>>[2] = b
    OBVIOUS
  <2>2. 1 \in 1 .. 2 /\ 2 \in 1 .. 2 /\ \A i \in 1 .. 2 : i = 1 \/ i = 2
    OBVIOUS
  <2> QED
    BY <2>1, <2>2 DEF Asks
<1>4. \A a, b, c, s : Asks(<<a, b, c>>, s) <=> s = a \/ s = b \/ s = c
  <2> TAKE a, b, c, s
  <2>1. Len(<<a, b, c>>) = 3 /\ <<a, b, c>>[1] = a /\ <<a, b, c>>[2] = b /\ <<a, b, c>>[3] = c
    OBVIOUS
  <2>2. 1 \in 1 .. 3 /\ 2 \in 1 .. 3 /\ 3 \in 1 .. 3 /\ \A i \in 1 .. 3 : i = 1 \/ i = 2 \/ i = 3
    OBVIOUS
  <2> QED
    BY <2>1, <2>2 DEF Asks
<1> QED
  BY <1>1, <1>2, <1>3, <1>4

\* A read answers for the side it reads.
LEMMA AsksSteps ==
  ASSUME NEW t \in SideTodos \union PotTodos, t # << >>, NEW s \in Side
  PROVE  Asks(t, s) <=> s = Head(t) \/ Asks(Tail(t), s)
<1>1. Head(<<"UP">>) = "UP" /\ Tail(<<"UP">>) = << >>
  OBVIOUS
<1>2. Head(<<"DOWN">>) = "DOWN" /\ Tail(<<"DOWN">>) = << >>
  OBVIOUS
<1>3. Head(<<"UP", "DOWN">>) = "UP" /\ Tail(<<"UP", "DOWN">>) = <<"DOWN">>
  OBVIOUS
<1>4. Head(<<"treasury">>) = "treasury" /\ Tail(<<"treasury">>) = << >>
  OBVIOUS
<1>5. Head(<<"UP", "treasury">>) = "UP" /\ Tail(<<"UP", "treasury">>) = <<"treasury">>
  OBVIOUS
<1>6. Head(<<"DOWN", "treasury">>) = "DOWN" /\ Tail(<<"DOWN", "treasury">>) = <<"treasury">>
  OBVIOUS
<1>7. /\ Head(<<"UP", "DOWN", "treasury">>) = "UP"
      /\ Tail(<<"UP", "DOWN", "treasury">>) = <<"DOWN", "treasury">>
  OBVIOUS
<1>8. CASE t = <<"UP">>
  BY <1>1, <1>8, AsksOf
<1>9. CASE t = <<"DOWN">>
  BY <1>2, <1>9, AsksOf
<1>10. CASE t = <<"UP", "DOWN">>
  BY <1>3, <1>10, AsksOf
<1>11. CASE t = <<"treasury">>
  BY <1>4, <1>11, AsksOf
<1>12. CASE t = <<"UP", "treasury">>
  BY <1>5, <1>12, AsksOf
<1>13. CASE t = <<"DOWN", "treasury">>
  BY <1>6, <1>13, AsksOf
<1>14. CASE t = <<"UP", "DOWN", "treasury">>
  BY <1>7, <1>14, AsksOf
<1> QED
  BY <1>8, <1>9, <1>10, <1>11, <1>12, <1>13, <1>14 DEF SideTodos, PotTodos

\* Every side that is named is read, and no other.
LEMMA ReadsAsk ==
  /\ \A S : \A s \in Side : Asks(SideReads(S), s) <=> s \in S
  /\ \A S, p : \A s \in Side : Asks(SideReads(S) \o IfXudt(p, "treasury"), s) <=> s \in S
<1>1. /\ <<"UP">> \o <<"DOWN">> = <<"UP", "DOWN">>
      /\ <<"UP">> \o << >> = <<"UP">> /\ <<"DOWN">> \o << >> = <<"DOWN">>
      /\ << >> \o <<"DOWN">> = <<"DOWN">> /\ << >> \o << >> = << >>
      /\ <<"UP", "DOWN">> \o << >> = <<"UP", "DOWN">>
  BY TwoJoin, EmptyJoins
<1>2. /\ << >> \o <<"treasury">> = <<"treasury">>
      /\ <<"UP">> \o <<"treasury">> = <<"UP", "treasury">>
      /\ <<"DOWN">> \o <<"treasury">> = <<"DOWN", "treasury">>
      /\ <<"UP", "DOWN">> \o <<"treasury">> = <<"UP", "DOWN", "treasury">>
  BY TwoJoin, ThreeJoin, EmptyJoins
<1>3. ASSUME NEW S, NEW s \in Side
      PROVE  Asks(SideReads(S), s) <=> s \in S
  <2>1. SideReads(S) = (IF "UP" \in S THEN <<"UP">> ELSE << >>)
                         \o (IF "DOWN" \in S THEN <<"DOWN">> ELSE << >>)
    BY DEF SideReads, If
  <2>2. CASE "UP" \in S /\ "DOWN" \in S
    <3>1. SideReads(S) = <<"UP", "DOWN">>
      BY <1>1, <2>1, <2>2
    <3> QED
      BY <2>2, <3>1, AsksOf DEF Side
  <2>3. CASE "UP" \in S /\ "DOWN" \notin S
    <3>1. SideReads(S) = <<"UP">>
      BY <1>1, <2>1, <2>3
    <3> QED
      BY <2>3, <3>1, AsksOf DEF Side
  <2>4. CASE "UP" \notin S /\ "DOWN" \in S
    <3>1. SideReads(S) = <<"DOWN">>
      BY <1>1, <2>1, <2>4
    <3> QED
      BY <2>4, <3>1, AsksOf DEF Side
  <2>5. CASE "UP" \notin S /\ "DOWN" \notin S
    <3>1. SideReads(S) = << >>
      BY <1>1, <2>1, <2>5
    <3> QED
      BY <2>5, <3>1, AsksOf DEF Side
  <2> QED
    BY <2>2, <2>3, <2>4, <2>5
<1>4. ASSUME NEW S, NEW p, NEW s \in Side
      PROVE  Asks(SideReads(S) \o IfXudt(p, "treasury"), s) <=> Asks(SideReads(S), s)
  <2>1. SideReads(S) \in {<< >>, <<"UP">>, <<"DOWN">>, <<"UP", "DOWN">>}
    BY ReadsAre DEF SideTodos
  <2>2. IfXudt(p, "treasury") = IF p.variant = "XUDT" THEN <<"treasury">> ELSE << >>
    BY DEF IfXudt, If
  <2>3. CASE p.variant = "XUDT"
    <3> DEFINE A == SideReads(S)
               B == IfXudt(p, "treasury")
    <3>1. s # "treasury" /\ B = <<"treasury">>
      BY <2>2, <2>3 DEF Side
    <3>0. A \in {<< >>, <<"UP">>, <<"DOWN">>, <<"UP", "DOWN">>}
      BY <2>1
    <3> SUFFICES Asks(A \o B, s) <=> Asks(A, s)
      OBVIOUS
    <3> HIDE DEF A, B
    <3>2. CASE A = << >>
      <4>1. A \o B = <<"treasury">>
        BY <1>2, <3>1, <3>2
      <4> QED
        BY <3>1, <3>2, <4>1, AsksOf
    <3>3. CASE A = <<"UP">>
      <4>1. A \o B = <<"UP", "treasury">>
        BY <1>2, <3>1, <3>3
      <4>2. /\ Asks(<<"UP">>, s) <=> s = "UP"
            /\ Asks(<<"UP", "treasury">>, s) <=> s = "UP" \/ s = "treasury"
        BY AsksOf
      <4> QED
        BY <3>1, <3>3, <4>1, <4>2
    <3>4. CASE A = <<"DOWN">>
      <4>1. A \o B = <<"DOWN", "treasury">>
        BY <1>2, <3>1, <3>4
      <4>2. /\ Asks(<<"DOWN">>, s) <=> s = "DOWN"
            /\ Asks(<<"DOWN", "treasury">>, s) <=> s = "DOWN" \/ s = "treasury"
        BY AsksOf
      <4> QED
        BY <3>1, <3>4, <4>1, <4>2
    <3>5. CASE A = <<"UP", "DOWN">>
      <4>1. A \o B = <<"UP", "DOWN", "treasury">>
        BY <1>2, <3>1, <3>5
      <4>2. /\ Asks(<<"UP", "DOWN">>, s) <=> s = "UP" \/ s = "DOWN"
            /\ Asks(<<"UP", "DOWN", "treasury">>, s) <=> s = "UP" \/ s = "DOWN" \/ s = "treasury"
        BY AsksOf
      <4> QED
        BY <3>1, <3>5, <4>1, <4>2
    <3> QED
      BY <3>0, <3>2, <3>3, <3>4, <3>5
  <2>4. CASE p.variant # "XUDT"
    <3>1. SideReads(S) \o IfXudt(p, "treasury") = SideReads(S)
      BY <1>1, <2>1, <2>2, <2>4
    <3> QED
      BY <3>1
  <2> QED
    BY <2>3, <2>4
<1> QED
  BY <1>3, <1>4

(***************************************************************************)
(* What the books rest on. Due: a redeem burns every share of this side.   *)
(* A redeem knows all the shares of its owner until the pool moves: nobody *)
(* else moves them, and he himself has this one request.                   *)
(***************************************************************************)
Due(p, s) == refunds(p) \/ s = p.winner

ReadingBooks(who, j) ==
  /\ j.order.op = "redeem" /\ j.pool = pool =>
       \A s \in Side : Due(j.pool, s) => Asks(j.todo, s) \/ CellsOf(cells, s, who) \subseteq j.got
  /\ j.order.op = "burn" =>
       \A s \in Side : s \notin j.order.sides => ~Asks(j.todo, s) /\ OfKind(j.got, s) = {}

(***************************************************************************)
(* A request that begins: all that is known of its first reading.          *)
(***************************************************************************)
Begun(order, p, todo) ==
  [at |-> "reading", order |-> order, todo |-> todo,
   pool |-> p, got |-> {}, header |-> FALSE]

Begins(who) ==
  \E order, p, todo :
    /\ Start(who, order, p, todo)
    /\ ReadingOk(who, Begun(order, p, todo))
    /\ ReadingFit(who, Begun(order, p, todo))
    /\ ReadingBooks(who, Begun(order, p, todo))

LEMMA BeginBooks ==
  ASSUME NEW who, NEW order, NEW p, NEW todo,
         order.op = "redeem" => \A s \in Side : Due(p, s) => Asks(todo, s),
         order.op = "burn" => \A s \in Side : s \notin order.sides => ~Asks(todo, s)
  PROVE  ReadingBooks(who, Begun(order, p, todo))
<1> DEFINE j == Begun(order, p, todo)
<1>1. j.order = order /\ j.todo = todo /\ j.pool = p /\ j.got = {}
  BY DEF Begun
<1> HIDE DEF j
<1>2. ReadingBooks(who, j)
  BY <1>1, Kinds DEF ReadingBooks
<1> QED
  BY <1>2 DEF j

LEMMA AskBegins ==
  ASSUME IInv, Fits, NEW h \in Holders, Ask(h)
  PROVE  Begins(h)
<1>2. ASSUME NEW p \in getPool
      PROVE  PoolSound(p) /\ IsPool(p) /\ Sides(p) /\ p.variant \in {"CKB", "XUDT"}
  BY DEF getPool, Fits, LedgerSound, Sides, PoolSound
<1>3. ASSUME NEW order, NEW p, NEW todo, IsPool(p),
             order.op \in {"deposit", "withdraw", "redeem"}
      PROVE  ReadingOk(h, Begun(order, p, todo))
  BY <1>3 DEF Begun, ReadingOk, OnlyFirst, Ops
<1>4. CASE \E want \in Stakes[h] : AskDeposit(h, want)
  <2>1. PICK want \in Stakes[h] : \E p \in getPool :
          Start(h, [op |-> "deposit", want |-> want], p, initiateDeposit(p))
    BY <1>4 DEF AskDeposit
  <2> PICK p \in getPool :
          Start(h, [op |-> "deposit", want |-> want], p, initiateDeposit(p))
    BY <2>1
  <2> DEFINE order == [op |-> "deposit", want |-> want]
             todo == initiateDeposit(p)
  <2>2. order.op = "deposit" /\ order.want \in [Side -> Nat]
    BY PlayerAssumption
  <2>3. /\ p.variant = "CKB" => todo \in CkbTodos("deposit")
        /\ p.variant # "CKB" => todo \in BeforeTreasury("deposit")
    BY <1>2, ReadsAre DEF CkbTodos, BeforeTreasury
  <2>6. Start(h, order, p, todo)
    OBVIOUS
  <2> HIDE DEF order, todo
  <2>4. ReadingFit(h, Begun(order, p, todo))
    BY <1>2, <2>2, <2>3, BeginFits DEF Ops, Begun
  <2>5. ReadingOk(h, Begun(order, p, todo)) /\ ReadingBooks(h, Begun(order, p, todo))
    BY <1>2, <1>3, <2>2, BeginBooks
  <2> QED
    BY <2>4, <2>5, <2>6 DEF Begins
<1>5. CASE \E want \in Pulls : AskWithdraw(h, want)
  <2>1. PICK want \in Pulls : \E p \in getPool :
          Start(h, [op |-> "withdraw", want |-> want], p, initiateWithdraw(p, want))
    BY <1>5 DEF AskWithdraw
  <2> PICK p \in getPool :
          Start(h, [op |-> "withdraw", want |-> want], p, initiateWithdraw(p, want))
    BY <2>1
  <2> DEFINE order == [op |-> "withdraw", want |-> want]
             todo == initiateWithdraw(p, want)
  <2>2. order.op = "withdraw" /\ order.want \in [Side -> Nat]
    BY PlayerAssumption
  <2>3. /\ p.variant = "CKB" => todo \in CkbTodos("withdraw")
        /\ p.variant # "CKB" => todo \in BeforeTreasury("withdraw")
    BY <1>2, ReadsAre DEF CkbTodos, BeforeTreasury, initiateWithdraw
  <2>6. Start(h, order, p, todo)
    OBVIOUS
  <2> HIDE DEF order, todo
  <2>4. ReadingFit(h, Begun(order, p, todo))
    BY <1>2, <2>2, <2>3, BeginFits DEF Ops, Begun
  <2>5. ReadingOk(h, Begun(order, p, todo)) /\ ReadingBooks(h, Begun(order, p, todo))
    BY <1>2, <1>3, <2>2, BeginBooks
  <2> QED
    BY <2>4, <2>5, <2>6 DEF Begins
<1>6. CASE AskRedeem(h)
  <2>1. PICK p \in getPool : Start(h, [op |-> "redeem"], p, initiateRedeem(p))
    BY <1>6 DEF AskRedeem
  <2> DEFINE order == [op |-> "redeem"]
             todo == initiateRedeem(p)
  <2>2. order.op = "redeem"
    OBVIOUS
  <2>3. /\ p.variant = "CKB" => todo \in CkbTodos("redeem")
        /\ p.variant # "CKB" => todo \in BeforeTreasury("redeem")
    BY <1>2, ReadsAre DEF CkbTodos, BeforeTreasury, initiateRedeem
  <2>6. Start(h, order, p, todo)
    BY <2>1
  <2>7. \A s \in Side : Due(p, s) => Asks(todo, s)
    <3> DEFINE S == IF refunds(p) THEN Side ELSE {p.winner}
    <3>1. todo = SideReads(S) \o IfXudt(p, "treasury")
      BY DEF initiateRedeem
    <3>2. \A s \in Side : Due(p, s) => s \in S
      BY DEF Due
    <3> HIDE DEF S, todo
    <3> QED
      BY <3>1, <3>2, ReadsAsk
  <2> HIDE DEF order, todo
  <2>4. ReadingFit(h, Begun(order, p, todo))
    BY <1>2, <2>2, <2>3, BeginFits DEF Ops, Begun
  <2>5. ReadingOk(h, Begun(order, p, todo)) /\ ReadingBooks(h, Begun(order, p, todo))
    BY <1>2, <1>3, <2>2, <2>7, BeginBooks
  <2> QED
    BY <2>4, <2>5, <2>6 DEF Begins
<1>7. CASE \E sides \in BurnSides : AskBurn(h, sides)
  <2>1. PICK sides : Start(h, [op |-> "burn", sides |-> sides], NoPool,
                           initiateBurnShares(sides))
    BY <1>7 DEF AskBurn
  <2> DEFINE order == [op |-> "burn", sides |-> sides]
             todo == initiateBurnShares(sides)
  <2>2. order.op = "burn" /\ order.sides = sides
    OBVIOUS
  <2>3. todo \in SideTodos /\ \A s \in Side : s \notin sides => ~Asks(todo, s)
    BY ReadsAre, ReadsAsk DEF initiateBurnShares
  <2>6. Start(h, order, NoPool, todo)
    BY <2>1
  <2> HIDE DEF order, todo
  <2>4. ReadingFit(h, Begun(order, NoPool, todo))
    BY <2>2, <2>3, BeginFits DEF Ops, PoolOps, Sides, Begun
  <2>5. ReadingOk(h, Begun(order, NoPool, todo)) /\ ReadingBooks(h, Begun(order, NoPool, todo))
    BY <2>2, <2>3, BeginBooks DEF ReadingOk, OnlyFirst, Ops, Begun
  <2> QED
    BY <2>4, <2>5, <2>6 DEF Begins
<1> QED
  BY <1>4, <1>5, <1>6, <1>7 DEF Ask

LEMMA CreateBegins ==
  ASSUME IInv, Fits, NEW r \in Rounds, draftCreate(r)
  PROVE  Begins(Creator)
<1> DEFINE order == [op |-> "create", round |-> r]
           todo == <<"plain">>
<1>1. Start(Creator, order, NoPool, todo) /\ ~born
  BY DEF draftCreate
<1>2. order.op = "create" /\ order.round \in Rounds /\ todo = <<"plain">>
  OBVIOUS
<1> HIDE DEF order, todo
<1>3. ReadingOk(Creator, Begun(order, NoPool, todo))
  BY <1>1, <1>2 DEF ReadingOk, OnlyFirst, Ops, Begun
<1>4. ReadingFit(Creator, Begun(order, NoPool, todo))
  BY <1>2, BeginFits DEF Ops, PoolOps, Sides, Begun
<1>5. ReadingBooks(Creator, Begun(order, NoPool, todo))
  BY <1>2, BeginBooks
<1> QED
  BY <1>1, <1>3, <1>4, <1>5 DEF Begins

LEMMA CloseBegins ==
  ASSUME IInv, Fits, draftClose
  PROVE  Begins(Creator)
<1>1. PICK p \in getPool : Start(Creator, [op |-> "close"], p, initiateClose(p))
  BY DEF draftClose
<1>3. p = pool /\ IsPool(p) /\ Sides(p) /\ p.variant \in {"CKB", "XUDT"}
  BY DEF getPool, Fits, LedgerSound, Sides, PoolSound
<1> DEFINE order == [op |-> "close"]
           todo == initiateClose(p)
<1>4. p.variant = "XUDT" => todo = <<"treasury", "plain", "header">>
  BY DEF initiateClose
<1>5. p.variant # "XUDT" => todo = <<"plain", "header">>
  BY DEF initiateClose
<1>6. p.variant # "XUDT" => Carried(p, {})
  BY <1>3 DEF IInv, PoolOk, Carried, OfKind, NoTreasury
<1>7. order.op = "close" /\ Start(Creator, order, p, todo)
  BY <1>1
<1> HIDE DEF order, todo
<1>8. ReadingOk(Creator, Begun(order, p, todo))
  BY <1>3, <1>4, <1>5, <1>6, <1>7 DEF ReadingOk, OnlyFirst, Ops, Begun
<1>9. ReadingFit(Creator, Begun(order, p, todo))
  BY <1>3, <1>4, <1>5, <1>7, BeginFits DEF Ops, CkbTodos, BeforeTreasury, Begun
<1>10. ReadingBooks(Creator, Begun(order, p, todo))
  BY <1>7, BeginBooks
<1> QED
  BY <1>7, <1>8, <1>9, <1>10 DEF Begins

\* A request that begins leaves the ledger alone.
LEMMA AskStill ==
  ASSUME NEW h, Ask(h)
  PROVE  UNCHANGED <<pool, cells>>
BY DEF Ask, AskDeposit, AskWithdraw, AskRedeem, AskBurn, AskMore, ledger

LEMMA BeginsFits ==
  ASSUME IInv, Fits, NEW who \in Players, Begins(who), UNCHANGED <<pool, cells>>
  PROVE  Fits'
BY StartFits DEF Begins, Begun

(***************************************************************************)
(* A read.                                                                 *)
(***************************************************************************)
LEMMA FoundIs ==
  ASSUME NEW who, NEW j, NEW read, NEW S \in Found(who, j, read)
  PROVE  /\ S \subseteq cells
         /\ \A c \in S : c.kind = read /\ (c.kind = "treasury" \/ c.owner = who)
         /\ read = "treasury" => /\ S = OfKind(cells, "treasury")
                                 /\ Cardinality(S) = 1
         /\ read = "plain" => \E c \in S : c.owner = who
         /\ read = "header" => S = {}
<1>1. \A k, T : CellsOf(T, k, who) \subseteq T
                /\ \A c \in CellsOf(T, k, who) : c.kind = k /\ c.owner = who
  BY DEF CellsOf
<1>2. CASE read \in Side
  <2> DEFINE own == CellsOf(cells, read, who)
  <2>0. S \in IF j.order.op = "withdraw" THEN selectShareInputs(own, j.order.want[read])
              ELSE {own}
    <3>1. CASE read = "UP"
      BY <3>1 DEF Found, Side
    <3>2. CASE read = "DOWN"
      BY <3>2 DEF Found, Side
    <3> QED
      BY <1>2, <3>1, <3>2 DEF Side
  <2>1. S \subseteq own
    <3> HIDE DEF own
    <3> QED
      BY <2>0 DEF selectShareInputs
  <2> QED
    BY <1>1, <1>2, <2>1 DEF Side
<1>3. CASE read = "treasury"
  <2>1. S \in findTreasuryCell
    BY <1>3 DEF Found, Side
  <2>2. S = OfKind(cells, "treasury") /\ Cardinality(S) = 1
    BY <2>1 DEF findTreasuryCell
  <2> QED
    BY <1>3, <2>2 DEF OfKind
<1>4. CASE read = "stake"
  <2>1. S \subseteq CellsOf(cells, "stake", who)
    BY <1>4 DEF Found, collectAssetCells, Side
  <2> QED
    BY <1>1, <1>4, <2>1
<1>5. CASE read = "plain"
  <2>1. PICK c \in CellsOf(cells, "plain", who) : S = {c}
    BY <1>5 DEF Found, Side
  <2>2. c \in cells /\ c.kind = "plain" /\ c.owner = who
    BY <1>1
  <2>3. S \subseteq cells /\ (\A d \in S : d.kind = "plain" /\ d.owner = who) /\ c \in S
    BY <2>1, <2>2
  <2>4. read # "treasury" /\ read # "header"
    BY <1>5
  <2> QED
    BY <1>5, <2>2, <2>3, <2>4
<1>6. CASE read = "header"
  BY <1>6 DEF Found, Side
<1>7. CASE read \notin Side \union {"treasury", "stake", "plain", "header"}
  BY <1>7 DEF Found
<1> QED
  BY <1>2, <1>3, <1>4, <1>5, <1>6, <1>7

LEMMA TodoSteps ==
  /\ \A t \in SideTodos : t # << >> => Head(t) \in Side /\ Tail(t) \in SideTodos
  /\ \A t \in PotTodos : \/ Head(t) = "treasury" /\ Tail(t) = << >>
                         \/ Head(t) \in Side /\ Tail(t) \in PotTodos
  /\ Head(<<"treasury", "stake">>) = "treasury"
  /\ Tail(<<"treasury", "stake">>) = <<"stake">>
  /\ Head(<<"stake">>) = "stake" /\ Tail(<<"stake">>) = << >>
  /\ Head(<<"treasury", "plain", "header">>) = "treasury"
  /\ Tail(<<"treasury", "plain", "header">>) = <<"plain", "header">>
  /\ Head(<<"plain", "header">>) = "plain" /\ Tail(<<"plain", "header">>) = <<"header">>
  /\ Head(<<"header">>) = "header" /\ Tail(<<"header">>) = << >>
  /\ Head(<<"plain">>) = "plain" /\ Tail(<<"plain">>) = << >>
<1>1. /\ Head(<<"UP">>) = "UP" /\ Tail(<<"UP">>) = << >>
      /\ Head(<<"DOWN">>) = "DOWN" /\ Tail(<<"DOWN">>) = << >>
      /\ Head(<<"treasury">>) = "treasury" /\ Tail(<<"treasury">>) = << >>
      /\ Head(<<"stake">>) = "stake" /\ Tail(<<"stake">>) = << >>
      /\ Head(<<"header">>) = "header" /\ Tail(<<"header">>) = << >>
      /\ Head(<<"plain">>) = "plain" /\ Tail(<<"plain">>) = << >>
  OBVIOUS
<1>2. /\ Head(<<"UP", "DOWN">>) = "UP" /\ Tail(<<"UP", "DOWN">>) = <<"DOWN">>
      /\ Head(<<"UP", "treasury">>) = "UP" /\ Tail(<<"UP", "treasury">>) = <<"treasury">>
      /\ Head(<<"DOWN", "treasury">>) = "DOWN" /\ Tail(<<"DOWN", "treasury">>) = <<"treasury">>
      /\ Head(<<"treasury", "stake">>) = "treasury" /\ Tail(<<"treasury", "stake">>) = <<"stake">>
      /\ Head(<<"plain", "header">>) = "plain" /\ Tail(<<"plain", "header">>) = <<"header">>
  OBVIOUS
<1>3. /\ Head(<<"UP", "DOWN", "treasury">>) = "UP"
      /\ Tail(<<"UP", "DOWN", "treasury">>) = <<"DOWN", "treasury">>
      /\ Head(<<"treasury", "plain", "header">>) = "treasury"
      /\ Tail(<<"treasury", "plain", "header">>) = <<"plain", "header">>
  OBVIOUS
<1>4. ASSUME NEW t \in SideTodos, t # << >>
      PROVE  Head(t) \in Side /\ Tail(t) \in SideTodos
  <2>1. CASE t = <<"UP">>
    BY <1>1, <2>1 DEF Side, SideTodos
  <2>2. CASE t = <<"DOWN">>
    BY <1>1, <2>2 DEF Side, SideTodos
  <2>3. CASE t = <<"UP", "DOWN">>
    BY <1>2, <2>3 DEF Side, SideTodos
  <2> QED
    BY <1>4, <2>1, <2>2, <2>3 DEF SideTodos
<1>5. ASSUME NEW t \in PotTodos
      PROVE  \/ Head(t) = "treasury" /\ Tail(t) = << >>
             \/ Head(t) \in Side /\ Tail(t) \in PotTodos
  <2>1. CASE t = <<"treasury">>
    BY <1>1, <2>1
  <2>2. CASE t = <<"UP", "treasury">>
    BY <1>2, <2>2 DEF Side, PotTodos
  <2>3. CASE t = <<"DOWN", "treasury">>
    BY <1>2, <2>3 DEF Side, PotTodos
  <2>4. CASE t = <<"UP", "DOWN", "treasury">>
    BY <1>3, <2>4 DEF Side, PotTodos
  <2> QED
    BY <1>5, <2>1, <2>2, <2>3, <2>4 DEF PotTodos
<1> QED
  BY <1>1, <1>2, <1>3, <1>4, <1>5

LEMMA ReadFitsOne ==
  ASSUME IInv, Fits, NEW who \in Players, NEW j, ReadingOk(who, j), ReadingFit(who, j),
         j.todo # << >>, NEW S \in Found(who, j, Head(j.todo)),
         NEW k, k.order = j.order, k.pool = j.pool, k.todo = Tail(j.todo),
         k.got = j.got \union S
  PROVE  ReadingFit(who, k)
<1> DEFINE read == Head(j.todo)
           op == j.order.op
<1>1. /\ S \subseteq cells
      /\ \A c \in S : c.kind = read /\ (c.kind = "treasury" \/ c.owner = who)
      /\ read = "treasury" => S = OfKind(cells, "treasury") /\ Cardinality(S) = 1
      /\ read = "plain" => \E c \in S : c.owner = who
      /\ read = "header" => S = {}
  BY FoundIs
<1> HIDE DEF read
<1>2. op \in Ops /\ (op \in PoolOps => j.pool.variant \in {"CKB", "XUDT"} /\ j.pool # NoPool)
  BY PoolIsSome DEF ReadingOk, ReadingFit, Sides, PoolSound, PoolOps
<1>3. Gathered(who, op, j.got) /\ TodoOk(j)
  BY DEF ReadingFit
<1>4. Good(S)
  BY <1>1, GoodParts DEF Fits, LedgerSound
<1>5. ASSUME read \in KindsOf(op) \union {"header"}
      PROVE  Gathered(who, op, k.got)
  BY <1>1, <1>3, <1>4, <1>5, GoodParts DEF Gathered
<1>6. ASSUME read # "treasury"
      PROVE  /\ NoTreasury(j.got) => NoTreasury(k.got)
             /\ OfKind(k.got, "treasury") = OfKind(j.got, "treasury")
  BY <1>1, <1>6 DEF NoTreasury, OfKind
<1>7. ASSUME read # "treasury", op \in PoolOps, TreasuryRead(j)
      PROVE  TreasuryRead(k)
  BY <1>6, <1>7 DEF TreasuryRead, Amount
<1>8. ASSUME read = "treasury", NoTreasury(j.got), op \in PoolOps, j.pool.variant = "XUDT"
      PROVE  TreasuryRead(k)
  <2>1. OfKind(k.got, "treasury") = OfKind(cells, "treasury")
    BY <1>1, <1>8 DEF NoTreasury, OfKind
  <2>2. Cardinality(OfKind(cells, "treasury")) = 1
    BY <1>1, <1>8
  <2>3. TreasuryTrue
    BY DEF Fits, LedgerSound
  <2> QED
    BY <1>2, <1>8, <2>1, <2>2, <2>3 DEF TreasuryRead, TreasuryTrue, Amount
<1>9. /\ Sides(k.pool)
      /\ op \in {"deposit", "withdraw"} => k.order.want \in [Side -> Nat]
      /\ op = "create" => k.order.round \in Rounds
      /\ op = "close" => who = Creator
  BY DEF ReadingFit
<1>10. CASE op = "burn"
  <2>1. read \in Side /\ k.todo \in SideTodos
    BY <1>3, <1>10, TodoSteps DEF TodoOk, read
  <2>2. Gathered(who, op, k.got)
    BY <1>5, <1>10, <2>1 DEF KindsOf
  <2>3. TodoOk(k)
    BY <1>10, <2>1 DEF TodoOk, PoolOps
  <2> QED
    BY <1>9, <2>2, <2>3 DEF ReadingFit
<1>11. CASE op = "create"
  <2>1. read = "plain" /\ k.todo = << >>
    BY <1>3, <1>11, TodoSteps DEF TodoOk, read
  <2>2. Gathered(who, op, k.got)
    BY <1>5, <1>11, <2>1 DEF KindsOf
  <2>3. TodoOk(k)
    BY <1>11, <2>1 DEF TodoOk, PoolOps
  <2> QED
    BY <1>9, <2>2, <2>3 DEF ReadingFit
<1>12. CASE op = "deposit"
  <2>1. /\ j.pool.variant = "XUDT"
        /\ \/ /\ read = "treasury" /\ k.todo = <<"stake">> /\ NoTreasury(j.got)
           \/ /\ read = "stake" /\ k.todo = << >> /\ TreasuryRead(j)
    BY <1>2, <1>3, <1>12, TodoSteps DEF TodoOk, PoolOps, CkbTodos, BeforeTreasury,
       AfterTreasury, read
  <2>2. Gathered(who, op, k.got)
    BY <1>5, <1>12, <2>1 DEF KindsOf
  <2>3. TreasuryRead(k)
    BY <1>7, <1>8, <1>12, <2>1 DEF PoolOps
  <2>4. TodoOk(k)
    BY <1>12, <2>1, <2>3 DEF TodoOk, AfterTreasury
  <2> QED
    BY <1>9, <2>2, <2>4 DEF ReadingFit
<1>13. CASE op \in {"withdraw", "redeem"}
  <2>1. CASE j.pool.variant = "CKB"
    <3>1. j.todo \in SideTodos /\ NoTreasury(j.got)
      BY <1>3, <1>13, <2>1 DEF TodoOk, PoolOps, CkbTodos
    <3>2. read \in Side /\ k.todo \in SideTodos
      BY <3>1, TodoSteps DEF read
    <3>3. Gathered(who, op, k.got)
      BY <1>5, <1>13, <3>2 DEF KindsOf
    <3>4. NoTreasury(k.got)
      BY <1>6, <3>1, <3>2 DEF Side
    <3>5. TodoOk(k)
      BY <1>13, <2>1, <3>2, <3>4 DEF TodoOk, CkbTodos
    <3> QED
      BY <1>9, <3>3, <3>5 DEF ReadingFit
  <2>2. CASE j.pool.variant = "XUDT"
    <3>1. j.todo \in PotTodos /\ NoTreasury(j.got)
      BY <1>3, <1>13, <2>2 DEF TodoOk, PoolOps, BeforeTreasury, AfterTreasury
    <3>2. \/ read = "treasury" /\ k.todo = << >>
          \/ read \in Side /\ k.todo \in PotTodos
      BY <3>1, TodoSteps DEF read
    <3>3. Gathered(who, op, k.got)
      BY <1>5, <1>13, <3>2 DEF KindsOf
    <3>4. CASE read = "treasury" /\ k.todo = << >>
      <4>1. TreasuryRead(k)
        BY <1>8, <1>13, <2>2, <3>1, <3>4 DEF PoolOps
      <4>2. TodoOk(k)
        BY <1>13, <2>2, <3>4, <4>1 DEF TodoOk, AfterTreasury
      <4> QED
        BY <1>9, <3>3, <4>2 DEF ReadingFit
    <3>5. CASE read \in Side /\ k.todo \in PotTodos
      <4>1. NoTreasury(k.got)
        BY <1>6, <3>1, <3>5 DEF Side
      <4>2. TodoOk(k)
        BY <1>13, <2>2, <3>5, <4>1 DEF TodoOk, BeforeTreasury
      <4> QED
        BY <1>9, <3>3, <4>2 DEF ReadingFit
    <3> QED
      BY <3>2, <3>4, <3>5
  <2> QED
    BY <1>2, <1>13, <2>1, <2>2 DEF PoolOps
<1>14. CASE op = "close"
  <2>1. \/ /\ read = "treasury" /\ k.todo = <<"plain", "header">> /\ NoTreasury(j.got)
           /\ j.pool.variant = "XUDT"
        \/ /\ read = "plain" /\ k.todo = <<"header">>
           /\ IF j.pool.variant = "CKB" THEN NoTreasury(j.got) ELSE TreasuryRead(j)
        \/ /\ read = "header" /\ k.todo = << >> /\ \E c \in j.got : c.owner = Creator
           /\ IF j.pool.variant = "CKB" THEN NoTreasury(j.got) ELSE TreasuryRead(j)
    BY <1>2, <1>3, <1>14, TodoSteps DEF TodoOk, PoolOps, CkbTodos, BeforeTreasury,
       AfterTreasury, read
  <2>2. Gathered(who, op, k.got)
    BY <1>5, <1>14, <2>1 DEF KindsOf
  <2>3. IF j.pool.variant = "CKB" THEN NoTreasury(k.got) ELSE TreasuryRead(k)
    BY <1>6, <1>7, <1>8, <1>14, <2>1 DEF PoolOps
  <2>4. k.todo \in {<<"header">>, << >>} => \E c \in k.got : c.owner = Creator
    <3>1. k.todo = <<"plain", "header">> => k.todo \notin {<<"header">>, << >>}
      <4>1. <<"plain", "header">> # << >> /\ Head(<<"plain", "header">>) # Head(<<"header">>)
        BY TodoSteps
      <4> QED
        BY <4>1
    <3> QED
      BY <1>1, <1>9, <1>14, <2>1, <3>1
  <2>5. TodoOk(k)
    BY <1>14, <2>1, <2>3, <2>4 DEF TodoOk, CkbTodos, AfterTreasury
  <2> QED
    BY <1>9, <2>2, <2>5 DEF ReadingFit
<1> QED
  BY <1>2, <1>10, <1>11, <1>12, <1>13, <1>14 DEF Ops

LEMMA ReadFits ==
  ASSUME IInv, Fits, NEW who \in Players, Read(who)
  PROVE  Fits'
<1> DEFINE j == job[who]
           read == Head(j.todo)
           after(S) == [j EXCEPT !.todo = Tail(@), !.got = @ \union S,
                                 !.header = @ \/ (read = "header" /\ late)]
           next == UNION {Built(who, after(S)) : S \in Found(who, j, read)}
<1>1. ReadingOk(who, j) /\ j.todo # << >> /\ ReadingFit(who, j)
  <2>1. JobOk(who, j) /\ j.at = "reading" /\ JobFit(who, j)
    BY DEF Read, IInv, JobsOk, Fits
  <2> HIDE DEF j
  <2> QED
    BY <2>1 DEF JobOk, Idle, SendingOk, JobFit
<1>2. ASSUME NEW S \in Found(who, j, read)
      PROVE  ReadingOk(who, after(S)) /\ ReadingFit(who, after(S))
  <2> DEFINE k == after(S)
  <2>1. /\ k.order = j.order /\ k.pool = j.pool
        /\ k.todo = Tail(j.todo) /\ k.got = j.got \union S
    BY <1>1 DEF ReadingOk
  <2>2. ReadingOk(who, k)
    BY <1>1, ReadIsOk
  <2> HIDE DEF k, j
  <2>3. ReadingFit(who, k)
    BY <1>1, <2>1, ReadFitsOne
  <2> QED
    BY <2>2, <2>3 DEF k
<1>3. GoOn(who, next) /\ UNCHANGED <<pool, cells>>
  BY DEF Read, ledger
<1> HIDE DEF after
<1>4. \A k \in next : JobFit(who, k)
  BY <1>2, BuiltFits
<1> QED
  BY <1>3, <1>4, GoOnFits

(***************************************************************************)
(* Completion.                                                             *)
(***************************************************************************)
LEMMA CompletedHeader ==
  ASSUME NEW op, NEW who, NEW tx, TxFor(op, tx), NEW t \in completeFeeAndChange(who, tx)
  PROVE  t.header = tx.header
<1> DEFINE fuel == {Out("plain", who, 0) : c \in OfKind(tx.ins, "plain")}
           back == [tx EXCEPT !.outs = @ \union fuel]
           lack == Lacking(tx)
           more == IF lack > 0 THEN collectAssetCells(CellsOf(cells, "stake", who), lack)
                   ELSE {{}}
<1>1. DOMAIN back = DOMAIN tx /\ back.header = tx.header
  BY DEF TxFor
<1>2. CASE ~IsCkb(tx)
  <2>1. t = back
    BY <1>2 DEF completeFeeAndChange
  <2> QED
    BY <1>1, <2>1
<1>3. CASE IsCkb(tx)
  <2>1. PICK P \in more : t = [back EXCEPT !.ins = @ \union P,
                                          !.outs = @ \union OutIf("stake", who, Total(P) - lack)]
    BY <1>3 DEF completeFeeAndChange
  <2> HIDE DEF back, lack, more
  <2> QED
    BY <1>1, <2>1 DEF TxFor
<1> QED
  BY <1>2, <1>3

LEMMA CompleteFits ==
  ASSUME IInv, Fits, NEW who \in Players, Complete(who)
  PROVE  Fits'
<1> DEFINE j == job[who]
           with(tx) == [j EXCEPT !.at = "complete", !.tx = tx]
           next == {with(tx) : tx \in completeFeeAndChange(who, j.tx)}
<1>1. SendingOk(who, j) /\ SendingFit(who, j) /\ j.at = "draft"
  <2>1. JobOk(who, j) /\ j.at = "draft" /\ JobFit(who, j)
    BY DEF Complete, IInv, JobsOk, Fits
  <2> HIDE DEF j
  <2> QED
    BY <2>1 DEF JobOk, Idle, ReadingOk, JobFit
<1>2. ASSUME NEW tx \in completeFeeAndChange(who, j.tx)
      PROVE  JobFit(who, with(tx))
  <2> DEFINE k == with(tx)
  <2>1. /\ k.at = "complete" /\ k.order = j.order /\ k.tx = tx
    BY <1>1 DEF SendingOk
  <2> HIDE DEF k
  <2>2. TxFor(j.order.op, j.tx)
    BY <1>1 DEF SendingOk
  <2>3. tx.prev = j.tx.prev /\ tx.next = j.tx.next /\ tx.header = j.tx.header
    BY <2>2, CompletedIs, CompletedHeader
  <2>4. Sides(j.tx.prev) /\ Sides(j.tx.next) /\ Good(cells)
    BY <1>1 DEF SendingFit, Fits, LedgerSound
  <2>5. ASSUME Stands(j.tx, who)
        PROVE  Accepts(tx, who) /\ Good(tx.outs)
    BY <2>2, <2>4, <2>5, CompletedStands DEF Sides
  <2>6. SendingFit(who, k)
    BY <1>1, <2>1, <2>3, <2>4, <2>5 DEF SendingFit
  <2> QED
    BY <2>1, <2>6 DEF JobFit, k
<1>3. GoOn(who, next) /\ UNCHANGED <<pool, cells>>
  BY DEF Complete, ledger
<1> HIDE DEF with
<1>4. \A k \in next : JobFit(who, k)
  BY <1>2
<1> QED
  BY <1>3, <1>4, GoOnFits

(***************************************************************************)
(* A transaction lands that others may have drafted from older reads.      *)
(***************************************************************************)
LEMMA LandFits ==
  ASSUME IInv, Fits, NEW op, NEW tx, NEW who, TxFor(op, tx), Accepts(tx, who),
         Good(tx.outs), Sides(tx.prev), Sides(tx.next), Land(tx, SeenPools, SeenCells)
  PROVE  /\ LedgerSound'
         /\ \A w \in Players : job'[w] = job[w] => JobFit(w, job[w])'
<1>1. LedgerSound'
  BY LandSound DEF Accepts, TxFor, Fits
<1>2. ASSUME NEW w \in Players, job'[w] = job[w]
      PROVE  JobFit(w, job[w])'
  BY <1>2, LandUnmoved, OthersFit DEF Fits
<1> QED
  BY <1>1, <1>2

LEMMA SendFits ==
  ASSUME IInv, Fits, NEW who \in Players, signAndSend(who)
  PROVE  Fits'
<1> DEFINE j == job[who]
           tx == j.tx
<1>1. SendingOk(who, j) /\ SendingFit(who, j) /\ j.at = "complete"
  <2>1. JobOk(who, j) /\ j.at = "complete" /\ JobFit(who, j)
    BY DEF signAndSend, IInv, JobsOk, Fits
  <2> HIDE DEF j
  <2> QED
    BY <2>1 DEF JobOk, Idle, ReadingOk, JobFit
<1>2. \A w \in Players : job'[w] = IF w = who THEN Idle ELSE job[w]
  BY DEF signAndSend, IInv, JobsOk
<1>3. JobFit(who, job[who])'
  BY <1>2 DEF JobFit, Idle
<1>4. CASE Lands(who)
  <2>1. Land(tx, SeenPools, SeenCells) /\ Accepts(tx, who) /\ tx.prev \in {NoPool, pool}
    BY <1>4 DEF signAndSend, Lands, Live
  <2>2. TxFor(j.order.op, tx) /\ Sides(tx.prev) /\ Sides(tx.next)
    BY <1>1 DEF SendingOk, SendingFit
  <2>3. Good(tx.outs)
    <3>1. j.order.op = "close" => tx.header
      BY <1>1, <2>1 DEF SendingFit, Accepts, pool_type, validate_close
    <3> QED
      BY <1>1, <2>1, <3>1 DEF SendingFit
  <2> HIDE DEF j, tx
  <2>4. LedgerSound' /\ \A w \in Players : job'[w] = job[w] => JobFit(w, job[w])'
    BY <2>1, <2>2, <2>3, LandFits
  <2> QED
    BY <1>2, <1>3, <2>4 DEF Fits
<1>5. CASE ~Lands(who)
  <2>1. pool' = pool /\ cells' = cells
    BY <1>5 DEF signAndSend
  <2>2. ASSUME NEW w \in Players, w # who
        PROVE  JobFit(w, job[w])'
    BY <1>2, <2>1, <2>2, OthersFit DEF Fits, Unmoved
  <2>3. LedgerSound'
    BY <2>1 DEF Fits, LedgerSound, TreasuryTrue
  <2> QED
    BY <1>2, <1>3, <2>2, <2>3 DEF Fits
<1> QED
  BY <1>4, <1>5

(***************************************************************************)
(* The rest of the world.                                                  *)
(***************************************************************************)
LEMMA TransitionIs ==
  ASSUME IInv, Fits, Transition
  PROVE  \E tx : /\ Accepts(tx, Creator) /\ Land(tx, SeenPools, SeenCells) /\ job' = job
                 /\ TxFor("outside", tx)
                 /\ tx.prev = pool /\ tx.ins = {} /\ tx.outs = {}
                 /\ PoolSound(pool) /\ PoolSound(tx.next)
                 /\ <<pool.status, tx.next.status>> \in PhaseSteps
                 /\ \A f \in {"total", "capacity", "rake_bps"} : tx.next[f] = pool[f]
<1>1. PICK step \in PhaseSteps, w \in Side \union {"VOID", "UNDECIDED"} :
        LET q == [pool EXCEPT !.status = step[2], !.winner = w]
            tx == attachCodeDep(Tx(pool, q, {}, {}), {"pool_type", "pool_admin_lock"})
        IN  /\ pool.status = step[1]
            /\ step = <<"OPEN", "LOCKED">> => ~OneSided(pool)
            /\ Accepts(tx, Creator)
            /\ Land(tx, SeenPools, SeenCells)
            /\ UNCHANGED job
  BY DEF Transition
<1> DEFINE q == [pool EXCEPT !.status = step[2], !.winner = w]
           tx == attachCodeDep(Tx(pool, q, {}, {}), {"pool_type", "pool_admin_lock"})
<1>2. /\ pool.status = step[1]
      /\ step = <<"OPEN", "LOCKED">> => ~OneSided(pool)
      /\ Accepts(tx, Creator) /\ Land(tx, SeenPools, SeenCells) /\ job' = job
  BY <1>1
<1>3. /\ pool.status # "NONE" /\ step[2] # "NONE"
      /\ <<step[1], step[2]>> \in PhaseSteps
  BY <1>1 DEF PhaseSteps
<1>4. PoolSound(pool)
  BY <1>3 DEF Fits, LedgerSound, Sides, NoPool
<1>5. /\ q.status = step[2] /\ q.winner = w
      /\ DOMAIN q = DOMAIN pool
      /\ \A f \in DOMAIN pool \ {"status", "winner"} : q[f] = pool[f]
  BY <1>4 DEF PoolSound, IsPool
<1> HIDE DEF q
<1>6. /\ q.variant = pool.variant /\ q.total = pool.total /\ q.capacity = pool.capacity
      /\ q.rake_bps = pool.rake_bps
  BY <1>4, <1>5 DEF PoolSound, IsPool
<1>7. PoolSound(q)
  <2>1. q.status \in {"LOCKED", "SETTLED", "FINALIZED"} => ~OneSided(pool)
    BY <1>2, <1>4, <1>5 DEF PoolSound, PhaseSteps
  <2> QED
    BY <1>3, <1>4, <1>5, <1>6, <2>1 DEF PoolSound, IsPool, OneSided
<1>8. TxFor("outside", tx)
  BY <1>4, <1>6, <1>7, Continues, PlainOuts DEF PoolSound
<1>9. tx.prev = pool /\ tx.next = q /\ tx.outs = {} /\ tx.ins = {}
  BY TxIs
<1> HIDE DEF tx
<1>10. <<pool.status, tx.next.status>> \in PhaseSteps
  BY <1>2, <1>3, <1>5, <1>9
<1> QED
  BY <1>2, <1>4, <1>6, <1>7, <1>8, <1>9, <1>10

LEMMA TransitionFits ==
  ASSUME IInv, Fits, Transition
  PROVE  Fits'
<1>1. PICK tx : /\ Accepts(tx, Creator) /\ Land(tx, SeenPools, SeenCells) /\ job' = job
                /\ TxFor("outside", tx)
                /\ tx.prev = pool /\ tx.outs = {}
                /\ PoolSound(pool) /\ PoolSound(tx.next)
  BY TransitionIs
<1>2. LedgerSound' /\ \A w \in Players : job'[w] = job[w] => JobFit(w, job[w])'
  BY <1>1, LandFits, TotalNone DEF Sides
<1> QED
  BY <1>1, <1>2 DEF Fits

\* The deposit of other software is paid in full by the holder who signs it.
LEMMA ForeignIs ==
  ASSUME IInv, Fits, NEW h \in Holders, NEW want \in Stakes[h], ForeignDeposit(h, want)
  PROVE  \E tx : /\ Accepts(tx, h) /\ Land(tx, SeenPools, SeenCells) /\ job' = job
                 /\ TxFor("outside", tx)
                 /\ tx.prev = pool /\ tx.ins \subseteq cells
                 /\ PoolSound(pool) /\ PoolSound(tx.next)
                 /\ pool.status = "OPEN" /\ tx.next.status = "OPEN"
                 /\ \A s \in Side : tx.next.total[s] = pool.total[s] + want[s]
                 /\ want \in [Side -> Nat]
                 /\ Owned(tx, h) /\ Even(tx)
                 /\ PotOut(tx) = PotIn(tx) + Staked(tx.next)
<1> DEFINE next == Continue(pool, want, pool.capacity)
           outs(S) == Minted(h, want)
                        \union {Out("treasury", "pool", Staked(next))}
                        \union OutIf("stake", h, Total(S) - Staked(next))
           made(S) == attachCodeDep(Tx(pool, next, S, outs(S)),
                                    PoolDeps(pool) \union {"share_xudt"})
<1>1. PICK S \in collectAssetCells(CellsOf(cells, "stake", h), Staked(next)) :
        Accepts(made(S), h) /\ Land(made(S), SeenPools, SeenCells)
  BY DEF ForeignDeposit
<1>2. pool.status = "OPEN" /\ pool.variant = "XUDT" /\ job' = job
  BY DEF ForeignDeposit
<1>3. /\ PoolSound(pool) /\ pool.capacity \in Int /\ pool.capacity = 0
      /\ want \in [Side -> Nat]
  BY <1>2, PlayerAssumption DEF Fits, LedgerSound, Sides, NoPool, PoolSound
<1>4. pool.total \in [Side -> Nat] /\ \A s \in Side : pool.total[s] + want[s] \in Nat
  BY <1>3 DEF PoolSound
<1>5. /\ PoolSound(next) /\ next.variant = pool.variant /\ next.status = "OPEN"
      /\ next.total \in [Side -> Nat] /\ next.capacity = 0
      /\ \A s \in Side : next.total[s] = pool.total[s] + want[s]
  BY <1>2, <1>3, <1>4, ContinueSound DEF PoolSound
<1>6. Staked(next) \in Nat
  BY <1>5 DEF Staked, Side
<1>7. /\ Good(S) /\ Total(S) \in Nat /\ Total(S) >= Staked(next)
      /\ S \subseteq cells /\ \A c \in S : c.kind = "stake" /\ c.owner = h
  <2>1. S \subseteq CellsOf(cells, "stake", h) /\ Total(S) >= Staked(next)
    BY <1>1 DEF collectAssetCells
  <2>2. S \subseteq cells /\ \A c \in S : c.kind = "stake" /\ c.owner = h
    BY <2>1 DEF CellsOf
  <2>3. Good(S)
    BY <2>2, GoodParts DEF Fits, LedgerSound
  <2> QED
    BY <2>1, <2>2, <2>3, TotalNat
<1> DEFINE tx == made(S)
           over == Total(S) - Staked(next)
<1> HIDE DEF next
<1>8. /\ Good(outs(S))
      /\ Amount(outs(S), "stake") = over /\ Amount(outs(S), "treasury") = Staked(next)
      /\ \A c \in outs(S) : Shaped(c) /\ (c.kind = "treasury" \/ c.owner = h)
  <2> DEFINE minted == Minted(h, want)
             pay == {Out("treasury", "pool", Staked(next))}
             back == OutIf("stake", h, over)
  <2>0. over \in Nat
    BY <1>6, <1>7
  <2>1. /\ Good(pay) /\ Total(pay) = Staked(next)
        /\ \A i : OfKind(pay, i) = IF i = "treasury" THEN pay ELSE {}
    BY <1>6, OutIs DEF Side
  <2>2. /\ Good(back) /\ Total(back) = over
        /\ \A i : OfKind(back, i) = IF i = "stake" THEN back ELSE {}
    BY <2>0, OutIfIs
  <2>3. Good(minted) /\ \A k : k \notin Side => OfKind(minted, k) = {}
    BY <1>3, MintedIs
  <2>4. /\ \A c \in minted : Shaped(c) /\ c.owner = h
        /\ \A c \in pay : Shaped(c) /\ c.kind = "treasury"
        /\ \A c \in back : Shaped(c) /\ c.owner = h
    BY ShapedOuts
  <2>5. outs(S) = (minted \union pay) \union back
    OBVIOUS
  <2> HIDE DEF minted, pay, back, outs, over
  <2>6. Good(outs(S))
    <3>1. Good(minted \union pay)
      BY <2>1, <2>3, GoodParts
    <3> QED
      BY <2>2, <2>5, <3>1, GoodParts
  <2>7. \A k : OfKind(outs(S), k) = (OfKind(minted, k) \union OfKind(pay, k)) \union OfKind(back, k)
    BY <2>5 DEF OfKind
  <2>8. OfKind(outs(S), "stake") = back
    BY <2>1, <2>2, <2>3, <2>7 DEF Side
  <2>9. OfKind(outs(S), "treasury") = pay
    BY <2>1, <2>2, <2>3, <2>7 DEF Side
  <2> QED
    BY <2>1, <2>2, <2>4, <2>5, <2>6, <2>8, <2>9 DEF Amount
<1> HIDE DEF outs
<1>9. TxFor("outside", tx)
  BY <1>2, <1>3, <1>5, Continues DEF PoolSound
<1>10. tx.prev = pool /\ tx.next = next /\ tx.outs = outs(S) /\ tx.ins = S
  BY TxIs
<1>11. Accepts(tx, h) /\ Land(tx, SeenPools, SeenCells)
  BY <1>1
<1> HIDE DEF tx
<1>12. Owned(tx, h)
  BY <1>7, <1>8, <1>10 DEF Owned
<1>13. Amount(tx.ins, "stake") = Total(S) /\ Amount(tx.ins, "treasury") = 0
  <2>1. OfKind(S, "stake") = S /\ OfKind(S, "treasury") = {}
    BY <1>7, Kinds
  <2> QED
    BY <1>10, <2>1, TotalNone DEF Amount
<1>14. pool # NoPool /\ next # NoPool
  BY <1>3, <1>5, PoolIsSome DEF PoolSound
<1>15. Even(tx)
  <2>1. StakeIn(tx) = Total(S) + 0 + 0
    BY <1>3, <1>10, <1>13, <1>14 DEF StakeIn
  <2>2. StakeOut(tx) = over + Staked(next) + 0
    BY <1>5, <1>8, <1>10, <1>14 DEF StakeOut
  <2> DEFINE a == Total(S)
             b == Staked(next)
  <2>3. a \in Nat /\ b \in Nat /\ StakeIn(tx) = a + 0 + 0 /\ StakeOut(tx) = (a - b) + b + 0
    BY <1>6, <1>7, <2>1, <2>2
  <2> HIDE DEF a, b
  <2> QED
    BY <2>3 DEF Even
<1>16. PotOut(tx) = PotIn(tx) + Staked(tx.next)
  <2>1. PotOut(tx) = Staked(next) + 0 /\ PotIn(tx) = 0 + 0
    BY <1>3, <1>5, <1>8, <1>10, <1>13, <1>14 DEF PotOut, PotIn, Cap
  <2> QED
    BY <1>6, <1>10, <2>1
<1> QED
  BY <1>2, <1>3, <1>5, <1>7, <1>9, <1>10, <1>11, <1>12, <1>15, <1>16

LEMMA ForeignFits ==
  ASSUME IInv, Fits, NEW h \in Holders, NEW want \in Stakes[h], ForeignDeposit(h, want)
  PROVE  Fits'
<1>1. PICK tx : /\ Accepts(tx, h) /\ Land(tx, SeenPools, SeenCells) /\ job' = job
                /\ TxFor("outside", tx)
                /\ tx.prev = pool /\ PoolSound(pool) /\ PoolSound(tx.next)
                /\ Owned(tx, h)
  BY ForeignIs
<1>2. LedgerSound' /\ \A w \in Players : job'[w] = job[w] => JobFit(w, job[w])'
  BY <1>1, LandFits DEF Owned, Sides
<1> QED
  BY <1>1, <1>2 DEF Fits

LEMMA FitsInit ==
  ASSUME Init
  PROVE  Fits
<1> DEFINE purse(h) == {[kind |-> "stake", owner |-> h, amount |-> a, n |-> 0] : a \in Purses[h]}
           plain == [kind |-> "plain", owner |-> Creator, amount |-> 0, n |-> 0]
           all == {purse(h) : h \in Holders}
           f == [h \in Holders |-> purse(h)]
<1>1. ASSUME NEW h \in Holders
      PROVE  IsFiniteSet(purse(h))
  <2> DEFINE g == [a \in Purses[h] |-> [kind |-> "stake", owner |-> h, amount |-> a, n |-> 0]]
  <2>1. g \in Surjection(Purses[h], purse(h))
    BY DEF Surjection
  <2>2. IsFiniteSet(Purses[h])
    BY PlayerAssumption
  <2> QED
    BY <2>1, <2>2, FS_Surjection
<1>2. IsFiniteSet(all)
  <2>1. f \in Surjection(Holders, all)
    BY DEF Surjection
  <2> QED
    BY <2>1, LedgerAssumption, FS_Surjection
<1>3. IsFiniteSet(UNION all)
  <2>1. \A T \in all : IsFiniteSet(T)
    BY <1>1
  <2> HIDE DEF all
  <2> QED
    BY <1>2, <2>1, FS_UNION
<1>4. \A c \in UNION all : c.kind = "stake" /\ c.amount \in Nat
  BY PlayerAssumption
<1>5. cells = {plain} \union UNION all
  BY DEF Init
<1>6. plain.kind = "plain" /\ plain.amount = 0
  OBVIOUS
<1> HIDE DEF all, plain
<1>7. IsFiniteSet({plain}) /\ IsFiniteSet({plain} \union UNION all)
  BY <1>3, FS_Singleton, FS_Union
<1>8. Good(cells)
  BY <1>4, <1>5, <1>6, <1>7 DEF Good, Side
<1>9. pool = NoPool /\ \A who \in Players : job[who] = Idle
  BY DEF Init
<1> QED
  BY <1>8, <1>9 DEF Fits, LedgerSound, Sides, TreasuryTrue, JobFit, Idle

(***************************************************************************)
(* The books stay true and every draft in flight stays acceptable, whoever *)
(* moves.                                                                  *)
(***************************************************************************)
THEOREM FitsInductive ==
  ASSUME IInv, Fits, [Next]_vars
  PROVE  Fits'
<1>1. CASE \E h \in Holders : Ask(h)
  <2>1. PICK h \in Holders : Ask(h)
    BY <1>1
  <2>2. UNCHANGED <<pool, cells>>
    BY <2>1, AskStill
  <2> QED
    BY <2>1, <2>2, AskBegins, BeginsFits DEF Players
<1>2. CASE \E r \in Rounds : draftCreate(r)
  BY <1>2, CreateBegins, BeginsFits DEF Players, draftCreate, KeeperAsks, ledger
<1>3. CASE draftClose
  BY <1>3, CloseBegins, BeginsFits DEF Players, draftClose, KeeperAsks, ledger
<1>4. CASE \E who \in Players : Serve(who)
  BY <1>4, ReadFits, CompleteFits, SendFits DEF Serve
<1>5. CASE Transition
  BY <1>5, TransitionFits
<1>6. ASSUME UNCHANGED <<pool, cells, job>>
      PROVE  Fits'
  BY <1>6 DEF Fits, LedgerSound, TreasuryTrue, JobFit, ReadingFit, SendingFit, TodoOk, TreasuryRead
<1>7. CASE TimePasses
  BY <1>6, <1>7 DEF TimePasses
<1>8. CASE \E h \in Holders : \E want \in Stakes[h] : ForeignDeposit(h, want)
  BY <1>8, ForeignFits
<1>9. CASE UNCHANGED vars
  BY <1>6, <1>9 DEF vars, ledger
<1> QED
  BY <1>1, <1>2, <1>3, <1>4, <1>5, <1>7, <1>8, <1>9 DEF Next

(***************************************************************************)
(* What workflows.ts drafts the contracts accept: a completed draft whose  *)
(* inputs are all live when it is sent breaks no rule of the scripts, of   *)
(* the asset or of the node, and points to all the code that runs, however *)
(* old the reads it is built from and whatever landed between them.        *)
(***************************************************************************)
THEOREM DraftsAreAccepted == Spec => []DraftsStand
<1>1. Init => IInv /\ Fits
  BY InitIs, FitsInit
<1>2. IInv /\ Fits /\ [Next]_vars => IInv' /\ Fits'
  BY Inductive, FitsInductive
<1>3. Fits => DraftsStand
  <2> SUFFICES ASSUME Fits, NEW who \in Players, job[who].at = "complete",
                      Live(job[who].tx), job[who].order.op = "close" => job[who].tx.header
               PROVE  Accepts(job[who].tx, who)
    BY DEF DraftsStand
  <2> QED
    BY DEF Fits, JobFit, SendingFit, Live
<1> QED
  BY <1>1, <1>2, <1>3, PTL DEF Spec

(***************************************************************************)
(* The books of Accounts.  The rest of the module shows that the cells     *)
(* keep them: what one transaction adds to the account of its owner, that  *)
(* every draft still does what was ordered when it lands, and that each    *)
(* step of Player is then a step of Accounts.                              *)
(*                                                                         *)
(* Cells that are made get out-points nobody has: none of them merge, and  *)
(* what they hold adds up.                                                 *)
(***************************************************************************)
LEMMA TotalsMatch ==
  ASSUME NEW S, Good(S), NEW old,
         \A c \in S : Shaped(c)
  PROVE  LET P == {Placed(c, old) : c \in S}
         IN  Good(P) /\ Total(P) = Total(S)
<1> DEFINE P == {Placed(c, old) : c \in S}
           put == [c \in S |-> Placed(c, old)]
           f == [u \in Units(S) |-> <<Placed(u[1], old), u[2]>>]
<1>1. \A c \in S : /\ Placed(c, old).kind = c.kind /\ Placed(c, old).owner = c.owner
                   /\ Placed(c, old).amount = c.amount
  BY DEF Placed
<1>2. \A c, d \in S : Placed(c, old) = Placed(d, old) => c = d
  <2> SUFFICES ASSUME NEW c \in S, NEW d \in S, Placed(c, old) = Placed(d, old)
               PROVE  c = d
    OBVIOUS
  <2>1. c.kind = d.kind /\ c.owner = d.owner /\ c.amount = d.amount
    BY <1>1
  <2>2. c = Out(c.kind, c.owner, c.amount) /\ d = Out(d.kind, d.owner, d.amount)
    BY DEF Shaped
  <2> QED
    BY <2>1, <2>2
<1>3. put \in Surjection(S, P)
  BY DEF Surjection
<1>4. Good(P)
  <2>1. IsFiniteSet(P)
    BY <1>3, FS_Surjection DEF Good
  <2> QED
    BY <1>1, <2>1 DEF Good
<1>5. Units(S) = {u \in S \X Nat : u[2] \in 1 .. u[1].amount}
  BY DEF Units, Good
<1>6. f \in Bijection(Units(S), Units(P))
  <2>1. \A u \in Units(S) : f[u] \in Units(P)
    <3> TAKE u \in Units(S)
    <3>1. u[1] \in S /\ u[2] \in 1 .. u[1].amount
      BY <1>5
    <3>2. Placed(u[1], old) \in P /\ u[2] \in 1 .. Placed(u[1], old).amount
      BY <1>1, <3>1
    <3> QED
      BY <3>2 DEF Units
  <2>2. \A u, v \in Units(S) : f[u] = f[v] => u = v
    <3> SUFFICES ASSUME NEW u \in Units(S), NEW v \in Units(S), f[u] = f[v]
                 PROVE  u = v
      OBVIOUS
    <3>1. u \in S \X Nat /\ v \in S \X Nat
      BY <1>5
    <3>2. Placed(u[1], old) = Placed(v[1], old) /\ u[2] = v[2]
      OBVIOUS
    <3>3. u[1] = v[1]
      BY <1>2, <3>1, <3>2
    <3> QED
      BY <3>1, <3>2, <3>3
  <2>3. \A w \in Units(P) : \E u \in Units(S) : f[u] = w
    <3> TAKE w \in Units(P)
    <3>1. PICK c \in S : w \in {Placed(c, old)} \X (1 .. Placed(c, old).amount)
      BY DEF Units
    <3>2. w = <<Placed(c, old), w[2]>> /\ w[2] \in 1 .. c.amount
      BY <1>1, <3>1
    <3>3. <<c, w[2]>> \in Units(S)
      BY <3>2 DEF Units
    <3>4. f[<<c, w[2]>>] = w
      BY <3>2, <3>3
    <3> QED
      BY <3>3, <3>4
  <2>4. f \in [Units(S) -> Units(P)]
    BY <2>1
  <2> HIDE DEF f, P
  <2> QED
    BY <2>2, <2>3, <2>4 DEF Bijection, Injection, Surjection, IsInjective
<1>7. Cardinality(Units(S)) = Cardinality(Units(P))
  <2>1. IsFiniteSet(Units(S)) /\ IsFiniteSet(Units(P))
    BY <1>4, UnitsFinite
  <2> HIDE DEF f, P
  <2> QED
    BY <1>6, <2>1, FS_Bijection DEF ExistsBijection
<1> QED
  BY <1>4, <1>7 DEF Total, Units

\* One account, or one kind, before and after a transaction lands.
LEMMA PartMoves ==
  ASSUME NEW B, Good(B), NEW I, I \subseteq B, NEW O, Good(O), \A c \in O : Shaped(c),
         NEW old,
         LET M == {Placed(c, old) : c \in O} IN M \cap (B \ I) = {}
  PROVE  LET M == {Placed(c, old) : c \in O}
         IN  Total((B \ I) \union M) = Total(B) - Total(I) + Total(O)
<1> DEFINE M == {Placed(c, old) : c \in O}
           K == B \ I
<1>1. Good(M) /\ Total(M) = Total(O)
  BY TotalsMatch
<1>2. M \cap K = {}
  OBVIOUS
<1> HIDE DEF M
<1>3. B = K \union I /\ K \cap I = {} /\ K \subseteq B
  OBVIOUS
<1> HIDE DEF K
<1>4. Good(K) /\ Good(I)
  BY <1>3, GoodParts
<1>5. Total(K) \in Nat /\ Total(I) \in Nat /\ Total(O) \in Nat
  BY <1>4, TotalNat
<1>6. Total(B) = Total(K) + Total(I)
  BY <1>3, <1>4, TotalAdds
<1>7. Total(K \union M) = Total(K) + Total(M)
  BY <1>1, <1>2, <1>4, TotalAdds
<1>8. Total(K \union M) = Total(B) - Total(I) + Total(O)
  BY <1>1, <1>5, <1>6, <1>7
<1> QED
  BY <1>8 DEF M, K

LEMMA LandMoves ==
  ASSUME Good(cells), IsFiniteSet(SeenCells), NEW tx, tx.ins \subseteq cells,
         Good(tx.outs), \A c \in tx.outs : Shaped(c), Land(tx, SeenPools, SeenCells)
  PROVE  /\ \A k, w : Total(CellsOf(cells', k, w)) =
              Total(CellsOf(cells, k, w)) - Total(CellsOf(tx.ins, k, w))
                + Total(CellsOf(tx.outs, k, w))
         /\ \A k : Amount(cells', k) = Amount(cells, k) - Amount(tx.ins, k) + Amount(tx.outs, k)
         /\ \A k, w : CellsOf(tx.ins, k, w) = {} /\ CellsOf(tx.outs, k, w) = {}
              => CellsOf(cells', k, w) = CellsOf(cells, k, w)
<1> DEFINE kept == cells \ tx.ins
           old == kept \union SeenCells
           made(O) == {Placed(c, old) : c \in O}
<1>1. cells' = kept \union made(tx.outs)
  BY DEF Land
<1>2. \A c : /\ Placed(c, old).kind = c.kind /\ Placed(c, old).owner = c.owner
             /\ Placed(c, old).amount = c.amount
  BY DEF Placed
<1>3. IsFiniteSet(old)
  <2>1. IsFiniteSet(kept)
    BY FS_Subset DEF Good
  <2> QED
    BY <2>1, FS_Union
<1> HIDE DEF kept, old
<1>4. ASSUME NEW c
      PROVE  Placed(c, old) \notin kept
  <2> DEFINE same == {d \in old : /\ d.kind = c.kind /\ d.owner = c.owner
                                  /\ d.amount = c.amount}
             taken == {d.n : d \in same}
             g == [d \in same |-> d.n]
  <2>1. IsFiniteSet(same)
    BY <1>3, FS_Subset
  <2>2. g \in Surjection(same, taken)
    BY DEF Surjection
  <2>3. IsFiniteSet(taken)
    BY <2>1, <2>2, FS_Surjection
  <2>4. Placed(c, old).n \notin taken
    <3>1. Placed(c, old).n = Unused(taken)
      BY DEF Placed
    <3> HIDE DEF taken
    <3> QED
      BY <2>3, <3>1, UnusedIsUnused
  <2>5. Placed(c, old) \in old => Placed(c, old) \in same
    BY <1>2
  <2> QED
    BY <2>4, <2>5 DEF old
<1>5. ASSUME NEW B, B \subseteq cells, NEW I, I = B \cap tx.ins, NEW O, O \subseteq tx.outs
      PROVE  Total((B \ I) \union made(O)) = Total(B) - Total(I) + Total(O)
  <2>1. Good(B) /\ Good(O)
    BY <1>5, GoodParts
  <2>2. made(O) \cap (B \ I) = {}
    BY <1>4, <1>5 DEF kept
  <2>3. I \subseteq B /\ \A c \in O : Shaped(c)
    BY <1>5
  <2> QED
    BY <2>1, <2>2, <2>3, PartMoves
<1>6. ASSUME NEW k, NEW w
      PROVE  /\ CellsOf(cells', k, w) =
                   (CellsOf(cells, k, w) \ CellsOf(tx.ins, k, w)) \union made(CellsOf(tx.outs, k, w))
             /\ Total(CellsOf(cells', k, w)) =
                   Total(CellsOf(cells, k, w)) - Total(CellsOf(tx.ins, k, w))
                     + Total(CellsOf(tx.outs, k, w))
  <2>1. CellsOf(cells', k, w) =
          (CellsOf(cells, k, w) \ CellsOf(tx.ins, k, w)) \union made(CellsOf(tx.outs, k, w))
    BY <1>1, <1>2 DEF CellsOf, kept
  <2>2. /\ CellsOf(cells, k, w) \subseteq cells /\ CellsOf(tx.outs, k, w) \subseteq tx.outs
        /\ CellsOf(tx.ins, k, w) = CellsOf(cells, k, w) \cap tx.ins
    BY DEF CellsOf
  <2> HIDE DEF made
  <2> QED
    BY <1>5, <2>1, <2>2
<1>7. ASSUME NEW k
      PROVE  Amount(cells', k) = Amount(cells, k) - Amount(tx.ins, k) + Amount(tx.outs, k)
  <2>1. OfKind(cells', k) = (OfKind(cells, k) \ OfKind(tx.ins, k)) \union made(OfKind(tx.outs, k))
    BY <1>1, <1>2 DEF OfKind, kept
  <2>2. /\ OfKind(cells, k) \subseteq cells /\ OfKind(tx.outs, k) \subseteq tx.outs
        /\ OfKind(tx.ins, k) = OfKind(cells, k) \cap tx.ins
    BY DEF OfKind
  <2> HIDE DEF made
  <2> QED
    BY <1>5, <2>1, <2>2 DEF Amount
<1>8. ASSUME NEW k, NEW w, CellsOf(tx.ins, k, w) = {}, CellsOf(tx.outs, k, w) = {}
      PROVE  CellsOf(cells', k, w) = CellsOf(cells, k, w)
  <2>1. made({}) = {}
    OBVIOUS
  <2> HIDE DEF made
  <2> QED
    BY <1>6, <1>8, <2>1
<1> QED
  BY <1>6, <1>7, <1>8

Does(who, order, tx) ==
  \/ order.op = "deposit" /\ order.want \in [Side -> Nat] /\ Trades(tx, order.want)
  \/ /\ order.op = "withdraw" /\ order.want \in [Side -> Nat]
     /\ Trades(tx, [s \in Side |-> 0 - order.want[s]])
  \/ order.op = "redeem" /\ Redeems(tx)
  \/ order.op = "burn" /\ Burns(tx, order.sides)
  \/ order.op = "create" /\ Creates(tx, order.round)
  \/ order.op = "close" /\ tx.prev # NoPool /\ tx.next = NoPool /\ who = Creator

SendingBooks(who, j) ==
  /\ Owned(j.tx, who)
  /\ Does(who, j.order, j.tx)
  /\ j.order.op = "redeem" /\ j.tx.prev = pool =>
       \A s \in Side : Due(pool, s) => CellsOf(cells, s, who) \subseteq j.tx.ins
  /\ /\ j.at = "complete"
     /\ j.tx.prev \in {NoPool, pool}
     /\ j.order.op = "close" => j.tx.header
     => Even(j.tx)

JobBooks(who, j) ==
  /\ j.at = "reading" => ReadingBooks(who, j)
  /\ j.at \in {"draft", "complete"} => SendingBooks(who, j)

Books == \A who \in Players : JobBooks(who, job[who])

LEMMA SeenCellsFinite ==
  ASSUME IInv, Fits, Books
  PROVE  IsFiniteSet(SeenCells)
<1> DEFINE seen(w) == IF job[w].at = "idle" THEN {}
                      ELSE IF job[w].at = "reading" THEN job[w].got ELSE job[w].tx.ins
           all == {seen(w) : w \in Players}
           f == [w \in Players |-> seen(w)]
<1>1. ASSUME NEW w \in Players
      PROVE  IsFiniteSet(seen(w))
  <2>1. JobOk(w, job[w]) /\ JobFit(w, job[w]) /\ JobBooks(w, job[w])
    BY DEF IInv, JobsOk, Fits, Books
  <2>2. job[w].at \in {"idle", "reading", "draft", "complete"}
    BY <2>1 DEF JobOk, Idle, ReadingOk, SendingOk
  <2>3. CASE job[w].at = "idle"
    BY <2>3, FS_EmptySet
  <2>4. CASE job[w].at = "reading"
    BY <2>1, <2>4 DEF JobFit, ReadingFit, Gathered, Good
  <2>5. CASE job[w].at \in {"draft", "complete"}
    BY <2>1, <2>5 DEF JobBooks, SendingBooks, Owned, Good
  <2> QED
    BY <2>2, <2>3, <2>4, <2>5
<1>2. IsFiniteSet(Players)
  BY LedgerAssumption, FS_AddElement DEF Players
<1> HIDE DEF seen
<1>3. f \in Surjection(Players, all)
  BY DEF Surjection
<1>4. IsFiniteSet(all)
  BY <1>2, <1>3, FS_Surjection
<1>5. \A T \in all : IsFiniteSet(T)
  BY <1>1
<1>6. IsFiniteSet(UNION all)
  <2> HIDE DEF all
  <2> QED
    BY <1>4, <1>5, FS_UNION
<1>7. SeenCells = UNION all
  BY DEF SeenCells, seen
<1> QED
  BY <1>6, <1>7

(***************************************************************************)
(* Completion adds stake and fee cells of the wallet, and nothing else.    *)
(***************************************************************************)
LEMMA CompletedAlike ==
  ASSUME NEW op, NEW who, NEW tx, TxFor(op, tx), Owned(tx, who), Good(cells),
         Sides(tx.prev), Sides(tx.next), NEW t \in completeFeeAndChange(who, tx)
  PROVE  Alike(t, tx) /\ Owned(t, who)
<1> DEFINE fuel == {Out("plain", who, 0) : c \in OfKind(tx.ins, "plain")}
           back == [tx EXCEPT !.outs = @ \union fuel]
           lack == Lacking(tx)
           more == IF lack > 0 THEN collectAssetCells(CellsOf(cells, "stake", who), lack)
                   ELSE {{}}
<1>1. Good(fuel) /\ \A c \in fuel : c.kind = "plain"
  BY FuelIs
<1>2. \A c \in fuel : Shaped(c) /\ c.owner = who
  BY DEF Shaped, Out
<1> HIDE DEF fuel
<1>3. /\ DOMAIN back = DOMAIN tx
      /\ back.prev = tx.prev /\ back.next = tx.next /\ back.ins = tx.ins
      /\ back.header = tx.header
      /\ back.outs = tx.outs \union fuel
  BY DEF TxFor
<1>4. ASSUME NEW P, Good(P), \A c \in P : c.kind = "stake" /\ c.owner = who,
             NEW over, Good(over),
             \A c \in over : Shaped(c) /\ c.kind = "stake" /\ c.owner = who,
             t.prev = tx.prev, t.next = tx.next, t.header = tx.header,
             t.ins = tx.ins \union P, t.outs = (tx.outs \union fuel) \union over
      PROVE  Alike(t, tx) /\ Owned(t, who)
  <2>1. \A k \in Side \union {"treasury"} : k # "stake" /\ k # "plain"
    BY DEF Side
  <2>2. Alike(t, tx)
    BY <1>1, <1>4, <2>1 DEF Alike, OfKind
  <2>3. Good(t.ins) /\ Good(t.outs)
    <3>1. Good(tx.ins) /\ Good(tx.outs)
      BY DEF Owned
    <3>2. Good(tx.outs \union fuel)
      BY <1>1, <3>1, GoodParts
    <3> QED
      BY <1>4, <3>1, <3>2, GoodParts
  <2> QED
    BY <1>2, <1>4, <2>2, <2>3 DEF Owned
<1>5. CASE ~IsCkb(tx)
  <2>1. t = back
    BY <1>5 DEF completeFeeAndChange, fuel
  <2> HIDE DEF back
  <2>2. t.ins = tx.ins \union {} /\ t.outs = (tx.outs \union fuel) \union {}
    BY <1>3, <2>1
  <2> QED
    BY <1>3, <1>4, <2>1, <2>2, TotalNone
<1>6. CASE IsCkb(tx)
  <2>1. PICK P \in more : t = [back EXCEPT !.ins = @ \union P,
                                          !.outs = @ \union OutIf("stake", who, Total(P) - lack)]
    BY <1>6 DEF completeFeeAndChange, fuel
  <2> DEFINE n == Total(P) - lack
             over == OutIf("stake", who, n)
  <2>2. /\ t.prev = tx.prev /\ t.next = tx.next /\ t.header = tx.header
        /\ t.ins = tx.ins \union P
        /\ t.outs = (tx.outs \union fuel) \union over
    <3> HIDE DEF back, lack, more, over
    <3> QED
      BY <1>3, <2>1 DEF TxFor, over
  <2>3. lack \in Int
    <3>1. StakeIn(tx) \in Int /\ StakeOut(tx) \in Int
      BY AmountNat DEF StakeIn, StakeOut, Owned, Sides, PoolSound
    <3> QED
      BY <3>1 DEF Lacking
  <2>4. /\ P \subseteq CellsOf(cells, "stake", who)
        /\ lack > 0 => Total(P) >= lack
        /\ lack > 0 \/ P = {}
    BY <2>1 DEF collectAssetCells
  <2>5. Good(P) /\ Total(P) \in Nat
    <3>1. P \subseteq cells
      BY <2>4 DEF CellsOf
    <3> QED
      BY <3>1, GoodParts, TotalNat
  <2>6. n \in Nat
    <3> HIDE DEF lack
    <3>1. lack > 0 \/ Total(P) = 0
      BY <2>4, TotalNone
    <3> QED
      BY <2>3, <2>4, <2>5, <3>1
  <2>7. Good(over)
    BY <2>6, OutIfIs
  <2>8. \A c \in over : Shaped(c) /\ c.kind = "stake" /\ c.owner = who
    BY ShapedOuts
  <2>9. \A c \in P : c.kind = "stake" /\ c.owner = who
    BY <2>4 DEF CellsOf
  <2> HIDE DEF over, n, lack, more, back
  <2> QED
    BY <1>4, <2>2, <2>5, <2>7, <2>8, <2>9
<1> QED
  BY <1>5, <1>6

LEMMA AlikeDoes ==
  ASSUME NEW who, NEW order, NEW tx, Does(who, order, tx), NEW t, Alike(t, tx)
  PROVE  Does(who, order, t)
<1>1. t.prev = tx.prev /\ t.next = tx.next
  BY DEF Alike
<1>2. \A k \in Side \union {"treasury"} :
        OfKind(t.ins, k) = OfKind(tx.ins, k) /\ OfKind(t.outs, k) = OfKind(tx.outs, k)
  BY DEF Alike
<1>3. PotIn(t) = PotIn(tx) /\ PotOut(t) = PotOut(tx)
  BY <1>1, <1>2 DEF PotIn, PotOut, Amount
<1>4. NoShares(tx.outs) = NoShares(t.outs) /\ NoShares(tx.ins) = NoShares(t.ins)
  BY <1>2 DEF NoShares
<1>5. \A d : Trades(tx, d) => Trades(t, d)
  BY <1>1, <1>3 DEF Trades
<1>6. Redeems(tx) => Redeems(t)
  BY <1>1, <1>4 DEF Redeems
<1>7. \A sides : Burns(tx, sides) => Burns(t, sides)
  BY <1>1, <1>2, <1>4 DEF Burns
<1>8. \A r : Creates(tx, r) => Creates(t, r)
  BY <1>1, <1>3, <1>4 DEF Creates
<1> QED
  BY <1>1, <1>5, <1>6, <1>7, <1>8 DEF Does

(***************************************************************************)
(* What is built from a reading does what was ordered.                     *)
(***************************************************************************)
LEMMA BuiltBooks ==
  ASSUME NEW who, NEW j, ReadingOk(who, j), ReadingFit(who, j), ReadingBooks(who, j),
         NEW k \in Built(who, j)
  PROVE  JobBooks(who, k) /\ k.order = j.order /\ k # Idle
<1>1. CASE j.todo # << >>
  BY <1>1 DEF Built, JobBooks, ReadingOk, Idle
<1>2. CASE j.todo = << >>
  <2>1. PICK tx \in Drafts(who, j) :
          k = [at |-> "draft", order |-> j.order, tx |-> tx]
    BY <1>2 DEF Built
  <2>2. k.at = "draft" /\ k.order = j.order /\ k.tx = tx /\ k # Idle
    BY <2>1 DEF Idle
  <2>3. Gathered(who, j.order.op, j.got)
    BY DEF ReadingFit
  <2>4. j.order.op \in PoolOps => PoolSound(j.pool) /\ j.pool # NoPool
    BY PoolIsSome DEF ReadingOk, ReadingFit, Sides, PoolOps
  <2>5. j.order.op \in PoolOps =>
          IF j.pool.variant = "CKB" THEN NoTreasury(j.got) ELSE TreasuryRead(j)
    BY <1>2 DEF ReadingFit, TodoOk, BeforeTreasury, PotTodos
  <2>6. Owned(tx, who) /\ Does(who, j.order, tx)
    <3>1. CASE j.order.op = "deposit"
      <4>1. tx \in buildDepositTx(who, j) /\ j.order.want \in [Side -> Nat]
        BY <3>1, DraftsOf DEF ReadingFit
      <4> QED
        BY <2>3, <2>4, <3>1, <4>1, DepositStands DEF PoolOps, Does
    <3>2. CASE j.order.op = "withdraw"
      <4>1. tx \in buildWithdrawTx(who, j) /\ j.order.want \in [Side -> Nat]
        BY <3>2, DraftsOf DEF ReadingFit
      <4> QED
        BY <2>3, <2>4, <2>5, <3>2, <4>1, WithdrawStands DEF PoolOps, Does
    <3>3. CASE j.order.op = "redeem"
      <4>1. tx \in buildRedeemTx(who, j)
        BY <3>3, DraftsOf
      <4> QED
        BY <2>3, <2>4, <2>5, <3>3, <4>1, RedeemStands DEF PoolOps, TreasuryRead, Does
    <3>4. CASE j.order.op = "burn"
      <4>1. tx \in buildBurnSharesTx(j)
        BY <3>4, DraftsOf
      <4>2. /\ Owned(tx, who) /\ tx.prev = NoPool /\ tx.next = NoPool
            /\ tx.ins = j.got /\ tx.outs = {}
        BY <2>3, <3>4, <4>1, BurnStands
      <4>3. \A s \in Side : s \notin j.order.sides => OfKind(tx.ins, s) = {}
        BY <3>4, <4>2 DEF ReadingBooks
      <4>4. OfKind(tx.ins, "treasury") = {}
        BY <2>3, <3>4, <4>2 DEF Gathered, KindsOf, OfKind, Side
      <4>5. Burns(tx, j.order.sides)
        BY <4>2, <4>3, <4>4, Kinds DEF Burns, NoShares
      <4> QED
        BY <3>4, <4>2, <4>5 DEF Does
    <3>5. CASE j.order.op = "close"
      <4>1. tx \in buildCloseTx(who, j) /\ who = Creator /\ \E c \in j.got : c.owner = who
        BY <1>2, <3>5, DraftsOf DEF ReadingFit, TodoOk
      <4>2. Owned(tx, who) /\ tx.prev = j.pool /\ tx.next = NoPool
        BY <2>3, <2>4, <2>5, <3>5, <4>1, CloseStands DEF PoolOps
      <4> QED
        BY <2>4, <3>5, <4>1, <4>2 DEF PoolOps, Does
    <3>6. CASE j.order.op = "create"
      <4>1. tx \in buildCreatePoolTx(j) /\ j.order.round \in Rounds
        BY <3>6, DraftsOf DEF ReadingFit
      <4> QED
        BY <2>3, <3>6, <4>1, CreateStands DEF Does
    <3> QED
      BY <3>1, <3>2, <3>3, <3>4, <3>5, <3>6 DEF ReadingOk, Ops
  <2>7. ASSUME j.order.op = "redeem", tx.prev = pool, NEW s \in Side, Due(pool, s)
        PROVE  CellsOf(cells, s, who) \subseteq tx.ins
    <3>1. tx \in buildRedeemTx(who, j)
      BY <2>7, DraftsOf
    <3>2. tx.prev = j.pool /\ tx.ins = j.got
      BY <2>3, <2>4, <2>5, <2>7, <3>1, RedeemStands DEF PoolOps, TreasuryRead
    <3>3. ~Asks(j.todo, s)
      BY <1>2, AsksOf
    <3> QED
      BY <2>7, <3>2, <3>3 DEF ReadingBooks
  <2>8. SendingBooks(who, k)
    BY <2>2, <2>6, <2>7 DEF SendingBooks
  <2> QED
    BY <2>2, <2>8 DEF JobBooks
<1> QED
  BY <1>1, <1>2

LEMMA GoOnBooks ==
  ASSUME IInv, Books, NEW who \in Players, NEW next, \A k \in next : JobBooks(who, k),
         GoOn(who, next), UNCHANGED <<pool, cells>>
  PROVE  Books'
<1>1. pool' = pool /\ cells' = cells
  OBVIOUS
<1>2. JobBooks(who, Idle)
  BY DEF JobBooks, Idle
<1>3. PICK k : JobBooks(who, k) /\ job' = [job EXCEPT ![who] = k]
  BY <1>2 DEF GoOn
<1>4. ASSUME NEW w \in Players
      PROVE  JobBooks(w, job[w])'
  <2>1. JobBooks(w, job'[w])
    BY <1>3 DEF IInv, JobsOk, Books
  <2> QED
    BY <1>1, <2>1 DEF JobBooks, ReadingBooks, SendingBooks
<1> QED
  BY <1>4 DEF Books

LEMMA StartBooks ==
  ASSUME IInv, Books, NEW who \in Players, NEW order, NEW p, NEW todo,
         LET j == [at |-> "reading", order |-> order, todo |-> todo,
                   pool |-> p, got |-> {}, header |-> FALSE]
         IN  ReadingOk(who, j) /\ ReadingFit(who, j) /\ ReadingBooks(who, j),
         Start(who, order, p, todo), UNCHANGED <<pool, cells>>
  PROVE  Books'
<1> DEFINE j == [at |-> "reading", order |-> order, todo |-> todo,
                 pool |-> p, got |-> {}, header |-> FALSE]
<1>1. GoOn(who, Built(who, j))
  BY DEF Start
<1>2. ReadingOk(who, j) /\ ReadingFit(who, j) /\ ReadingBooks(who, j)
  OBVIOUS
<1> HIDE DEF j
<1>3. \A k \in Built(who, j) : JobBooks(who, k)
  BY <1>2, BuiltBooks
<1> QED
  BY <1>1, <1>3, GoOnBooks

(***************************************************************************)
(* A read of a side answers for it: it finds all that the owner has.       *)
(***************************************************************************)
LEMMA ReadBooksOne ==
  ASSUME NEW who, NEW j, ReadingOk(who, j), ReadingFit(who, j), ReadingBooks(who, j),
         j.todo # << >>, NEW S \in Found(who, j, Head(j.todo)),
         NEW k, k.order = j.order, k.pool = j.pool, k.todo = Tail(j.todo),
         k.got = j.got \union S
  PROVE  ReadingBooks(who, k)
<1> DEFINE read == Head(j.todo)
<1>1. j.order.op \in {"redeem", "burn"} => j.todo \in SideTodos \union PotTodos
  <2>1. j.order.op = "redeem" => j.todo \in SideTodos \union PotTodos
    BY DEF ReadingFit, TodoOk, PoolOps, CkbTodos, BeforeTreasury, AfterTreasury, SideTodos
  <2>2. j.order.op = "burn" => j.todo \in SideTodos
    BY DEF ReadingFit, TodoOk
  <2> QED
    BY <2>1, <2>2
<1>2. ASSUME j.order.op = "redeem", j.pool = pool, NEW s \in Side, Due(j.pool, s)
      PROVE  Asks(k.todo, s) \/ CellsOf(cells, s, who) \subseteq k.got
  <2>1. Asks(j.todo, s) \/ CellsOf(cells, s, who) \subseteq j.got
    BY <1>2 DEF ReadingBooks
  <2>2. CASE Asks(j.todo, s) /\ s # read
    BY <1>1, <1>2, <2>2, AsksSteps
  <2>3. CASE s = read
    <3>1. j.order.op # "withdraw"
      BY <1>2
    <3>2. s = "UP" => Found(who, j, s) = {CellsOf(cells, s, who)}
      BY <3>1 DEF Found, Side
    <3>3. s = "DOWN" => Found(who, j, s) = {CellsOf(cells, s, who)}
      BY <3>1 DEF Found, Side
    <3>4. S = CellsOf(cells, s, who)
      BY <2>3, <3>2, <3>3 DEF Side
    <3> QED
      BY <3>4
  <2> QED
    BY <2>1, <2>2, <2>3
<1>3. ASSUME j.order.op = "burn", NEW s \in Side, s \notin j.order.sides
      PROVE  ~Asks(k.todo, s) /\ OfKind(k.got, s) = {}
  <2>1. ~Asks(j.todo, s) /\ OfKind(j.got, s) = {}
    BY <1>3 DEF ReadingBooks
  <2>2. s # read /\ ~Asks(Tail(j.todo), s)
    BY <1>1, <1>3, <2>1, AsksSteps
  <2>3. \A c \in S : c.kind = read
    BY FoundIs
  <2>4. OfKind(k.got, s) = {}
    BY <2>1, <2>2, <2>3 DEF OfKind
  <2> QED
    BY <2>2, <2>4
<1> QED
  BY <1>2, <1>3 DEF ReadingBooks

\* A request goes on with the same order, or is over.
Goes(who) ==
  \E next : /\ GoOn(who, next)
            /\ \A k \in next : JobBooks(who, k) /\ k # Idle /\ k.order = job[who].order

LEMMA ReadGoes ==
  ASSUME IInv, Fits, Books, NEW who \in Players, Read(who)
  PROVE  Goes(who)
<1> DEFINE j == job[who]
           read == Head(j.todo)
           after(S) == [j EXCEPT !.todo = Tail(@), !.got = @ \union S,
                                 !.header = @ \/ (read = "header" /\ late)]
           next == UNION {Built(who, after(S)) : S \in Found(who, j, read)}
<1>1. ReadingOk(who, j) /\ j.todo # << >> /\ ReadingFit(who, j) /\ ReadingBooks(who, j)
  <2>1. JobOk(who, j) /\ j.at = "reading" /\ JobFit(who, j) /\ JobBooks(who, j)
    BY DEF Read, IInv, JobsOk, Fits, Books
  <2> HIDE DEF j
  <2> QED
    BY <2>1 DEF JobOk, Idle, SendingOk, JobFit, JobBooks
<1>2. ASSUME NEW S \in Found(who, j, read)
      PROVE  /\ ReadingOk(who, after(S)) /\ ReadingFit(who, after(S))
             /\ ReadingBooks(who, after(S)) /\ after(S).order = j.order
  <2> DEFINE k == after(S)
  <2>1. /\ k.order = j.order /\ k.pool = j.pool
        /\ k.todo = Tail(j.todo) /\ k.got = j.got \union S
    BY <1>1 DEF ReadingOk
  <2>2. ReadingOk(who, k)
    BY <1>1, ReadIsOk
  <2> HIDE DEF k, j
  <2>3. ReadingFit(who, k) /\ ReadingBooks(who, k)
    BY <1>1, <2>1, ReadFitsOne, ReadBooksOne
  <2> QED
    BY <2>1, <2>2, <2>3 DEF k
<1>3. GoOn(who, next)
  BY DEF Read
<1> HIDE DEF after
<1>4. \A k \in next : JobBooks(who, k) /\ k # Idle /\ k.order = j.order
  <2> TAKE k \in next
  <2>1. PICK S \in Found(who, j, read) : k \in Built(who, after(S))
    OBVIOUS
  <2> QED
    BY <1>2, <2>1, BuiltBooks
<1> QED
  BY <1>3, <1>4 DEF Goes

LEMMA CompleteGoes ==
  ASSUME IInv, Fits, Books, NEW who \in Players, Complete(who)
  PROVE  Goes(who)
<1> DEFINE j == job[who]
           with(tx) == [j EXCEPT !.at = "complete", !.tx = tx]
           next == {with(tx) : tx \in completeFeeAndChange(who, j.tx)}
<1>1. SendingOk(who, j) /\ SendingFit(who, j) /\ SendingBooks(who, j) /\ j.at = "draft"
  <2>1. JobOk(who, j) /\ j.at = "draft" /\ JobFit(who, j) /\ JobBooks(who, j)
    BY DEF Complete, IInv, JobsOk, Fits, Books
  <2> HIDE DEF j
  <2> QED
    BY <2>1 DEF JobOk, Idle, ReadingOk, JobFit, JobBooks
<1>2. ASSUME NEW tx \in completeFeeAndChange(who, j.tx)
      PROVE  JobBooks(who, with(tx)) /\ with(tx) # Idle /\ with(tx).order = j.order
  <2> DEFINE k == with(tx)
  <2>1. /\ k.at = "complete" /\ k.order = j.order /\ k.tx = tx /\ k # Idle
    BY <1>1 DEF SendingOk, Idle
  <2> HIDE DEF k
  <2>2. TxFor(j.order.op, j.tx)
    BY <1>1 DEF SendingOk
  <2>3. /\ tx.prev = j.tx.prev /\ tx.next = j.tx.next /\ tx.header = j.tx.header
        /\ j.tx.ins \subseteq tx.ins
    BY <2>2, CompletedIs, CompletedHeader
  <2>4. Sides(j.tx.prev) /\ Sides(j.tx.next) /\ Good(cells)
    BY <1>1 DEF SendingFit, Fits, LedgerSound
  <2>5. Owned(tx, who) /\ Does(who, j.order, tx)
    BY <1>1, <2>2, <2>4, CompletedAlike, AlikeDoes DEF SendingBooks
  <2>6. ASSUME Stands(j.tx, who)
        PROVE  Even(tx)
    BY <2>2, <2>4, <2>6, CompletedStands DEF Sides
  <2>7. SendingBooks(who, k)
    BY <1>1, <2>1, <2>3, <2>5, <2>6 DEF SendingBooks, SendingFit
  <2> QED
    BY <2>1, <2>7 DEF JobBooks, k
<1>3. GoOn(who, next)
  BY DEF Complete
<1> HIDE DEF with
<1>4. \A k \in next : JobBooks(who, k) /\ k # Idle /\ k.order = j.order
  BY <1>2
<1> QED
  BY <1>3, <1>4 DEF Goes

(***************************************************************************)
(* A transaction lands.  A request that still has the live pool then finds *)
(* the shares of its owner where they were: what landed spent no PoolCell, *)
(* so it is a burn, of somebody else's.                                    *)
(***************************************************************************)
Apart(who) ==
  Remembered(who) # NoPool /\ Remembered(who) = pool' =>
    /\ Remembered(who) = pool
    /\ \A s \in Side : CellsOf(cells', s, who) = CellsOf(cells, s, who)

LEMMA LandPoolless ==
  ASSUME NEW tx, Land(tx, SeenPools, SeenCells), Sides(tx.next), NEW who \in Players,
         Remembered(who) # NoPool, Remembered(who) = pool'
  PROVE  tx.prev = NoPool /\ tx.next = NoPool /\ Remembered(who) = pool
<1> DEFINE taken == {p.n : p \in SeenPools}
           u == Unused(taken)
<1>1. pool' = IF tx.prev = NoPool /\ tx.next = NoPool THEN pool
              ELSE IF tx.next = NoPool THEN NoPool
              ELSE [tx.next EXCEPT !.n = u]
  BY DEF Land
<1>2. u \notin taken
  BY SeenFinite, UnusedIsUnused
<1>3. Remembered(who).n \in taken
  <2>1. Remembered(who) \in SeenPools
    BY DEF SeenPools, Remembered
  <2> QED
    BY <2>1
<1> HIDE DEF u, taken
<1>4. tx.next = NoPool
  <2>1. ASSUME tx.next # NoPool
        PROVE  FALSE
    <3>1. pool'.n = u
      BY <1>1, <2>1 DEF Sides, PoolSound, IsPool
    <3> QED
      BY <1>2, <1>3, <3>1
  <2> QED
    BY <2>1
<1> QED
  BY <1>1, <1>4

LEMMA LandApart ==
  ASSUME IInv, Fits, Books, NEW tx, NEW who, Owned(tx, who), tx.ins \subseteq cells,
         Sides(tx.next), Land(tx, SeenPools, SeenCells), NEW w \in Players, w # who
  PROVE  Apart(w)
<1> SUFFICES ASSUME Remembered(w) # NoPool, Remembered(w) = pool'
             PROVE  /\ Remembered(w) = pool
                    /\ \A s \in Side : CellsOf(cells', s, w) = CellsOf(cells, s, w)
  BY DEF Apart
<1>1. Remembered(w) = pool
  BY LandPoolless
<1>2. ASSUME NEW s \in Side
      PROVE  CellsOf(cells', s, w) = CellsOf(cells, s, w)
  <2>1. CellsOf(tx.ins, s, w) = {} /\ CellsOf(tx.outs, s, w) = {}
    BY DEF Owned, CellsOf, Side
  <2>2. Good(cells) /\ IsFiniteSet(SeenCells)
    BY SeenCellsFinite DEF Fits, LedgerSound
  <2>3. Good(tx.outs) /\ \A c \in tx.outs : Shaped(c)
    BY DEF Owned
  <2> QED
    BY <2>1, <2>2, <2>3, LandMoves
<1> QED
  BY <1>1, <1>2

LEMMA OthersBooks ==
  ASSUME IInv, NEW who \in Players, JobBooks(who, job[who]), job'[who] = job[who],
         Apart(who)
  PROVE  JobBooks(who, job[who])'
<1> DEFINE j == job[who]
<1>1. JobOk(who, j)
  BY DEF IInv, JobsOk
<1>2. ASSUME j.at = "reading"
      PROVE  ReadingBooks(who, j)'
  <2>1. ReadingOk(who, j)
    BY <1>1, <1>2 DEF JobOk, Idle, SendingOk
  <2>2. ReadingBooks(who, j)
    BY <1>2 DEF JobBooks
  <2>3. Remembered(who) = j.pool
    BY <1>2 DEF Remembered
  <2>4. j.order.op = "redeem" => j.pool # NoPool
    BY <2>1, PoolIsSome DEF ReadingOk
  <2>5. j.order.op = "redeem" /\ j.pool = pool' =>
          j.pool = pool /\ \A s \in Side : CellsOf(cells', s, who) = CellsOf(cells, s, who)
    BY <2>3, <2>4 DEF Apart
  <2> QED
    BY <2>2, <2>5 DEF ReadingBooks
<1>3. ASSUME j.at \in {"draft", "complete"}
      PROVE  SendingBooks(who, j)'
  <2>1. Remembered(who) = j.tx.prev
    BY <1>3 DEF Remembered
  <2>2. SendingBooks(who, j)
    BY <1>3 DEF JobBooks
  <2>3. j.tx.prev \in {NoPool, pool'} => j.tx.prev \in {NoPool, pool}
    BY <2>1 DEF Apart
  <2>4. j.order.op = "redeem" => j.tx.prev # NoPool
    BY <2>2 DEF SendingBooks, Does, Redeems
  <2>5. j.order.op = "redeem" /\ j.tx.prev = pool' =>
          /\ j.tx.prev = pool /\ pool' = pool
          /\ \A s \in Side : CellsOf(cells', s, who) = CellsOf(cells, s, who)
    BY <2>1, <2>4 DEF Apart
  <2> QED
    BY <2>2, <2>3, <2>5 DEF SendingBooks
<1> QED
  BY <1>2, <1>3 DEF JobBooks

LEMMA SendBooks ==
  ASSUME IInv, Fits, Books, NEW who \in Players, signAndSend(who)
  PROVE  Books'
<1> DEFINE j == job[who]
           tx == j.tx
<1>1. SendingOk(who, j) /\ SendingFit(who, j) /\ SendingBooks(who, j)
  <2>1. JobOk(who, j) /\ j.at = "complete" /\ JobFit(who, j) /\ JobBooks(who, j)
    BY DEF signAndSend, IInv, JobsOk, Fits, Books
  <2> HIDE DEF j
  <2> QED
    BY <2>1 DEF JobOk, Idle, ReadingOk, JobFit, JobBooks
<1>2. \A w \in Players : job'[w] = IF w = who THEN Idle ELSE job[w]
  BY DEF signAndSend, IInv, JobsOk
<1>3. JobBooks(who, job[who])'
  BY <1>2 DEF JobBooks, Idle
<1>4. ASSUME NEW w \in Players, w # who
      PROVE  Apart(w)
  <2>1. CASE Lands(who)
    <3>1. Land(tx, SeenPools, SeenCells) /\ tx.ins \subseteq cells
      BY <2>1 DEF signAndSend, Lands, Live
    <3>2. Sides(tx.next) /\ Owned(tx, who)
      BY <1>1 DEF SendingFit, SendingBooks
    <3> HIDE DEF tx
    <3> QED
      BY <1>4, <3>1, <3>2, LandApart
  <2>2. CASE ~Lands(who)
    <3>1. pool' = pool /\ cells' = cells
      BY <2>2 DEF signAndSend
    <3> QED
      BY <3>1 DEF Apart
  <2> QED
    BY <2>1, <2>2
<1>5. ASSUME NEW w \in Players, w # who
      PROVE  JobBooks(w, job[w])'
  BY <1>2, <1>4, <1>5, OthersBooks DEF Books
<1> QED
  BY <1>3, <1>5 DEF Books

(***************************************************************************)
(* The rest of the world moves the pool.                                   *)
(***************************************************************************)
LEMMA OutsideBooks ==
  ASSUME IInv, Books, NEW tx, Land(tx, SeenPools, SeenCells), Sides(tx.next),
         tx.prev # NoPool, job' = job
  PROVE  Books'
<1>1. ASSUME NEW w \in Players
      PROVE  JobBooks(w, job[w])'
  <2>1. Apart(w)
    BY LandPoolless DEF Apart
  <2> QED
    BY <2>1, OthersBooks DEF Books
<1> QED
  BY <1>1 DEF Books

LEMMA BooksInit ==
  ASSUME Init
  PROVE  Books
<1>1. \A who \in Players : job[who] = Idle
  BY DEF Init
<1> QED
  BY <1>1 DEF Books, JobBooks, Idle

LEMMA BeginsBooks ==
  ASSUME IInv, Books, NEW who \in Players, Begins(who), UNCHANGED <<pool, cells>>
  PROVE  Books'
BY StartBooks DEF Begins, Begun

LEMMA GoesBooks ==
  ASSUME IInv, Books, NEW who \in Players, Goes(who), UNCHANGED <<pool, cells>>
  PROVE  Books'
BY GoOnBooks DEF Goes

(***************************************************************************)
(* Every request in flight keeps doing what was ordered, whoever moves.    *)
(***************************************************************************)
LEMMA BooksInductive ==
  ASSUME IInv, Fits, Books, [Next]_vars
  PROVE  Books'
<1>1. CASE \E h \in Holders : Ask(h)
  <2>1. PICK h \in Holders : Ask(h)
    BY <1>1
  <2>2. UNCHANGED <<pool, cells>>
    BY <2>1, AskStill
  <2> QED
    BY <2>1, <2>2, AskBegins, BeginsBooks DEF Players
<1>2. CASE \E r \in Rounds : draftCreate(r)
  BY <1>2, CreateBegins, BeginsBooks DEF Players, draftCreate, KeeperAsks, ledger
<1>3. CASE draftClose
  BY <1>3, CloseBegins, BeginsBooks DEF Players, draftClose, KeeperAsks, ledger
<1>4. CASE \E who \in Players : Serve(who)
  <2>1. PICK who \in Players : Serve(who)
    BY <1>4
  <2>2. CASE Read(who)
    BY <2>2, ReadGoes, GoesBooks DEF Read, ledger
  <2>3. CASE Complete(who)
    BY <2>3, CompleteGoes, GoesBooks DEF Complete, ledger
  <2>4. CASE signAndSend(who)
    BY <2>4, SendBooks
  <2> QED
    BY <2>1, <2>2, <2>3, <2>4 DEF Serve
<1>5. CASE Transition
  BY <1>5, TransitionIs, OutsideBooks, PoolIsSome DEF PoolSound, Sides
<1>6. ASSUME UNCHANGED <<pool, cells, job>>
      PROVE  Books'
  BY <1>6 DEF Books, JobBooks, ReadingBooks, SendingBooks
<1>7. CASE TimePasses
  BY <1>6, <1>7 DEF TimePasses
<1>8. CASE \E h \in Holders : \E want \in Stakes[h] : ForeignDeposit(h, want)
  BY <1>8, ForeignIs, OutsideBooks, PoolIsSome DEF PoolSound, Sides
<1>9. CASE UNCHANGED vars
  BY <1>6, <1>9 DEF vars, ledger
<1> QED
  BY <1>1, <1>2, <1>3, <1>4, <1>5, <1>7, <1>8, <1>9 DEF Next

(***************************************************************************)
(* The refinement.  What everybody has, before and after a transaction.    *)
(***************************************************************************)
Face(p) == [f \in {"status", "winner", "total", "rake_bps"} |-> p[f]]

LEMMA BooksTypes ==
  ASSUME Good(cells), Sides(pool)
  PROVE  /\ bank \in [Players -> Nat]
         /\ shares \in [Players -> [Side -> Nat]]
         /\ pot \in Int /\ pot = Amount(cells, "treasury") + Cap(pool)
         /\ round = IF pool = NoPool THEN NoPool ELSE Face(pool)
<1>1. ASSUME NEW k, NEW w
      PROVE  Total(CellsOf(cells, k, w)) \in Nat
  <2>1. CellsOf(cells, k, w) \subseteq cells
    BY DEF CellsOf
  <2> QED
    BY <2>1, GoodParts, TotalNat
<1>2. Amount(cells, "treasury") \in Nat
  BY AmountNat
<1>3. Cap(pool) \in Int
  BY DEF Cap, Sides, PoolSound
<1>4. pot = Amount(cells, "treasury") + Cap(pool)
  BY DEF pot, Cap
<1> QED
  BY <1>1, <1>2, <1>3, <1>4 DEF bank, shares, round, Face

\* Nobody but the signer is touched.
LEMMA OwnedParts ==
  ASSUME NEW tx, NEW who, Owned(tx, who), NEW k, k # "treasury"
  PROVE  /\ CellsOf(tx.ins, k, who) = OfKind(tx.ins, k)
         /\ CellsOf(tx.outs, k, who) = OfKind(tx.outs, k)
         /\ \A w : w # who => CellsOf(tx.ins, k, w) = {} /\ CellsOf(tx.outs, k, w) = {}
BY DEF Owned, CellsOf, OfKind

LEMMA LandPool ==
  ASSUME NEW tx, Land(tx, SeenPools, SeenCells), Sides(tx.next)
  PROVE  /\ tx.next # NoPool =>
              pool' # NoPool /\ round' = Face(tx.next) /\ Cap(pool') = Cap(tx.next)
         /\ tx.next = NoPool /\ tx.prev # NoPool => pool' = NoPool /\ round' = NoPool
         /\ tx.next = NoPool /\ tx.prev = NoPool => pool' = pool /\ round' = round
<1> DEFINE u == Unused({p.n : p \in SeenPools})
<1>1. pool' = IF tx.prev = NoPool /\ tx.next = NoPool THEN pool
              ELSE IF tx.next = NoPool THEN NoPool
              ELSE [tx.next EXCEPT !.n = u]
  BY DEF Land
<1> HIDE DEF u
<1>2. ASSUME tx.next # NoPool
      PROVE  pool' # NoPool /\ round' = Face(tx.next) /\ Cap(pool') = Cap(tx.next)
  <2>1. PoolSound(tx.next)
    BY <1>2 DEF Sides
  <2>2. pool' = [tx.next EXCEPT !.n = u]
    BY <1>1, <1>2
  <2>3. /\ DOMAIN pool' = DOMAIN tx.next
        /\ \A f \in DOMAIN tx.next : f # "n" => pool'[f] = tx.next[f]
    BY <2>2
  <2>4. /\ pool'.status = tx.next.status /\ pool'.winner = tx.next.winner
        /\ pool'.total = tx.next.total /\ pool'.rake_bps = tx.next.rake_bps
        /\ pool'.capacity = tx.next.capacity /\ pool'.status # "NONE"
    BY <2>1, <2>3 DEF PoolSound, IsPool
  <2>5. pool' # NoPool
    BY <2>4 DEF NoPool
  <2> QED
    BY <1>2, <2>4, <2>5 DEF round, Face, Cap
<1>3. tx.next = NoPool /\ tx.prev # NoPool => pool' = NoPool /\ round' = NoPool
  BY <1>1 DEF round
<1>4. tx.next = NoPool /\ tx.prev = NoPool => pool' = pool /\ round' = round
  BY <1>1 DEF round
<1> QED
  BY <1>2, <1>3, <1>4

\* The pool that a transaction spends, or makes anew, is the one there is.
Fresh(tx) == tx.prev = pool \/ (tx.prev = NoPool /\ (tx.next = NoPool \/ pool = NoPool))

LEMMA LandBooks ==
  ASSUME IInv, Fits, Books, NEW tx, NEW who \in Players, Owned(tx, who), Even(tx),
         tx.ins \subseteq cells, Land(tx, SeenPools, SeenCells),
         Sides(tx.prev), Sides(tx.next), Fresh(tx)
  PROVE  LET over == PotIn(tx) - PotOut(tx)
         IN  /\ over \in Int
             /\ bank' = [bank EXCEPT ![who] = @ + over]
             /\ pot' = pot - over
             /\ shares' = [shares EXCEPT ![who] =
                             [s \in Side |-> @[s] - share_in(tx, s) + share_out(tx, s)]]
             /\ \A s \in Side : share_in(tx, s) \in Nat /\ share_out(tx, s) \in Nat
<1> DEFINE over == PotIn(tx) - PotOut(tx)
<1>1. Good(cells) /\ Sides(pool) /\ IsFiniteSet(SeenCells)
  BY SeenCellsFinite DEF Fits, LedgerSound
<1>2. Good(tx.ins) /\ Good(tx.outs) /\ \A c \in tx.outs : Shaped(c)
  BY DEF Owned
<1>3. /\ \A k, w : Total(CellsOf(cells', k, w)) =
            Total(CellsOf(cells, k, w)) - Total(CellsOf(tx.ins, k, w))
              + Total(CellsOf(tx.outs, k, w))
      /\ \A k : Amount(cells', k) = Amount(cells, k) - Amount(tx.ins, k) + Amount(tx.outs, k)
      /\ \A k, w : CellsOf(tx.ins, k, w) = {} /\ CellsOf(tx.outs, k, w) = {}
           => CellsOf(cells', k, w) = CellsOf(cells, k, w)
  BY <1>1, <1>2, LandMoves
<1>4. \A k : Amount(tx.ins, k) \in Nat /\ Amount(tx.outs, k) \in Nat /\ Amount(cells, k) \in Nat
  BY <1>1, <1>2, AmountNat
<1>5. Cap(tx.prev) \in Int /\ Cap(tx.next) \in Int /\ Cap(pool) \in Int
  BY <1>1 DEF Cap, Sides, PoolSound
<1>6. PotIn(tx) \in Int /\ PotOut(tx) \in Int /\ over \in Int
  BY <1>4, <1>5 DEF PotIn, PotOut
<1>7. over = Amount(tx.outs, "stake") - Amount(tx.ins, "stake")
  <2> DEFINE a == Amount(tx.ins, "stake")
             b == Amount(tx.outs, "stake")
             c == Amount(tx.ins, "treasury")
             d == Amount(tx.outs, "treasury")
             e == Cap(tx.prev)
             g == Cap(tx.next)
  <2>1. StakeIn(tx) = a + c + e /\ StakeOut(tx) = b + d + g
    BY DEF StakeIn, StakeOut, Cap
  <2>2. PotIn(tx) = c + e /\ PotOut(tx) = d + g
    BY DEF PotIn, PotOut
  <2>3. a \in Nat /\ b \in Nat /\ c \in Nat /\ d \in Nat /\ e \in Int /\ g \in Int
    BY <1>4, <1>5
  <2> HIDE DEF a, b, c, d, e, g
  <2>4. a + c + e = b + d + g
    BY <2>1 DEF Even
  <2>5. (c + e) - (d + g) = b - a
    BY <2>3, <2>4
  <2> QED
    BY <2>2, <2>5 DEF a, b
<1>8. ASSUME NEW k, k # "treasury", NEW w
      PROVE  Total(CellsOf(cells', k, w)) =
               IF w = who
               THEN Total(CellsOf(cells, k, w)) - Amount(tx.ins, k) + Amount(tx.outs, k)
               ELSE Total(CellsOf(cells, k, w))
  <2>0. /\ CellsOf(tx.ins, k, who) = OfKind(tx.ins, k)
        /\ CellsOf(tx.outs, k, who) = OfKind(tx.outs, k)
        /\ w # who => CellsOf(tx.ins, k, w) = {} /\ CellsOf(tx.outs, k, w) = {}
    BY <1>8, OwnedParts
  <2>1. CASE w = who
    <3>1. Total(CellsOf(cells', k, who)) =
            Total(CellsOf(cells, k, who)) - Total(CellsOf(tx.ins, k, who))
              + Total(CellsOf(tx.outs, k, who))
      BY <1>3
    <3> QED
      BY <2>0, <2>1, <3>1 DEF Amount
  <2>2. CASE w # who
    <3>1. CellsOf(cells', k, w) = CellsOf(cells, k, w)
      BY <1>3, <2>0, <2>2
    <3> QED
      BY <2>2, <3>1
  <2> QED
    BY <2>1, <2>2
<1>9. bank \in [Players -> Nat] /\ shares \in [Players -> [Side -> Nat]]
  BY <1>1, BooksTypes
<1>10. bank' = [bank EXCEPT ![who] = @ + over]
  <2>1. \A w \in Players : bank[w] = Total(CellsOf(cells, "stake", w))
    BY DEF bank
  <2>2. bank' = [w \in Players |-> Total(CellsOf(cells', "stake", w))]
    BY DEF bank
  <2> DEFINE a == Amount(tx.ins, "stake")
             b == Amount(tx.outs, "stake")
  <2>3. bank' = [w \in Players |-> IF w = who THEN bank[w] - a + b ELSE bank[w]]
    BY <1>8, <2>1, <2>2
  <2>4. bank[who] - a + b = bank[who] + over
    <3>1. a \in Nat /\ b \in Nat /\ bank[who] \in Nat /\ over = b - a
      BY <1>4, <1>7, <1>9
    <3> HIDE DEF a, b, over
    <3> QED
      BY <3>1
  <2> HIDE DEF a, b, over
  <2> QED
    BY <1>9, <2>3, <2>4
<1>11. pot' = pot - over
  <2>1. pot = Amount(cells, "treasury") + Cap(pool)
    BY DEF pot, Cap
  <2>2. pot' = Amount(cells', "treasury") + Cap(pool')
    BY DEF pot, Cap
  <2>3. Cap(pool') = Cap(pool) - Cap(tx.prev) + Cap(tx.next)
    <3>1. Cap(NoPool) = 0
      BY DEF Cap
    <3>2. CASE tx.next # NoPool
      <4>1. Cap(pool') = Cap(tx.next) /\ Cap(pool) = Cap(tx.prev)
        BY <3>2, LandPool DEF Fresh
      <4> QED
        BY <1>5, <4>1
    <3>3. CASE tx.next = NoPool /\ tx.prev # NoPool
      <4>1. pool' = NoPool /\ tx.prev = pool
        BY <3>3, LandPool DEF Fresh
      <4> QED
        BY <1>5, <3>1, <3>3, <4>1
    <3>4. CASE tx.next = NoPool /\ tx.prev = NoPool
      <4>1. pool' = pool
        BY <3>4, LandPool
      <4> QED
        BY <1>5, <3>1, <3>4, <4>1
    <3> QED
      BY <3>2, <3>3, <3>4
  <2> DEFINE t == Amount(cells, "treasury")
             a == Amount(tx.ins, "treasury")
             b == Amount(tx.outs, "treasury")
             p == Cap(pool)
             q == Cap(tx.prev)
             r == Cap(tx.next)
  <2>4. /\ pot = t + p /\ pot' = (t - a + b) + (p - q + r)
        /\ over = (a + q) - (b + r)
    BY <1>3, <2>1, <2>2, <2>3 DEF PotIn, PotOut
  <2>5. t \in Nat /\ a \in Nat /\ b \in Nat /\ p \in Int /\ q \in Int /\ r \in Int
    BY <1>4, <1>5
  <2> HIDE DEF t, a, b, p, q, r, over
  <2>6. (t - a + b) + (p - q + r) = (t + p) - ((a + q) - (b + r))
    BY <2>5
  <2> QED
    BY <2>4, <2>6
<1>12. shares' = [shares EXCEPT ![who] =
                    [s \in Side |-> @[s] - share_in(tx, s) + share_out(tx, s)]]
  <2>1. shares = [w \in Players |-> [s \in Side |-> Total(CellsOf(cells, s, w))]]
    BY DEF shares
  <2>2. shares' = [w \in Players |-> [s \in Side |-> Total(CellsOf(cells', s, w))]]
    BY DEF shares
  <2>3. \A s \in Side : s # "treasury"
    BY DEF Side
  <2>4. \A s \in Side : \A w \in Players :
          Total(CellsOf(cells', s, w)) =
            IF w = who THEN shares[w][s] - share_in(tx, s) + share_out(tx, s) ELSE shares[w][s]
    BY <1>8, <2>1, <2>3 DEF share_in, share_out
  <2>5. shares' = [w \in Players |-> [s \in Side |->
            IF w = who THEN shares[w][s] - share_in(tx, s) + share_out(tx, s) ELSE shares[w][s]]]
    BY <2>2, <2>4
  <2>6. \A w \in Players : shares[w] = [s \in Side |-> shares[w][s]]
    BY <1>9
  <2>7. ASSUME NEW w \in Players
        PROVE  shares'[w] = IF w = who
                 THEN [s \in Side |-> shares[w][s] - share_in(tx, s) + share_out(tx, s)]
                 ELSE shares[w]
    BY <2>5, <2>6
  <2>8. DOMAIN shares' = Players /\ shares' = [w \in Players |-> shares'[w]]
    BY <2>2
  <2> QED
    BY <1>9, <2>7, <2>8
<1>13. \A s \in Side : share_in(tx, s) \in Nat /\ share_out(tx, s) \in Nat
  BY <1>4 DEF share_in, share_out
<1> QED
  BY <1>6, <1>10, <1>11, <1>12, <1>13

(***************************************************************************)
(* Orders, as Accounts sees them.                                          *)
(***************************************************************************)
LEMMA OrdersMove ==
  ASSUME IInv, NEW who \in Players, NEW k, job' = [job EXCEPT ![who] = k]
  PROVE  /\ k = Idle => Abstract!Clear(who)
         /\ k # Idle => orders' = [orders EXCEPT ![who] = k.order]
<1>1. \A w \in Players : job'[w] = IF w = who THEN k ELSE job[w]
  BY DEF IInv, JobsOk
<1>2. orders' = [w \in Players |-> IF job'[w] = Idle THEN [op |-> "none"] ELSE job'[w].order]
  BY DEF orders
<1>3. orders = [w \in Players |-> IF job[w] = Idle THEN [op |-> "none"] ELSE job[w].order]
  BY DEF orders
<1>4. k = Idle => orders' = [orders EXCEPT ![who] = [op |-> "none"]]
  BY <1>1, <1>2, <1>3
<1>5. k # Idle => orders' = [orders EXCEPT ![who] = k.order]
  BY <1>1, <1>2, <1>3
<1> QED
  BY <1>4, <1>5 DEF Abstract!Clear, Abstract!NoOrder

LEMMA OrderIs ==
  ASSUME IInv, Books, NEW who \in Players
  PROVE  /\ job[who].at = "idle" => job[who] = Idle /\ orders[who] = Abstract!NoOrder
         /\ job[who].at # "idle" => /\ job[who] # Idle /\ orders[who] = job[who].order
                                    /\ orders[who] # Abstract!NoOrder
<1> DEFINE j == job[who]
<1>1. JobOk(who, j) /\ JobBooks(who, j)
  BY DEF IInv, JobsOk, Books
<1>2. orders[who] = IF j = Idle THEN [op |-> "none"] ELSE j.order
  BY DEF orders
<1> HIDE DEF j
<1>3. j.at = "idle" => j = Idle
  BY <1>1 DEF JobOk, ReadingOk, SendingOk
<1>4. j.at # "idle" => j.order.op \in Ops
  BY <1>1 DEF JobOk, Idle, ReadingOk, SendingOk, JobBooks, SendingBooks, Does, Ops
<1>5. [op |-> "none"].op \notin Ops
  BY DEF Ops
<1> QED
  BY <1>2, <1>3, <1>4, <1>5 DEF Idle, Abstract!NoOrder, j

LEMMA Standstill ==
  ASSUME UNCHANGED <<pool, cells>>
  PROVE  UNCHANGED <<bank, shares, pot, round>>
<1>1. pool' = pool /\ cells' = cells
  OBVIOUS
<1> QED
  BY <1>1 DEF bank, shares, pot, round

LEMMA BeginsMaps ==
  ASSUME IInv, Books, NEW who \in Players, Begins(who), UNCHANGED <<pool, cells>>
  PROVE  Abstract!Place(who) \/ UNCHANGED Abstract!vars
<1>1. PICK order, p, todo :
        /\ Start(who, order, p, todo)
        /\ ReadingOk(who, Begun(order, p, todo))
        /\ ReadingFit(who, Begun(order, p, todo))
        /\ ReadingBooks(who, Begun(order, p, todo))
  BY DEF Begins
<1> DEFINE j == Begun(order, p, todo)
<1>2. job[who] = Idle /\ GoOn(who, Built(who, j)) /\ j.order = order
  BY <1>1 DEF Start, Begun
<1>3. order.op \in Ops
  BY <1>1, <1>2 DEF ReadingOk
<1>4. orders[who] = Abstract!NoOrder
  BY <1>2, OrderIs DEF Idle
<1> HIDE DEF j
<1>5. \A k \in Built(who, j) : k # Idle /\ k.order = order
  BY <1>1, <1>2, BuiltBooks DEF j
<1>6. CASE Built(who, j) = {}
  <2>1. job' = job
    BY <1>2, <1>6 DEF GoOn, IInv, JobsOk
  <2>2. orders' = orders
    BY <2>1 DEF orders
  <2> QED
    BY <2>2, Standstill DEF Abstract!vars
<1>7. CASE Built(who, j) # {}
  <2>1. PICK k \in Built(who, j) : job' = [job EXCEPT ![who] = k]
    BY <1>2, <1>7 DEF GoOn
  <2>2. orders' = [orders EXCEPT ![who] = order]
    BY <1>5, <2>1, OrdersMove
  <2>3. order # Abstract!NoOrder
    BY <1>3 DEF Ops, Abstract!NoOrder
  <2>4. orders'[who] = order
    BY <2>2 DEF orders
  <2> QED
    BY <1>4, <2>2, <2>3, <2>4, Standstill DEF Abstract!Place
<1> QED
  BY <1>6, <1>7

LEMMA GoesMaps ==
  ASSUME IInv, Books, NEW who \in Players, job[who].at # "idle", Goes(who),
         UNCHANGED <<pool, cells>>
  PROVE  Abstract!GiveUp(who) \/ UNCHANGED Abstract!vars
<1>1. PICK next : /\ GoOn(who, next)
                  /\ \A k \in next : k # Idle /\ k.order = job[who].order
  BY DEF Goes
<1>2. orders[who] = job[who].order /\ orders[who] # Abstract!NoOrder
  BY OrderIs
<1>3. CASE next = {}
  <2>1. Abstract!Clear(who)
    BY <1>1, <1>3, OrdersMove DEF GoOn
  <2> QED
    BY <1>2, <2>1, Standstill DEF Abstract!GiveUp
<1>4. CASE next # {}
  <2>1. PICK k \in next : job' = [job EXCEPT ![who] = k]
    BY <1>1, <1>4 DEF GoOn
  <2>0. k # Idle /\ k.order = orders[who]
    BY <1>1, <1>2, <2>1
  <2>4. orders' = [orders EXCEPT ![who] = k.order]
    BY <2>0, <2>1, OrdersMove
  <2>2. orders' = [orders EXCEPT ![who] = orders[who]]
    BY <2>0, <2>4
  <2>3. orders' = orders
    BY <2>2 DEF orders
  <2> QED
    BY <2>3, Standstill DEF Abstract!vars
<1> QED
  BY <1>3, <1>4

(***************************************************************************)
(* A transaction that its owner signed has landed.                         *)
(***************************************************************************)
Landed(tx, who) ==
  /\ Land(tx, SeenPools, SeenCells)
  /\ Accepts(tx, who) /\ Owned(tx, who) /\ Even(tx)
  /\ tx.ins \subseteq cells
  /\ Sides(tx.prev) /\ Sides(tx.next)
  /\ Fresh(tx)

LEMMA SharesNat ==
  ASSUME LedgerSound'
  PROVE  bank' \in [Players -> Nat] /\ shares' \in [Players -> [Side -> Nat]]
<1>1. Good(cells')
  BY DEF LedgerSound
<1>2. ASSUME NEW k, NEW w
      PROVE  Total(CellsOf(cells', k, w)) \in Nat
  <2>1. CellsOf(cells', k, w) \subseteq cells'
    BY DEF CellsOf
  <2> QED
    BY <1>1, <2>1, GoodParts, TotalNat
<1> QED
  BY <1>2 DEF bank, shares

LEMMA TradeMaps ==
  ASSUME IInv, Fits, Books, LedgerSound', NEW tx, NEW who \in Players, Landed(tx, who),
         NEW d \in [Side -> Int], NEW paid \in Int,
         tx.prev # NoPool, tx.next # NoPool,
         tx.prev.status = "OPEN", tx.next.status = "OPEN",
         \A s \in Side : tx.next.total[s] = tx.prev.total[s] + d[s],
         PotOut(tx) = PotIn(tx) + paid
  PROVE  Abstract!Trade(who, d, paid)
<1> DEFINE over == PotIn(tx) - PotOut(tx)
<1>1. /\ over \in Int
      /\ bank' = [bank EXCEPT ![who] = @ + over]
      /\ pot' = pot - over
      /\ shares' = [shares EXCEPT ![who] =
                      [s \in Side |-> @[s] - share_in(tx, s) + share_out(tx, s)]]
      /\ \A s \in Side : share_in(tx, s) \in Nat /\ share_out(tx, s) \in Nat
  BY LandBooks DEF Landed
<1>2. /\ bank \in [Players -> Nat] /\ shares \in [Players -> [Side -> Nat]]
      /\ pot \in Int
      /\ round = IF pool = NoPool THEN NoPool ELSE Face(pool)
  BY BooksTypes DEF Fits, LedgerSound
<1>3. bank' \in [Players -> Nat] /\ shares' \in [Players -> [Side -> Nat]]
  BY SharesNat
<1>4. over = 0 - paid
  <2>1. PotIn(tx) \in Int
    <3>1. Amount(tx.ins, "treasury") \in Nat
      BY AmountNat DEF Landed, Owned
    <3> QED
      BY <3>1 DEF PotIn, Cap, Landed, Sides, PoolSound
  <2> DEFINE a == PotIn(tx)
             b == PotOut(tx)
  <2>2. a \in Int /\ b = a + paid
    BY <2>1
  <2> HIDE DEF a, b
  <2>3. a - b = 0 - paid
    BY <2>2
  <2> QED
    BY <2>3 DEF a, b
<1> HIDE DEF over
<1>5. tx.prev = pool /\ PoolSound(pool) /\ PoolSound(tx.next)
  BY DEF Landed, Fresh, Sides
<1>6. validate_deposit(tx) /\ tx.next.rake_bps = tx.prev.rake_bps
  <2>1. validate_transition(tx)
    BY DEF Landed, Accepts, pool_type
  <2> QED
    BY <2>1 DEF validate_transition, PhaseSteps
<1>7. \A s \in Side : share_out(tx, s) = share_in(tx, s) + d[s]
  <2> TAKE s \in Side
  <2>1. share_out(tx, s) + pool.total[s] = share_in(tx, s) + tx.next.total[s]
    BY <1>5, <1>6 DEF validate_deposit
  <2>2. tx.next.total[s] = pool.total[s] + d[s] /\ pool.total[s] \in Nat
    BY <1>5 DEF PoolSound
  <2> QED
    BY <1>1, <2>1, <2>2
<1>8. bank' = [bank EXCEPT ![who] = @ - paid] /\ bank[who] >= paid /\ pot' = pot + paid
  <2>1. bank[who] + over = bank[who] - paid /\ pot - over = pot + paid
    BY <1>1, <1>2, <1>4
  <2>2. bank' = [bank EXCEPT ![who] = @ - paid]
    BY <1>1, <2>1
  <2>3. bank'[who] = bank[who] - paid
    BY <1>2, <2>2
  <2>4. bank'[who] \in Nat /\ bank[who] \in Nat
    BY <1>2, <1>3
  <2>5. bank[who] >= paid
    BY <2>3, <2>4
  <2> QED
    BY <1>1, <2>1, <2>2, <2>5
<1>9. /\ shares' = [shares EXCEPT ![who] = [s \in Side |-> @[s] + d[s]]]
      /\ \A s \in Side : shares[who][s] + d[s] >= 0
  <2>1. \A s \in Side : shares[who][s] - share_in(tx, s) + share_out(tx, s) = shares[who][s] + d[s]
    <3> TAKE s \in Side
    <3>1. shares[who][s] \in Nat /\ share_in(tx, s) \in Nat /\ d[s] \in Int
      BY <1>1, <1>2
    <3> QED
      BY <1>7, <3>1
  <2>2. [s \in Side |-> shares[who][s] - share_in(tx, s) + share_out(tx, s)] =
          [s \in Side |-> shares[who][s] + d[s]]
    BY <2>1
  <2>3. shares' = [shares EXCEPT ![who] = [s \in Side |-> @[s] + d[s]]]
    BY <1>1, <2>2
  <2>4. \A s \in Side : shares'[who][s] = shares[who][s] + d[s]
    BY <1>2, <2>3
  <2>5. \A s \in Side : shares'[who][s] \in Nat
    BY <1>3
  <2> QED
    BY <2>3, <2>4, <2>5
<1>10. round' = [round EXCEPT !.total = [s \in Side |-> @[s] + d[s]]] /\ round.status = "OPEN"
  <2>1. round' = Face(tx.next)
    BY LandPool DEF Landed
  <2>2. round = Face(pool)
    BY <1>2, <1>5
  <2>3. tx.next.total = [s \in Side |-> pool.total[s] + d[s]]
    <3>1. tx.next.total = [s \in Side |-> tx.next.total[s]]
      BY <1>5 DEF PoolSound
    <3> QED
      BY <1>5, <3>1
  <2>4. tx.next.winner = pool.winner /\ tx.next.status = pool.status
        /\ tx.next.rake_bps = pool.rake_bps
    BY <1>5, <1>6 DEF validate_deposit
  <2> QED
    BY <1>5, <2>1, <2>2, <2>3, <2>4 DEF Face
<1> QED
  BY <1>8, <1>9, <1>10 DEF Abstract!Trade, Abstract!Side, Side

LEMMA SentIs ==
  ASSUME IInv, Fits, Books, NEW who \in Players, signAndSend(who), Lands(who)
  PROVE  LET j == job[who]
             tx == j.tx
         IN  /\ Landed(tx, who) /\ TxFor(j.order.op, tx) /\ Does(who, j.order, tx)
             /\ orders[who] = j.order
             /\ j.order.op = "redeem" =>
                  \A s \in Side : Due(pool, s) => CellsOf(cells, s, who) \subseteq tx.ins
             /\ tx.prev # NoPool /\ tx.next = NoPool => Carried(pool, tx.ins)
<1> DEFINE j == job[who]
           tx == j.tx
<1>1. SendingOk(who, j) /\ SendingFit(who, j) /\ SendingBooks(who, j) /\ j.at = "complete"
  <2>1. JobOk(who, j) /\ j.at = "complete" /\ JobFit(who, j) /\ JobBooks(who, j)
    BY DEF signAndSend, IInv, JobsOk, Fits, Books
  <2> HIDE DEF j
  <2> QED
    BY <2>1 DEF JobOk, Idle, ReadingOk, JobFit, JobBooks
<1>2. /\ Land(tx, SeenPools, SeenCells) /\ Accepts(tx, who)
      /\ tx.prev \in {NoPool, pool} /\ tx.ins \subseteq cells
  BY DEF signAndSend, Lands, Live
<1>3. orders[who] = j.order
  BY <1>1, OrderIs
<1>4. /\ TxFor(j.order.op, tx) /\ OnlyFirst(who, j.order.op)
      /\ Sides(tx.prev) /\ Sides(tx.next)
      /\ Owned(tx, who) /\ Does(who, j.order, tx)
      /\ tx.prev # NoPool /\ tx.next = NoPool => Carried(tx.prev, tx.ins)
  BY <1>1 DEF SendingOk, SendingFit, SendingBooks
<1>5. Even(tx)
  <2>1. j.order.op = "close" => tx.header
    BY <1>1, <1>2 DEF SendingFit, Accepts, pool_type, validate_close
  <2> QED
    BY <1>1, <1>2, <2>1 DEF SendingBooks
<1>6. Fresh(tx)
  <2>1. ASSUME tx.prev = NoPool, tx.next # NoPool
        PROVE  pool = NoPool
    <3>1. j.order.op = "create"
      BY <1>4, <2>1 DEF TxFor
    <3>2. ~born
      BY <1>4, <3>1 DEF OnlyFirst
    <3> QED
      BY <3>2 DEF IInv, PoolOk
  <2> QED
    BY <1>2, <2>1 DEF Fresh
<1>7. Landed(tx, who)
  BY <1>2, <1>4, <1>5, <1>6 DEF Landed
<1>8. j.order.op = "redeem" =>
        \A s \in Side : Due(pool, s) => CellsOf(cells, s, who) \subseteq tx.ins
  <2>1. j.order.op = "redeem" => tx.prev = pool
    BY <1>2, <1>4 DEF Does, Redeems
  <2> QED
    BY <1>1, <2>1 DEF SendingBooks
<1>9. tx.prev # NoPool /\ tx.next = NoPool => Carried(pool, tx.ins)
  BY <1>2, <1>4
<1> QED
  BY <1>3, <1>4, <1>7, <1>8, <1>9

\* One lemma for each order that is fulfilled.
LEMMA DepositMaps ==
  ASSUME IInv, Fits, Books, LedgerSound', NEW tx, NEW who \in Players, Landed(tx, who),
         NEW want \in [Side -> Nat], Trades(tx, want)
  PROVE  Abstract!Trade(who, want, Abstract!Sum(want))
<1>1. want["UP"] \in Nat /\ want["DOWN"] \in Nat /\ want \in [Side -> Int]
  BY DEF Side
<1>2. Abstract!Sum(want) = want["UP"] + want["DOWN"] /\ Abstract!Sum(want) \in Int
  BY <1>1 DEF Abstract!Sum
<1> QED
  BY <1>1, <1>2, TradeMaps DEF Trades

LEMMA WithdrawMaps ==
  ASSUME IInv, Fits, Books, LedgerSound', NEW tx, NEW who \in Players, Landed(tx, who),
         NEW want \in [Side -> Nat], Trades(tx, [s \in Side |-> 0 - want[s]])
  PROVE  Abstract!Trade(who, [s \in Abstract!Side |-> 0 - want[s]], 0 - Abstract!Sum(want))
<1> DEFINE less == [s \in Side |-> 0 - want[s]]
           paid == 0 - Abstract!Sum(want)
<1>1. want["UP"] \in Nat /\ want["DOWN"] \in Nat
  BY DEF Side
<1>2. /\ less \in [Side -> Int]
      /\ less["UP"] = 0 - want["UP"] /\ less["DOWN"] = 0 - want["DOWN"]
  BY <1>1 DEF Side
<1>3. paid = less["UP"] + less["DOWN"] /\ paid \in Int
  <2>1. paid = 0 - (want["UP"] + want["DOWN"])
    BY DEF Abstract!Sum
  <2> HIDE DEF paid, less
  <2> QED
    BY <1>1, <1>2, <2>1
<1>4. less = [s \in Abstract!Side |-> 0 - want[s]]
  BY DEF Abstract!Side, Side
<1>5. Trades(tx, less)
  OBVIOUS
<1> SUFFICES Abstract!Trade(who, less, paid)
  BY <1>4
<1> HIDE DEF less, paid
<1>6. /\ tx.prev # NoPool /\ tx.next # NoPool
      /\ tx.prev.status = "OPEN" /\ tx.next.status = "OPEN"
      /\ \A s \in Side : tx.next.total[s] = tx.prev.total[s] + less[s]
      /\ PotOut(tx) = PotIn(tx) + paid
  BY <1>3, <1>5 DEF Trades
<1> QED
  BY <1>2, <1>3, <1>6, TradeMaps

\* An order that moves no money.
LEMMA EvenMaps ==
  ASSUME IInv, Fits, Books, NEW tx, NEW who \in Players, Landed(tx, who),
         PotIn(tx) = 0, PotOut(tx) = 0
  PROVE  bank' = bank /\ pot' = pot
<1>1. /\ bank' = [bank EXCEPT ![who] = @ + (PotIn(tx) - PotOut(tx))]
      /\ pot' = pot - (PotIn(tx) - PotOut(tx))
  BY LandBooks DEF Landed
<1>2. bank \in [Players -> Nat] /\ pot \in Int
  BY BooksTypes DEF Fits, LedgerSound
<1>3. bank[who] + (0 - 0) = bank[who] /\ pot - (0 - 0) = pot
  BY <1>2
<1>4. bank' = [bank EXCEPT ![who] = bank[who]]
  BY <1>1, <1>3
<1> QED
  BY <1>1, <1>2, <1>3, <1>4

LEMMA NoSharesMove ==
  ASSUME NEW S, NoShares(S), NEW s \in Side
  PROVE  Amount(S, s) = 0
BY TotalNone DEF NoShares, Amount

LEMMA BurnMaps ==
  ASSUME IInv, Fits, Books, LedgerSound', NEW tx, NEW who \in Players, Landed(tx, who),
         NEW sides, Burns(tx, sides)
  PROVE  /\ shares' = [shares EXCEPT ![who] = shares'[who]]
         /\ \A s \in Side :
              shares'[who][s] \in IF s \in sides THEN 0 .. shares[who][s] ELSE {shares[who][s]}
         /\ UNCHANGED <<bank, pot, round>>
<1>1. PotIn(tx) = 0 /\ PotOut(tx) = 0
  <2>1. Cap(tx.prev) = 0 /\ Cap(tx.next) = 0
    BY DEF Burns, Cap
  <2>2. Amount(tx.ins, "treasury") = 0 /\ Amount(tx.outs, "treasury") = 0
    BY TotalNone DEF Burns, Amount
  <2> QED
    BY <2>1, <2>2 DEF PotIn, PotOut
<1>2. bank' = bank /\ pot' = pot
  BY <1>1, EvenMaps
<1>3. round' = round
  BY LandPool DEF Landed, Burns
<1>4. /\ shares' = [shares EXCEPT ![who] =
                      [s \in Side |-> @[s] - share_in(tx, s) + share_out(tx, s)]]
      /\ \A s \in Side : share_in(tx, s) \in Nat
  BY LandBooks DEF Landed
<1>5. shares \in [Players -> [Side -> Nat]]
  BY BooksTypes DEF Fits, LedgerSound
<1>6. shares' \in [Players -> [Side -> Nat]]
  BY SharesNat
<1>7. shares' = [shares EXCEPT ![who] = shares'[who]]
  BY <1>4, <1>5
<1>8. ASSUME NEW s \in Side
      PROVE  shares'[who][s] \in IF s \in sides THEN 0 .. shares[who][s] ELSE {shares[who][s]}
  <2>1. share_out(tx, s) = 0 /\ (s \notin sides => share_in(tx, s) = 0)
    BY NoSharesMove, TotalNone DEF Burns, share_out, share_in, Amount
  <2>2. shares'[who][s] = shares[who][s] - share_in(tx, s) + share_out(tx, s)
    BY <1>4, <1>5
  <2>3. shares'[who][s] \in Nat /\ shares[who][s] \in Nat /\ share_in(tx, s) \in Nat
    BY <1>4, <1>5, <1>6
  <2> DEFINE a == shares'[who][s]
             b == shares[who][s]
             c == share_in(tx, s)
  <2>4. a = b - c /\ a \in Nat /\ b \in Nat /\ c \in Nat /\ (s \notin sides => c = 0)
    BY <2>1, <2>2, <2>3
  <2> HIDE DEF a, b, c
  <2>5. a \in 0 .. b /\ (s \notin sides => a = b)
    BY <2>4
  <2> QED
    BY <2>5 DEF a, b
<1> QED
  BY <1>2, <1>3, <1>7, <1>8

LEMMA CreateMaps ==
  ASSUME IInv, Fits, Books, NEW tx, NEW who \in Players, Landed(tx, who),
         NEW r, Creates(tx, r)
  PROVE  /\ round = Abstract!NoRound
         /\ round' = [status |-> "OPEN", winner |-> "UNDECIDED",
                      total |-> [s \in Abstract!Side |-> 0], rake_bps |-> r.rake_bps]
         /\ UNCHANGED <<bank, shares, pot>>
<1>1. tx.prev = NoPool /\ tx.next # NoPool /\ pool = NoPool
  BY DEF Creates, Landed, Fresh
<1>2. bank' = bank /\ pot' = pot
  BY EvenMaps DEF Creates
<1>3. round = Abstract!NoRound
  BY <1>1 DEF round, NoPool, Abstract!NoRound
<1>4. validate_create(tx) /\ tx.next.rake_bps = r.rake_bps
  BY <1>1 DEF Creates, Landed, Accepts, pool_type
<1>5. round' = Face(tx.next)
  BY <1>1, LandPool DEF Landed
<1>6. Face(tx.next) = [status |-> "OPEN", winner |-> "UNDECIDED",
                       total |-> Zero, rake_bps |-> r.rake_bps]
  BY <1>4 DEF validate_create, Face
<1>7. Zero = [s \in Abstract!Side |-> 0]
  BY DEF Zero, Abstract!Side, Side
<1>8. shares' = shares
  <2>1. shares' = [shares EXCEPT ![who] =
                     [s \in Side |-> @[s] - share_in(tx, s) + share_out(tx, s)]]
    BY LandBooks DEF Landed
  <2>2. shares \in [Players -> [Side -> Nat]]
    BY BooksTypes DEF Fits, LedgerSound
  <2>3. \A s \in Side : share_in(tx, s) = 0 /\ share_out(tx, s) = 0
    BY NoSharesMove DEF Creates, share_in, share_out
  <2>4. \A s \in Side : shares[who][s] - share_in(tx, s) + share_out(tx, s) = shares[who][s]
    BY <2>2, <2>3
  <2>5. [s \in Side |-> shares[who][s] - share_in(tx, s) + share_out(tx, s)] = shares[who]
    BY <2>2, <2>4
  <2>6. shares' = [shares EXCEPT ![who] = shares[who]]
    BY <2>1, <2>5
  <2> QED
    BY <2>2, <2>6
<1> QED
  BY <1>2, <1>3, <1>5, <1>6, <1>7, <1>8

LEMMA CloseMaps ==
  ASSUME IInv, Fits, Books, NEW tx, NEW who \in Players, Landed(tx, who),
         NEW op, TxFor(op, tx), tx.prev # NoPool, tx.next = NoPool, Carried(pool, tx.ins)
  PROVE  /\ round.status \in {"FINALIZED", "VOID"}
         /\ bank' = [bank EXCEPT ![who] = @ + pot]
         /\ pot' = 0
         /\ round' = Abstract!NoRound
         /\ UNCHANGED shares
<1>1. tx.prev = pool /\ pool # NoPool
  BY DEF Landed, Fresh
<1>2. validate_close(tx)
  BY DEF Landed, Accepts, pool_type
<1>3. round = Face(pool)
  BY <1>1, BooksTypes DEF Fits, LedgerSound
<1>4. round.status \in {"FINALIZED", "VOID"}
  BY <1>1, <1>2, <1>3 DEF validate_close, Face
<1>5. round' = Abstract!NoRound
  BY LandPool DEF Landed, NoPool, Abstract!NoRound
<1>6. /\ bank \in [Players -> Nat] /\ shares \in [Players -> [Side -> Nat]]
      /\ pot \in Int /\ pot = Amount(cells, "treasury") + Cap(pool)
  BY BooksTypes DEF Fits, LedgerSound
<1>7. PotIn(tx) = pot
  <2>1. OfKind(tx.ins, "treasury") = OfKind(cells, "treasury")
    BY DEF Carried, Landed, OfKind
  <2> QED
    BY <1>1, <1>6, <2>1 DEF PotIn, Amount
<1>8. PotOut(tx) = 0
  <2>1. OfKind(tx.outs, "treasury") = {}
    BY DEF TxFor, NoTreasury, OfKind
  <2>2. Amount(tx.outs, "treasury") = 0 /\ Cap(tx.next) = 0
    BY <2>1, TotalNone DEF Amount, Cap
  <2> QED
    BY <2>2 DEF PotOut
<1>9. /\ bank' = [bank EXCEPT ![who] = @ + (PotIn(tx) - PotOut(tx))]
      /\ pot' = pot - (PotIn(tx) - PotOut(tx))
      /\ shares' = [shares EXCEPT ![who] =
                     [s \in Side |-> @[s] - share_in(tx, s) + share_out(tx, s)]]
      /\ \A s \in Side : share_in(tx, s) \in Nat /\ share_out(tx, s) \in Nat
  BY LandBooks DEF Landed
<1>10. pot - 0 = pot /\ pot - pot = 0
  BY <1>6
<1>11. bank' = [bank EXCEPT ![who] = @ + pot] /\ pot' = 0
  BY <1>7, <1>8, <1>9, <1>10
<1>12. shares' = shares
  <2>1. \A s \in Side : shares[who][s] - share_in(tx, s) + share_out(tx, s) = shares[who][s]
    <3> TAKE s \in Side
    <3>1. share_out(tx, s) = share_in(tx, s)
      BY <1>2 DEF validate_close, shares_frozen
    <3>2. shares[who][s] \in Nat /\ share_in(tx, s) \in Nat
      BY <1>6, <1>9
    <3> QED
      BY <3>1, <3>2
  <2>2. [s \in Side |-> shares[who][s] - share_in(tx, s) + share_out(tx, s)] = shares[who]
    BY <1>6, <2>1
  <2>3. shares' = [shares EXCEPT ![who] = shares[who]]
    BY <1>9, <2>2
  <2> QED
    BY <1>6, <2>3
<1> QED
  BY <1>4, <1>5, <1>11, <1>12

LEMMA DecideMaps ==
  ASSUME IInv, Fits, Transition
  PROVE  Abstract!Decide
<1>1. PICK tx : /\ Land(tx, SeenPools, SeenCells) /\ job' = job
                /\ tx.prev = pool /\ tx.ins = {} /\ tx.outs = {}
                /\ PoolSound(pool) /\ PoolSound(tx.next)
                /\ <<pool.status, tx.next.status>> \in PhaseSteps
                /\ tx.next.total = pool.total /\ tx.next.capacity = pool.capacity
                /\ tx.next.rake_bps = pool.rake_bps
  <2>1. PICK tx : /\ Land(tx, SeenPools, SeenCells) /\ job' = job
                  /\ tx.prev = pool /\ tx.ins = {} /\ tx.outs = {}
                  /\ PoolSound(pool) /\ PoolSound(tx.next)
                  /\ <<pool.status, tx.next.status>> \in PhaseSteps
                  /\ \A f \in {"total", "capacity", "rake_bps"} : tx.next[f] = pool[f]
    BY TransitionIs
  <2>2. /\ tx.next.total = pool.total /\ tx.next.capacity = pool.capacity
        /\ tx.next.rake_bps = pool.rake_bps
    BY <2>1
  <2> QED
    BY <2>1, <2>2
<1>2. pool # NoPool /\ tx.next # NoPool
  BY <1>1, PoolIsSome DEF PoolSound
<1>3. cells' = cells
  BY <1>1 DEF Land
<1>4. round' = Face(tx.next) /\ Cap(pool') = Cap(pool)
  BY <1>1, <1>2, LandPool DEF Sides, Cap
<1>5. round = Face(pool)
  BY <1>2 DEF round, Face
<1>6. bank' = bank /\ shares' = shares /\ orders' = orders
  BY <1>1, <1>3 DEF bank, shares, orders
<1>7. pot' = pot
  BY <1>3, <1>4 DEF pot, Cap
<1>8. /\ round.status = pool.status /\ round'.status = tx.next.status
      /\ round'.winner = tx.next.winner
  BY <1>4, <1>5 DEF Face
<1>9. /\ round.status \in {"OPEN", "LOCKED", "SETTLED"}
      /\ round'.status \in {"LOCKED", "SETTLED", "FINALIZED", "VOID"}
  BY <1>1, <1>8 DEF PhaseSteps
<1>10. round' = [round EXCEPT !.status = round'.status, !.winner = round'.winner]
  BY <1>1, <1>4, <1>5, <1>8 DEF Face
<1> QED
  BY <1>6, <1>7, <1>9, <1>10 DEF Abstract!Decide

LEMMA ForeignMaps ==
  ASSUME IInv, Fits, Books, LedgerSound', NEW h \in Holders, NEW want \in Stakes[h],
         ForeignDeposit(h, want)
  PROVE  Abstract!Overpay(h)
<1>1. PICK tx : /\ Accepts(tx, h) /\ Land(tx, SeenPools, SeenCells) /\ job' = job
                /\ tx.prev = pool /\ tx.ins \subseteq cells
                /\ PoolSound(pool) /\ PoolSound(tx.next)
                /\ pool.status = "OPEN" /\ tx.next.status = "OPEN"
                /\ \A s \in Side : tx.next.total[s] = pool.total[s] + want[s]
                /\ want \in [Side -> Nat]
                /\ Owned(tx, h) /\ Even(tx)
                /\ PotOut(tx) = PotIn(tx) + Staked(tx.next)
  BY ForeignIs
<1>2. pool # NoPool /\ tx.next # NoPool
  BY <1>1, PoolIsSome DEF PoolSound
<1>3. Landed(tx, h)
  BY <1>1 DEF Landed, Sides, Fresh
<1>4. want \in [Side -> Int] /\ Staked(tx.next) \in Int
  BY <1>1 DEF PoolSound, Staked, Side
<1>5. Abstract!Trade(h, want, Staked(tx.next))
  BY <1>1, <1>2, <1>3, <1>4, TradeMaps DEF Players
<1>6. round' = Face(tx.next) /\ round = Face(pool)
  BY <1>1, <1>2, LandPool DEF Sides, round, Face
<1>7. /\ round.status = "OPEN" /\ round'.status = "OPEN"
      /\ round.total = pool.total /\ round'.total = tx.next.total
  BY <1>1, <1>6 DEF Face
<1>8. Staked(tx.next) = Abstract!Sum(round'.total)
  BY <1>7 DEF Staked, Abstract!Sum
<1>9. want = [s \in Abstract!Side |-> round'.total[s] - round.total[s]]
  <2>1. \A s \in Side : want[s] = round'.total[s] - round.total[s]
    <3> TAKE s \in Side
    <3>1. want[s] \in Nat /\ pool.total[s] \in Nat /\ tx.next.total[s] = pool.total[s] + want[s]
      BY <1>1 DEF PoolSound
    <3> QED
      BY <1>7, <3>1
  <2>2. want = [s \in Side |-> want[s]]
    BY <1>1
  <2> QED
    BY <2>1, <2>2 DEF Abstract!Side, Side
<1>10. \A s \in Abstract!Side : want[s] >= 0
  BY <1>1 DEF Abstract!Side, Side
<1>11. orders' = orders
  BY <1>1 DEF orders
<1> QED
  BY <1>5, <1>7, <1>8, <1>9, <1>10, <1>11 DEF Abstract!Overpay

\* The payout of Accounts is the payout of the contract.
LEMMA SamePayout ==
  ASSUME NEW x, NEW w, NEW l, NEW bps
  PROVE  Abstract!payout(x, w, l, bps) = payout(x, w, l, bps)
<1>1. Abstract!distributable(l, bps) = distributable(l, bps)
  BY DEF Abstract!distributable, Abstract!rake, Abstract!mul_div_floor, Abstract!RAKE_BPS_MAX,
     distributable, rake, mul_div_floor, RAKE_BPS_MAX
<1> QED
  BY <1>1 DEF Abstract!payout, Abstract!mul_div_floor, payout, mul_div_floor

\* What a redeem finds of its owner's shares is all of them.
LEMMA RedeemBurns ==
  ASSUME NEW tx, NEW who \in Players, Landed(tx, who), Redeems(tx), NEW s \in Side,
         CellsOf(cells, s, who) \subseteq tx.ins
  PROVE  share_in(tx, s) = shares[who][s]
<1>1. CellsOf(tx.ins, s, who) = OfKind(tx.ins, s)
  BY OwnedParts DEF Landed, Side
<1>2. CellsOf(tx.ins, s, who) = CellsOf(cells, s, who)
  BY DEF Landed, CellsOf
<1> QED
  BY <1>1, <1>2 DEF share_in, Amount, shares

\* What the treasury pays is what leaves the pot.
LEMMA TreasuryPays ==
  ASSUME IInv, Fits, NEW tx, NEW who, Landed(tx, who), NEW op, TxFor(op, tx),
         tx.prev # NoPool, tx.next # NoPool, tx.next.variant = tx.prev.variant,
         NEW paid \in Int, treasury_pays(tx, paid)
  PROVE  PotIn(tx) - PotOut(tx) = paid
<1> DEFINE a == Amount(tx.ins, "treasury")
           b == Amount(tx.outs, "treasury")
           p == tx.prev.capacity
           q == tx.next.capacity
<1>1. PotIn(tx) = a + p /\ PotOut(tx) = b + q
  BY DEF PotIn, PotOut, Cap
<1>2. a \in Nat /\ b \in Nat /\ p \in Int /\ q \in Int
  BY AmountNat DEF Landed, Owned, Sides, PoolSound
<1>3. CASE tx.prev.variant = "XUDT"
  <2>1. b = a - paid /\ q = p
    BY <1>3 DEF treasury_pays, treasury_balance_is, pool_capacity_unchanged
  <2> HIDE DEF a, b, p, q
  <2> QED
    BY <1>1, <1>2, <2>1
<1>4. CASE tx.prev.variant # "XUDT"
  <2>1. q = p - paid
    BY <1>4 DEF treasury_pays
  <2>2. tx.prev = pool
    BY DEF Landed, Fresh
  <2>3. OfKind(tx.ins, "treasury") = {}
    BY <1>4, <2>2 DEF IInv, PoolOk, NoTreasury, Landed, OfKind
  <2>4. OfKind(tx.outs, "treasury") = {}
    BY <1>4 DEF TxFor, NoTreasury, OfKind
  <2>5. a = 0 /\ b = 0
    BY <2>3, <2>4, TotalNone DEF Amount
  <2> HIDE DEF a, b, p, q
  <2> QED
    BY <1>1, <1>2, <2>1, <2>5
<1> QED
  BY <1>3, <1>4

LEMMA RedeemMaps ==
  ASSUME IInv, Fits, Books, NEW tx, NEW who \in Players, Landed(tx, who),
         NEW op, TxFor(op, tx), Redeems(tx),
         \A s \in Side : Due(pool, s) => CellsOf(cells, s, who) \subseteq tx.ins
  PROVE  /\ round.status \in {"FINALIZED", "VOID"}
         /\ bank' = [bank EXCEPT ![who] = @ + Abstract!Claim(who)]
         /\ pot' = pot - Abstract!Claim(who)
         /\ shares' = [shares EXCEPT ![who] = [s \in Abstract!Side |->
                         IF Abstract!Refunded \/ s = round.winner THEN 0 ELSE @[s]]]
         /\ UNCHANGED round
<1> DEFINE w == pool.winner
           x(s) == share_in(tx, s)
<1>1. /\ tx.prev = pool /\ pool # NoPool /\ tx.next # NoPool
      /\ pool.status \in {"FINALIZED", "VOID"} /\ tx.next.status = pool.status
      /\ PoolSound(pool)
  BY DEF Redeems, Landed, Fresh, Sides
<1>2. /\ validate_redeem(tx)
      /\ tx.next.variant = pool.variant /\ tx.next.rake_bps = pool.rake_bps
  <2>1. validate_transition(tx)
    BY <1>1 DEF Landed, Accepts, pool_type
  <2> QED
    BY <1>1, <2>1 DEF validate_transition, PhaseSteps
<1>3. /\ round = Face(pool) /\ round' = Face(tx.next)
  BY <1>1, BooksTypes, LandPool DEF Landed, Fits, LedgerSound
<1>4. /\ round.status = pool.status /\ round.winner = w
      /\ round.total = pool.total /\ round.rake_bps = pool.rake_bps
  BY <1>3 DEF Face
<1>5. round' = round
  <2>1. tx.next.total = pool.total /\ tx.next.winner = w
    BY <1>1, <1>2 DEF validate_redeem
  <2> QED
    BY <1>1, <1>2, <1>3, <2>1 DEF Face
<1>6. Abstract!Refunded <=> refunds(pool)
  BY <1>4 DEF Abstract!Refunded, refunds
<1>7. /\ bank \in [Players -> Nat] /\ shares \in [Players -> [Side -> Nat]]
      /\ pot \in Int
  BY BooksTypes DEF Fits, LedgerSound
<1>8. /\ bank' = [bank EXCEPT ![who] = @ + (PotIn(tx) - PotOut(tx))]
      /\ pot' = pot - (PotIn(tx) - PotOut(tx))
      /\ shares' = [shares EXCEPT ![who] =
                     [s \in Side |-> @[s] - share_in(tx, s) + share_out(tx, s)]]
      /\ \A s \in Side : share_in(tx, s) \in Nat /\ share_out(tx, s) \in Nat
  BY LandBooks DEF Landed
<1>9. \A s \in Side : share_out(tx, s) = 0 /\ share_in(tx, s) - share_out(tx, s) = share_in(tx, s)
  <2>1. \A s \in Side : share_out(tx, s) = 0
    BY NoSharesMove DEF Redeems, share_out
  <2> QED
    BY <1>8, <2>1
<1>10. \A s \in Side : Due(pool, s) => share_in(tx, s) = shares[who][s]
  BY RedeemBurns
<1>11. "UP" \in Side /\ "DOWN" \in Side
  BY DEF Side
<1>12. CASE refunds(pool)
  <2> DEFINE paid == x("UP") + x("DOWN")
  <2>1. treasury_pays(tx, paid)
    <3>1. treasury_pays(tx, (share_in(tx, "UP") - share_out(tx, "UP"))
                              + (share_in(tx, "DOWN") - share_out(tx, "DOWN")))
      BY <1>1, <1>2, <1>11, <1>12 DEF validate_redeem
    <3> QED
      BY <1>9, <1>11, <3>1
  <2>2. paid \in Int
    BY <1>8, <1>11
  <2>3. PotIn(tx) - PotOut(tx) = paid
    BY <1>1, <1>2, <2>1, <2>2, TreasuryPays
  <2>4. \A s \in Side : share_in(tx, s) = shares[who][s]
    BY <1>10, <1>12 DEF Due
  <2>5. Abstract!Claim(who) = paid
    BY <1>6, <1>11, <1>12, <2>4 DEF Abstract!Claim, Abstract!Sum
  <2>6. [s \in Side |-> shares[who][s] - share_in(tx, s) + share_out(tx, s)] =
          [s \in Side |-> 0]
    <3>1. \A s \in Side : shares[who][s] - share_in(tx, s) + share_out(tx, s) = 0
      BY <1>7, <1>9, <2>4
    <3> QED
      BY <3>1
  <2>7. [s \in Abstract!Side |->
           IF Abstract!Refunded \/ s = round.winner THEN 0 ELSE shares[who][s]] =
          [s \in Side |-> 0]
    BY <1>6, <1>12 DEF Abstract!Side, Side
  <2> HIDE DEF paid
  <2> QED
    BY <1>1, <1>4, <1>5, <1>8, <2>3, <2>5, <2>6, <2>7
<1>13. CASE ~refunds(pool)
  <2> DEFINE paid == payout(x(w), pool.total[w], pool.total[Other(w)], pool.rake_bps)
  <2>1. /\ w \in Side /\ Other(w) \in Side /\ Other(w) # w
        /\ \A s \in Side : s = w \/ s = Other(w)
        /\ x(Other(w)) = 0 /\ pool.total[w] # 0
    <3>1. /\ w \in Side /\ pool.total[w] # 0
          /\ [s \in Side |-> share_in(tx, s) - share_out(tx, s)][Other(w)] = 0
      BY <1>1, <1>2, <1>13 DEF validate_redeem
    <3>2. Other(w) \in Side /\ Other(w) # w /\ \A s \in Side : s = w \/ s = Other(w)
      BY <3>1 DEF Side, Other
    <3> QED
      BY <1>9, <3>1, <3>2
  <2>2. treasury_pays(tx, paid)
    <3>1. treasury_pays(tx, payout([s \in Side |-> share_in(tx, s) - share_out(tx, s)][w],
                                   pool.total[w], pool.total[Other(w)], pool.rake_bps))
      BY <1>1, <1>2, <1>13 DEF validate_redeem
    <3>2. [s \in Side |-> share_in(tx, s) - share_out(tx, s)][w] = x(w)
      BY <1>9, <2>1
    <3> QED
      BY <3>1, <3>2
  <2>3. paid \in Int
    <3>1. /\ pool.total[w] \in Nat \ {0} /\ pool.total[Other(w)] \in Nat
          /\ pool.rake_bps \in 0 .. RAKE_BPS_MAX /\ x(w) \in Nat
      BY <1>1, <1>8, <2>1 DEF PoolSound
    <3>2. paid \in Nat
      BY <3>1, PayoutBounds
    <3> QED
      BY <3>2
  <2>4. PotIn(tx) - PotOut(tx) = paid
    BY <1>1, <1>2, <2>2, <2>3, TreasuryPays
  <2>5. x(w) = shares[who][w]
    BY <1>10, <2>1 DEF Due
  <2>6. Abstract!Other(w) = Other(w)
    BY DEF Abstract!Other, Other
  <2>7. Abstract!Claim(who) = paid
    BY <1>4, <1>6, <1>13, <2>5, <2>6, SamePayout DEF Abstract!Claim
  <2>8. \A s \in Side : shares[who][s] - share_in(tx, s) + share_out(tx, s) =
          IF s = w THEN 0 ELSE shares[who][s]
    BY <1>7, <1>9, <2>1, <2>5
  <2>9. [s \in Side |-> shares[who][s] - share_in(tx, s) + share_out(tx, s)] =
          [s \in Abstract!Side |->
             IF Abstract!Refunded \/ s = round.winner THEN 0 ELSE shares[who][s]]
    BY <1>4, <1>6, <1>13, <2>8 DEF Abstract!Side, Side
  <2> HIDE DEF paid
  <2> QED
    BY <1>1, <1>4, <1>5, <1>8, <2>4, <2>7, <2>9
<1> QED
  BY <1>12, <1>13

LEMMA SendMaps ==
  ASSUME IInv, Fits, Books, LedgerSound', NEW who \in Players, signAndSend(who)
  PROVE  Abstract!Next
<1> DEFINE j == job[who]
           tx == j.tx
           order == orders[who]
<1>1. job' = [job EXCEPT ![who] = Idle]
  BY DEF signAndSend
<1>2. Abstract!Clear(who)
  BY <1>1, OrdersMove
<1>3. CASE ~Lands(who)
  <2>1. UNCHANGED <<pool, cells>>
    BY <1>3 DEF signAndSend
  <2>2. orders[who] # Abstract!NoOrder
    BY OrderIs DEF signAndSend
  <2>3. Abstract!GiveUp(who)
    BY <1>2, <2>1, <2>2, Standstill DEF Abstract!GiveUp
  <2> QED
    BY <2>3 DEF Abstract!Next, Abstract!Players, Players
<1>4. CASE Lands(who)
  <2>1. /\ Landed(tx, who) /\ TxFor(order.op, tx) /\ Does(who, order, tx)
        /\ order.op = "redeem" =>
             \A s \in Side : Due(pool, s) => CellsOf(cells, s, who) \subseteq tx.ins
        /\ tx.prev # NoPool /\ tx.next = NoPool => Carried(pool, tx.ins)
    BY <1>4, SentIs
  <2> HIDE DEF j, tx
  <2>2. ASSUME order.op = "deposit", order.want \in [Side -> Nat], Trades(tx, order.want)
        PROVE  Abstract!Deposit(who)
    <3>1. Abstract!Trade(who, order.want, Abstract!Sum(order.want))
      BY <2>1, <2>2, DepositMaps
    <3> QED
      BY <1>2, <2>2, <3>1 DEF Abstract!Deposit
  <2>3. ASSUME order.op = "withdraw", order.want \in [Side -> Nat],
               Trades(tx, [s \in Side |-> 0 - order.want[s]])
        PROVE  Abstract!Withdraw(who)
    <3>1. Abstract!Trade(who, [s \in Abstract!Side |-> 0 - order.want[s]],
                         0 - Abstract!Sum(order.want))
      BY <2>1, <2>3, WithdrawMaps
    <3> QED
      BY <1>2, <2>3, <3>1 DEF Abstract!Withdraw
  <2>4. ASSUME order.op = "redeem", Redeems(tx)
        PROVE  Abstract!Redeem(who)
    <3>1. /\ round.status \in {"FINALIZED", "VOID"}
          /\ bank' = [bank EXCEPT ![who] = @ + Abstract!Claim(who)]
          /\ pot' = pot - Abstract!Claim(who)
          /\ shares' = [shares EXCEPT ![who] = [s \in Abstract!Side |->
                          IF Abstract!Refunded \/ s = round.winner THEN 0 ELSE @[s]]]
          /\ UNCHANGED round
      BY <2>1, <2>4, RedeemMaps
    <3> QED
      BY <1>2, <2>4, <3>1 DEF Abstract!Redeem
  <2>5. ASSUME order.op = "burn", Burns(tx, order.sides)
        PROVE  Abstract!Burn(who)
    <3>1. /\ shares' = [shares EXCEPT ![who] = shares'[who]]
          /\ \A s \in Side : shares'[who][s] \in
               IF s \in order.sides THEN 0 .. shares[who][s] ELSE {shares[who][s]}
          /\ UNCHANGED <<bank, pot, round>>
      BY <2>1, <2>5, BurnMaps
    <3> QED
      BY <1>2, <2>5, <3>1 DEF Abstract!Burn, Abstract!Side, Side
  <2>6. ASSUME order.op = "create", Creates(tx, order.round)
        PROVE  Abstract!Create(who)
    <3>1. /\ round = Abstract!NoRound
          /\ round' = [status |-> "OPEN", winner |-> "UNDECIDED",
                       total |-> [s \in Abstract!Side |-> 0],
                       rake_bps |-> order.round.rake_bps]
          /\ UNCHANGED <<bank, shares, pot>>
      BY <2>1, <2>6, CreateMaps
    <3> QED
      BY <1>2, <2>6, <3>1 DEF Abstract!Create
  <2>7. ASSUME order.op = "close", tx.prev # NoPool, tx.next = NoPool, who = Creator
        PROVE  Abstract!Close(who)
    <3>1. /\ round.status \in {"FINALIZED", "VOID"}
          /\ bank' = [bank EXCEPT ![who] = @ + pot]
          /\ pot' = 0
          /\ round' = Abstract!NoRound
          /\ UNCHANGED shares
      BY <2>1, <2>7, CloseMaps
    <3> QED
      BY <1>2, <2>7, <3>1 DEF Abstract!Close
  <2> HIDE DEF order
  <2>8. \/ Abstract!Deposit(who) \/ Abstract!Withdraw(who) \/ Abstract!Redeem(who)
        \/ Abstract!Burn(who) \/ Abstract!Create(who) \/ Abstract!Close(who)
    BY <2>1, <2>2, <2>3, <2>4, <2>5, <2>6, <2>7 DEF Does
  <2> QED
    BY <2>8 DEF Abstract!Next, Abstract!Players, Players
<1> QED
  BY <1>3, <1>4

LEMMA InitMaps ==
  ASSUME Init
  PROVE  Abstract!Init
<1>1. pool = NoPool /\ \A who \in Players : job[who] = Idle
  BY DEF Init
<1>2. Good(cells)
  BY FitsInit DEF Fits, LedgerSound
<1>3. \A c \in cells : c.kind = "plain" \/ c.kind = "stake"
  BY DEF Init
<1>4. \A s \in Side : \A w : CellsOf(cells, s, w) = {}
  BY <1>3 DEF CellsOf, Side
<1>5. OfKind(cells, "treasury") = {}
  BY <1>3 DEF OfKind
<1>6. bank \in [Players -> Nat]
  BY <1>1, <1>2, BooksTypes DEF Sides
<1>7. shares = [w \in Players |-> [s \in Side |-> 0]]
  BY <1>4, TotalNone DEF shares
<1>8. pot = 0
  BY <1>1, <1>5, TotalNone DEF pot, Amount
<1>9. round = Abstract!NoRound
  BY <1>1 DEF round, NoPool, Abstract!NoRound
<1>10. orders = [w \in Players |-> Abstract!NoOrder]
  BY <1>1 DEF orders, Abstract!NoOrder
<1> QED
  BY <1>6, <1>7, <1>8, <1>9, <1>10 DEF Abstract!Init, Abstract!Players, Players,
     Abstract!Side, Side

\* Every step of Player is a step of Accounts, or moves nothing there.
LEMMA StepMaps ==
  ASSUME IInv, Fits, Books, LedgerSound', [Next]_vars
  PROVE  [Abstract!Next]_(Abstract!vars)
<1>1. ASSUME NEW who \in Players, Abstract!Place(who) \/ Abstract!GiveUp(who) \/ UNCHANGED Abstract!vars
      PROVE  [Abstract!Next]_(Abstract!vars)
  BY <1>1 DEF Abstract!Next, Abstract!Players, Players
<1>2. CASE \E h \in Holders : Ask(h)
  <2>1. PICK h \in Holders : Ask(h)
    BY <1>2
  <2>2. UNCHANGED <<pool, cells>>
    BY <2>1, AskStill
  <2>3. h \in Players /\ Begins(h)
    BY <2>1, AskBegins DEF Players
  <2> QED
    BY <1>1, <2>2, <2>3, BeginsMaps
<1>3. CASE (\E r \in Rounds : draftCreate(r)) \/ draftClose
  <2>1. UNCHANGED <<pool, cells>>
    BY <1>3 DEF draftCreate, draftClose, KeeperAsks, ledger
  <2>2. Creator \in Players /\ Begins(Creator)
    BY <1>3, CreateBegins, CloseBegins DEF Players
  <2> QED
    BY <1>1, <2>1, <2>2, BeginsMaps
<1>4. CASE \E who \in Players : Serve(who)
  <2>1. PICK who \in Players : Serve(who)
    BY <1>4
  <2>2. CASE Read(who) \/ Complete(who)
    <3>1. UNCHANGED <<pool, cells>> /\ job[who].at # "idle"
      BY <2>2 DEF Read, Complete, ledger
    <3>2. Goes(who)
      BY <2>2, ReadGoes, CompleteGoes
    <3> QED
      BY <1>1, <3>1, <3>2, GoesMaps
  <2>3. CASE signAndSend(who)
    BY <2>3, SendMaps
  <2> QED
    BY <2>1, <2>2, <2>3 DEF Serve
<1>5. CASE Transition
  BY <1>5, DecideMaps DEF Abstract!Next
<1>6. ASSUME UNCHANGED <<pool, cells, job>>
      PROVE  UNCHANGED Abstract!vars
  <2>1. orders' = orders
    BY <1>6 DEF orders
  <2> QED
    BY <1>6, <2>1, Standstill DEF Abstract!vars
<1>7. CASE TimePasses
  BY <1>6, <1>7 DEF TimePasses
<1>8. CASE \E h \in Holders : \E want \in Stakes[h] : ForeignDeposit(h, want)
  BY <1>8, ForeignMaps DEF Abstract!Next, Abstract!Players
<1>9. CASE UNCHANGED vars
  BY <1>6, <1>9 DEF vars, ledger
<1> QED
  BY <1>2, <1>3, <1>4, <1>5, <1>7, <1>8, <1>9 DEF Next

(***************************************************************************)
(* The cells keep the books of Accounts: whatever was read when, nobody's  *)
(* stake or shares change but by what he himself signed, and an order that *)
(* lands does all of what it says, the change that comes back included.    *)
(***************************************************************************)
THEOREM AccountsAreKept == Spec => ImplementsAccounts
<1>1. Init => IInv /\ Fits /\ Books /\ Abstract!Init
  BY InitIs, FitsInit, BooksInit, InitMaps
<1>2. IInv /\ Fits /\ Books /\ [Next]_vars => IInv' /\ Fits' /\ Books'
  BY Inductive, FitsInductive, BooksInductive
<1>3. Fits' => LedgerSound'
  BY DEF Fits
<1>4. IInv /\ Fits /\ Books /\ [Next]_vars => [Abstract!Next]_(Abstract!vars)
  BY <1>2, <1>3, StepMaps
<1> QED
  BY <1>1, <1>2, <1>4, PTL DEF Spec, ImplementsAccounts, Abstract!Spec
=============================================================================
