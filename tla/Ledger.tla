------------------------------- MODULE Ledger -------------------------------
(***************************************************************************)
(* The cells one pool leaves on chain and the scripts that rule on every   *)
(* transaction which spends them.  Pool describes the same contracts by    *)
(* sums; here a cell has an owner and an out-point, so that a transaction  *)
(* drafted from cells read earlier can find them spent.                    *)
(*                                                                         *)
(* Capacity is counted above the occupied floor of each cell, fees are     *)
(* left out, and oracle cells too: which price a transition shows is the   *)
(* subject of Pool, that it moves no money is the subject here.            *)
(***************************************************************************)
EXTENDS PoolMath, FiniteSets

CONSTANTS
  Holders,   \* locks that hold shares and the staked asset
  Creator    \* the lock pool_admin_lock names, the keeper's wallet

ASSUME LedgerAssumption == Creator \notin Holders /\ IsFiniteSet(Holders)

VARIABLES
  pool,      \* the live PoolCell, or NoPool
  cells,     \* the other live cells: treasury, shares, stake, plain CKB
  late       \* the tip header is past close_time + close_grace

ledger == <<pool, cells, late>>

(***************************************************************************)
(* Cells.  "stake" is the asset players bet: an xUDT cell, or a plain CKB  *)
(* cell in a CKB pool.  "plain" is CKB that pays fees.  The number n tells *)
(* out-points of equal cells apart.                                        *)
(***************************************************************************)
NoPool == [status |-> "NONE"]
Zero == [s \in Side |-> 0]

CellsOf(S, kind, owner) == {c \in S : c.kind = kind /\ c.owner = owner}
OfKind(S, kind) == {c \in S : c.kind = kind}
\* Counted unit by unit.
Total(S) == Cardinality(UNION {{c} \X (1 .. c.amount) : c \in S})
Amount(S, kind) == Total(OfKind(S, kind))

Out(kind, owner, amount) == [kind |-> kind, owner |-> owner, amount |-> amount]
\* A cell that is only made when there is something to put in it.
OutIf(kind, owner, amount) ==
  IF amount > 0 THEN {Out(kind, owner, amount)} ELSE {}

Staked(p) == p.total["UP"] + p.total["DOWN"]

(***************************************************************************)
(* A transaction spends prev (or no PoolCell) and the cells ins, and makes *)
(* next (or no PoolCell) and the cells outs.  deps: the scripts whose code *)
(* it points to.  header: the header it names is past the close deadline.  *)
(***************************************************************************)
Tx(prev, next, ins, outs) ==
  [prev |-> prev, next |-> next, ins |-> ins, outs |-> outs,
   deps |-> {}, header |-> FALSE]

(***************************************************************************)
(* share_io, and the balance of the one treasury cell in a set: there is   *)
(* none to read when the cell is missing or ambiguous.                     *)
(***************************************************************************)
share_in(tx, s) == Amount(tx.ins, s)
share_out(tx, s) == Amount(tx.outs, s)

treasury_balance_is(S, b) ==
  /\ Cardinality(OfKind(S, "treasury")) = 1
  /\ Amount(S, "treasury") = b

treasury_present(S) == OfKind(S, "treasury") # {}

pool_capacity_unchanged(tx) == tx.next.capacity = tx.prev.capacity

shares_frozen(tx) == \A s \in Side : share_out(tx, s) = share_in(tx, s)

phase_frozen(tx) ==
  /\ tx.next.total = tx.prev.total
  /\ pool_capacity_unchanged(tx)
  /\ shares_frozen(tx)
  /\ tx.prev.variant = "XUDT" =>
       ~treasury_present(tx.ins) /\ ~treasury_present(tx.outs)

(***************************************************************************)
(* The rules of pool_type.                                                 *)
(***************************************************************************)
validate_create(tx) ==
  /\ tx.next.status = "OPEN"
  /\ tx.next.winner = "UNDECIDED"
  /\ tx.next.total = Zero
  /\ tx.next.start_time < tx.next.close_time
  /\ tx.next.rake_bps <= RAKE_BPS_MAX
  /\ tx.next.variant = "XUDT" => treasury_balance_is(tx.outs, 0)

validate_deposit(tx) ==
  /\ tx.next.winner = tx.prev.winner
  /\ IF tx.prev.variant = "XUDT"
     THEN /\ treasury_balance_is(tx.outs, Staked(tx.next))
          /\ pool_capacity_unchanged(tx)
     ELSE tx.next.capacity + Staked(tx.prev) = tx.prev.capacity + Staked(tx.next)
  /\ \A s \in Side :
       share_out(tx, s) + tx.prev.total[s] = share_in(tx, s) + tx.next.total[s]

refunds(p) == p.status = "VOID" \/ (p.status = "FINALIZED" /\ p.winner = "VOID")

\* The treasury shrinks by paid: capacity, or the one TreasuryCell.
treasury_pays(tx, paid) ==
  IF tx.prev.variant = "XUDT"
  THEN /\ treasury_balance_is(tx.ins, Amount(tx.ins, "treasury"))
       /\ treasury_balance_is(tx.outs, Amount(tx.ins, "treasury") - paid)
       /\ pool_capacity_unchanged(tx)
  ELSE tx.next.capacity = tx.prev.capacity - paid

validate_redeem(tx) ==
  LET p == tx.prev
      burned == [s \in Side |-> share_in(tx, s) - share_out(tx, s)]
      w == p.winner
  IN  /\ tx.next.total = p.total
      /\ tx.next.winner = w
      /\ IF refunds(p)
         THEN /\ \A s \in Side : burned[s] >= 0
              /\ burned["UP"] + burned["DOWN"] > 0
              /\ treasury_pays(tx, burned["UP"] + burned["DOWN"])
         ELSE /\ w \in Side
              /\ burned[w] > 0
              /\ burned[Other(w)] = 0
              /\ p.total[w] # 0
              /\ treasury_pays(tx, payout(burned[w], p.total[w],
                                          p.total[Other(w)], p.rake_bps))

validate_close(tx) ==
  /\ tx.prev.status \in {"FINALIZED", "VOID"}
  /\ tx.header
  /\ shares_frozen(tx)

validate_transition(tx) ==
  LET step == <<tx.prev.status, tx.next.status>>
  IN  /\ \A f \in {"variant", "rake_bps", "start_time", "close_time"} :
            tx.next[f] = tx.prev[f]
      /\ \/ step = <<"OPEN", "OPEN">> /\ validate_deposit(tx)
         \/ step \in PhaseSteps /\ phase_frozen(tx)
         \/ /\ step \in {<<"FINALIZED", "FINALIZED">>, <<"VOID", "VOID">>}
            /\ validate_redeem(tx)

pool_type(tx) ==
  IF tx.prev = NoPool THEN tx.next # NoPool => validate_create(tx)
  ELSE IF tx.next = NoPool THEN validate_close(tx)
  ELSE validate_transition(tx)

(***************************************************************************)
(* The scripts beside pool_type.                                           *)
(***************************************************************************)
share_xudt(tx) ==
  tx.prev # NoPool \/ \A s \in Side : share_out(tx, s) <= share_in(tx, s)

treasury_lock(tx) == treasury_present(tx.ins) => tx.prev # NoPool

pool_admin_lock(tx) ==
  tx.prev # NoPool => tx.next # NoPool \/ \E c \in tx.ins : c.owner = Creator

(***************************************************************************)
(* What the staked asset's own script, or the node's capacity rule, asks:  *)
(* no more comes out than goes in.  Wallet locks: every cell but the       *)
(* treasury is spent by the signature of its owner.                        *)
(***************************************************************************)
StakeIn(tx) == Amount(tx.ins, "stake") + Amount(tx.ins, "treasury")
               + IF tx.prev = NoPool THEN 0 ELSE tx.prev.capacity
StakeOut(tx) == Amount(tx.outs, "stake") + Amount(tx.outs, "treasury")
                + IF tx.next = NoPool THEN 0 ELSE tx.next.capacity

Conserved(tx) == StakeOut(tx) <= StakeIn(tx)

SignedBy(tx, who) == \A c \in tx.ins : c.kind = "treasury" \/ c.owner = who

(***************************************************************************)
(* The scripts that run: types of inputs and outputs, locks of inputs.  A  *)
(* node can run only what the transaction points to.                       *)
(***************************************************************************)
Moves(tx, kinds) == \E c \in tx.ins \union tx.outs : c.kind \in kinds

Runs(tx) ==
  {r \in {"pool_type", "pool_admin_lock", "share_xudt", "treasury_lock", "asset"} :
     CASE r = "pool_type"       -> NoPool # tx.prev \/ NoPool # tx.next
       [] r = "pool_admin_lock" -> NoPool # tx.prev
       [] r = "share_xudt"      -> Moves(tx, Side)
       [] r = "treasury_lock"   -> treasury_present(tx.ins)
       [] r = "asset"           ->
            \E p \in {tx.prev, tx.next} \ {NoPool} :
              p.variant = "XUDT" /\ Moves(tx, {"stake", "treasury"})}

\* Every cell a transaction spends is still there.
Live(tx) == tx.prev \in {NoPool, pool} /\ tx.ins \subseteq cells

Accepts(tx, who) ==
  /\ Runs(tx) \subseteq tx.deps
  /\ pool_type(tx)
  /\ share_xudt(tx)
  /\ treasury_lock(tx)
  /\ pool_admin_lock(tx)
  /\ Conserved(tx)
  /\ SignedBy(tx, who)

(***************************************************************************)
(* A transaction lands.  Its cells get out-points that no live cell has    *)
(* and nobody remembers: seenPools and seenCells are what is remembered.   *)
(***************************************************************************)
Unused(taken) == CHOOSE k \in 0 .. Cardinality(taken) : k \notin taken

Placed(out, old) ==
  [kind |-> out.kind, owner |-> out.owner, amount |-> out.amount,
   n |-> Unused({c.n : c \in {d \in old : /\ d.kind = out.kind
                                         /\ d.owner = out.owner
                                         /\ d.amount = out.amount}})]

Land(tx, seenPools, seenCells) ==
  LET kept == cells \ tx.ins
      old == kept \union seenCells
  IN  /\ cells' = kept \union {Placed(out, old) : out \in tx.outs}
      /\ pool' = IF tx.prev = NoPool /\ tx.next = NoPool THEN pool
                 ELSE IF tx.next = NoPool THEN NoPool
                 ELSE [tx.next EXCEPT !.n = Unused({p.n : p \in seenPools})]
=============================================================================
