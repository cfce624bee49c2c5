------------------------------ MODULE Executor ------------------------------
(***************************************************************************)
(* The executor: overlapping wakes hand it pool transitions and round      *)
(* creations; one call at a time, under the wallet mutex, it writes intent *)
(* to tx_log, broadcasts, waits and writes the outcome.  Transactions are  *)
(* in the mempool until they commit or are dropped.  The process may crash *)
(* anywhere, and reconciles its log when it restarts.                      *)
(*                                                                         *)
(* A pool stands for one due transition of it.  Failed rows are never read *)
(* again, so the model forgets them: to fail a row is to remove it.  Which *)
(* cells seed a creation and pay the fees is left to the client: that they *)
(* are missing, or taken, is one of the faults.                            *)
(***************************************************************************)
EXTENDS Integers, Sequences, FiniteSets

CONSTANTS
  Pools,      \* pools with a due transition, all on one oracle cell
  Rounds,     \* rounds with a due creation
  MaxWakes,   \* bound on the wakes that overlap
  MaxFaults   \* bound on all that goes wrong without a cause in the model

Keys == Pools \cup Rounds

ASSUME ExecutorAssumption ==
  /\ Pools \cap Rounds = {}
  /\ IsFiniteSet(Pools)
  /\ MaxWakes \in Nat
  /\ MaxFaults \in Nat

VARIABLES
  \* the chain
  advanced,   \* pools whose transition is done, by whomever
  minted,     \* pools on chain per round
  mempool,    \* pending transactions: {[id |-> _, keys |-> _]}
  confirmed,  \* ids of committed transactions
  sends,      \* transactions accepted so far: the last id
  \* tx_log, on disk
  sent,       \* rows with status sent: {[key |-> _, by |-> _, tx |-> _]}, tx = 0: no hash
  committed,  \* rows with status committed, per key
  \* the process
  up,
  dangling,   \* rows that reconcile has yet to look at
  queue,      \* the wallet mutex: the keys each wake asks for, the first one runs
  step,       \* of the running call: "free", "draft", "accepted", "wait"
  group,      \* keys of its current transaction
  todo,       \* keys still to be tried one by one after a failed batch
  tx,         \* id of its transaction
  \* bound
  faults

chain == <<advanced, minted, mempool, confirmed, sends>>
log == <<sent, committed>>
call == <<step, group, todo, tx>>
vars == <<chain, log, up, dangling, queue, call, faults>>

Fault == faults < MaxFaults /\ faults' = faults + 1

-----------------------------------------------------------------------------
(***************************************************************************)
(* The chain.  A transition spends its PoolCells, so two of them cannot    *)
(* both commit.                                                            *)
(***************************************************************************)
Acceptable(keys) ==
  /\ keys \cap advanced = {}
  /\ \A t \in mempool : keys \cap t.keys \cap Pools = {}

Pending(id) == \E t \in mempool : t.id = id

Commit(t) ==
  /\ t \in mempool
  /\ advanced' = advanced \cup (t.keys \cap Pools)
  /\ minted' = [r \in Rounds |-> IF r \in t.keys THEN minted[r] + 1 ELSE minted[r]]
  /\ confirmed' = confirmed \cup {t.id}
  /\ mempool' = mempool \ {t}
  /\ UNCHANGED <<sends, log, up, dangling, queue, call, faults>>

\* Transitions are permissionless.
SomeoneElse(p) ==
  /\ p \notin advanced
  /\ advanced' = advanced \cup {p}
  /\ mempool' = {t \in mempool : p \notin t.keys}
  /\ UNCHANGED <<minted, confirmed, sends, log, up, dangling, queue, call, faults>>

\* Among others when a player's deposit spends the PoolCell first.
Evict(t) ==
  /\ t \in mempool
  /\ mempool' = mempool \ {t}
  /\ Fault
  /\ UNCHANGED <<advanced, minted, confirmed, sends, log, up, dangling, queue, call>>

-----------------------------------------------------------------------------
(***************************************************************************)
(* Wakes read the chain without the mutex, and then queue for it.          *)
(***************************************************************************)
Enqueue(keys) ==
  /\ up /\ dangling = {}
  /\ Len(queue) < MaxWakes
  /\ queue' = Append(queue, keys)
  /\ UNCHANGED <<chain, log, up, dangling, call, faults>>

WakePools(due) ==
  /\ due # {} /\ due \cap advanced = {}
  /\ Enqueue(due)

WakeCreate(r) ==
  /\ minted[r] = 0
  /\ Enqueue({r})

-----------------------------------------------------------------------------
(***************************************************************************)
(* The call that holds the mutex.                                          *)
(***************************************************************************)
Live == {row \in sent : row.by = "live"}

\* hasOpenAction, hasOpenCreate.
Open(key) == committed[key] > 0 \/ \E row \in sent : row.key = key

Rows(keys, id) == [key : keys, by : {"live"}, tx : {id}]

Release ==
  /\ queue' = Tail(queue)
  /\ step' = "free" /\ group' = {} /\ todo' = {} /\ tx' = 0

\* Another transaction of the call; rest: the rows that remain in the log.
Try(keys, later, rest) ==
  /\ sent' = rest \cup Rows(keys, 0)
  /\ step' = "draft" /\ group' = keys /\ todo' = later /\ tx' = 0
  /\ UNCHANGED queue

OneByOne(keys, rest) ==
  \/ keys = {} /\ Release /\ sent' = rest
  \/ \E k \in keys : Try({k}, keys \ {k}, rest)

\* Mutant: no guard.
BeginUnguarded ==
  /\ queue # <<>> /\ step = "free"
  /\ Try(Head(queue), {}, sent)
  /\ UNCHANGED <<chain, committed, up, dangling, faults>>

Begin ==
  /\ queue # <<>> /\ step = "free"
  /\ LET keys == {k \in Head(queue) : ~Open(k)}
     IN  IF keys = {} THEN Release /\ UNCHANGED sent ELSE Try(keys, {}, sent)
  /\ UNCHANGED <<chain, committed, up, dangling, faults>>

Send ==
  /\ step = "draft" /\ Acceptable(group)
  /\ sends' = sends + 1
  /\ mempool' = mempool \cup {[id |-> sends', keys |-> group]}
  /\ tx' = sends'
  /\ step' = "accepted"
  /\ UNCHANGED <<advanced, minted, confirmed, log, up, dangling, queue, group, todo, faults>>

Record ==
  /\ step = "accepted"
  /\ sent' = (sent \ Live) \cup Rows(group, tx)
  /\ step' = "wait"
  /\ UNCHANGED <<chain, committed, up, dangling, queue, group, todo, tx, faults>>

\* Mutant: sent is taken for committed.
NotWaited ==
  /\ step = "wait"
  /\ committed' = [k \in Keys |-> IF k \in group THEN committed[k] + 1 ELSE committed[k]]
  /\ OneByOne(todo, sent \ Live)
  /\ UNCHANGED <<chain, up, dangling, faults>>

Waited ==
  /\ step = "wait" /\ tx \in confirmed
  /\ committed' = [k \in Keys |-> IF k \in group THEN committed[k] + 1 ELSE committed[k]]
  /\ OneByOne(todo, sent \ Live)
  /\ UNCHANGED <<chain, up, dangling, faults>>

\* Mutant: the rows stay as they are.
FailKeepsRows ==
  /\ OneByOne(IF Cardinality(group) > 1 THEN group ELSE todo, sent)
  /\ UNCHANGED <<chain, committed, up, dangling>>

\* The rows fail; a batch is split, a single transaction gives way to the next.
FailGroup ==
  /\ OneByOne(IF Cardinality(group) > 1 THEN group ELSE todo, sent \ Live)
  /\ UNCHANGED <<chain, committed, up, dangling>>

Rejected ==
  /\ \/ step = "draft" /\ ~Acceptable(group)
     \/ step = "wait" /\ tx \notin confirmed /\ ~Pending(tx)
  /\ FailGroup
  /\ UNCHANGED faults

\* Nothing could be sent; or it was, and the answer is lost; or the wait times out.
Fails ==
  /\ step # "free"
  /\ FailGroup
  /\ Fault

-----------------------------------------------------------------------------
(***************************************************************************)
(* Crash, and reconcile at boot, one row after the other.  No wake runs    *)
(* before it is through.                                                   *)
(***************************************************************************)
Crash ==
  /\ up
  /\ Fault
  /\ up' = FALSE
  /\ sent' = {[row EXCEPT !.by = "crashed"] : row \in sent}
  /\ dangling' = {}
  /\ queue' = <<>>
  /\ step' = "free" /\ group' = {} /\ todo' = {} /\ tx' = 0
  /\ UNCHANGED <<chain, committed>>

Restart ==
  /\ ~up
  /\ up' = TRUE
  /\ dangling' = sent
  /\ UNCHANGED <<chain, log, queue, call, faults>>

\* Mutant: what is still pending is failed as well.
ReconcileFailsPending(row) ==
  /\ row \in dangling
  /\ dangling' = dangling \ {row}
  /\ sent' = sent \ {row}
  /\ committed' = IF row.tx \in confirmed THEN [committed EXCEPT ![row.key] = @ + 1]
                  ELSE committed
  /\ UNCHANGED <<chain, up, queue, call, faults>>

Reconcile(row) ==
  /\ row \in dangling
  /\ dangling' = dangling \ {row}
  /\ sent' = IF Pending(row.tx) THEN sent ELSE sent \ {row}
  /\ committed' = IF row.tx \in confirmed THEN [committed EXCEPT ![row.key] = @ + 1]
                  ELSE committed
  /\ UNCHANGED <<chain, up, queue, call, faults>>

LookupFails(row) ==
  /\ row \in dangling /\ row.tx # 0
  /\ dangling' = dangling \ {row}
  /\ sent' = sent \ {row}
  /\ Fault
  /\ UNCHANGED <<chain, committed, up, queue, call>>

-----------------------------------------------------------------------------
Init ==
  /\ advanced = {}
  /\ minted = [r \in Rounds |-> 0]
  /\ mempool = {} /\ confirmed = {} /\ sends = 0
  /\ sent = {}
  /\ committed = [k \in Keys |-> 0]
  /\ up = TRUE
  /\ dangling = {}
  /\ queue = <<>>
  /\ step = "free" /\ group = {} /\ todo = {} /\ tx = 0
  /\ faults = 0

Call == Begin \/ Send \/ Record \/ Waited \/ Rejected

Next ==
  \/ \E t \in mempool : Commit(t) \/ Evict(t)
  \/ \E p \in Pools : SomeoneElse(p)
  \/ \E due \in SUBSET Pools : WakePools(due)
  \/ \E r \in Rounds : WakeCreate(r)
  \/ Call
  \/ Fails
  \/ Crash
  \/ Restart
  \/ \E row \in dangling : Reconcile(row) \/ LookupFails(row)

Spec == Init /\ [][Next]_vars

(***************************************************************************)
(* The node commits what it holds, a call goes on, a restart comes, and    *)
(* the keeper wakes again for a pool as long as it is due (every few       *)
(* seconds, on a fresh read of the chain).  A creation is not retried.     *)
(***************************************************************************)
Fairness ==
  /\ WF_vars(\E t \in mempool : Commit(t))
  /\ WF_vars(Call)
  /\ WF_vars(Restart)
  /\ WF_vars(\E row \in dangling : Reconcile(row))
  /\ \A p \in Pools : SF_vars(\E due \in SUBSET Pools : p \in due /\ WakePools(due))

FairSpec == Spec /\ Fairness

-----------------------------------------------------------------------------
TypeOK ==
  /\ advanced \subseteq Pools
  /\ minted \in [Rounds -> Nat]
  /\ sends \in Nat
  /\ confirmed \subseteq 1 .. sends
  /\ mempool \subseteq [id : 1 .. sends, keys : SUBSET Keys]
  /\ sent \subseteq [key : Keys, by : {"live", "crashed"}, tx : 0 .. sends]
  /\ committed \in [Keys -> Nat]
  /\ up \in BOOLEAN
  /\ dangling \subseteq sent
  /\ queue \in Seq(SUBSET Keys)
  /\ step \in {"free", "draft", "accepted", "wait"}
  /\ group \subseteq Keys /\ todo \subseteq Keys
  /\ tx \in 0 .. sends
  /\ faults \in 0 .. MaxFaults

(***************************************************************************)
(* The log never holds two unfailed rows for one pool action or round,     *)
(* whatever wakes overlap, batches are split and processes crash: the      *)
(* guard is read under the mutex, and reconcile moves rows, never adds.    *)
(***************************************************************************)
OneOpenRow ==
  \A k \in Keys :
    /\ committed[k] <= 1
    /\ committed[k] = 1 => \A row \in sent : row.key # k
    /\ \A row, other \in sent : row.key = k /\ other.key = k => row = other

Done(k) == IF k \in Pools THEN k \in advanced ELSE minted[k] > 0

(***************************************************************************)
(* A committed row, which blocks its action for good, tells the truth: the *)
(* pool was advanced, the round exists (executor.ts 126-127 and 213-214,   *)
(* reconcile.ts 46-48).                                                    *)
(***************************************************************************)
CommittedIsTrue == \A k \in Keys : committed[k] > 0 => Done(k)

(***************************************************************************)
(* A round is minted at most once more than things went wrong: overlapping *)
(* wakes that all saw no pool never suffice (executor.ts 96-99).           *)
(***************************************************************************)
DuplicatesNeedFaults == \A r \in Rounds : minted[r] <= 1 + faults

(***************************************************************************)
(* A transaction is drafted while an earlier one is pending only if        *)
(* something went wrong with that one: the mutex is held until the commit  *)
(* (mutex.ts 14-22, executor.ts 126, 213).                                 *)
(***************************************************************************)
DraftsOnCommitted == step = "draft" => Cardinality(mempool) <= faults

(***************************************************************************)
(* reconcile.ts:6 says that a row without a hash stands for a transaction  *)
(* that was never broadcast.  The process may die between the two.         *)
(***************************************************************************)
NeverBroadcast ==
  \A row \in dangling, t \in mempool : row.tx = 0 => row.key \notin t.keys

\* Left as sent by reconcile, and then dropped by the node.
Orphaned(k) ==
  \E row \in sent :
    /\ row.key = k /\ row.by = "crashed" /\ row.tx # 0
    /\ row.tx \notin confirmed /\ ~Pending(row.tx)

(***************************************************************************)
(* Every due pool is advanced, however often sends fail, unless a row that *)
(* reconcile left as sent outlives its transaction: it blocks the pool     *)
(* until the next restart.                                                 *)
(***************************************************************************)
Progress == \A p \in Pools : <>(p \in advanced \/ Orphaned(p))
=============================================================================
