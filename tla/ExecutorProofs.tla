--------------------------- MODULE ExecutorProofs ---------------------------
(***************************************************************************)
(* What tx_log promises, for any pools, rounds, number of wakes and number *)
(* of faults.  OneOpenRow needs what the running call knows of the log:    *)
(* the keys it holds are neither committed nor crashed rows.  That a       *)
(* committed row is true needs the link from a transaction's id to what    *)
(* it did, over the mempool, the rows and the call.                        *)
(***************************************************************************)
EXTENDS Executor, FiniteSetTheorems, TLAPS

Held == group \cup todo

CallInv ==
  /\ IF step = "free" THEN group = {} /\ todo = {} ELSE queue # <<>>
  /\ ~up => step = "free" /\ queue = <<>>
  /\ group \cap todo = {}
  /\ \A row \in sent :
       row.by = "live" => row.key \in group /\ row.tx = IF step = "wait" THEN tx ELSE 0
  /\ \A k \in Held : committed[k] = 0 /\ \A row \in sent : row.key = k => row.by = "live"
  /\ \A row \in dangling : row.by = "crashed"

LogInv == TypeOK /\ CallInv /\ OneOpenRow

Ids ==
  /\ sends \in Nat
  /\ confirmed \subseteq 1 .. sends
  /\ \A t \in mempool : t.id \in 1 .. sends /\ t.id \notin confirmed
  /\ \A t, u \in mempool : t.id = u.id => t = u

TxInv ==
  /\ \A row \in sent :
       /\ row.tx \in confirmed => Done(row.key)
       /\ \A t \in mempool : t.id = row.tx => row.key \in t.keys
  /\ tx \in confirmed => \A k \in group : Done(k)
  /\ \A t \in mempool : t.id = tx => group \subseteq t.keys

-----------------------------------------------------------------------------
(* Layer 0: an id stands for one transaction, pending or confirmed. *)

LEMMA IdsStep == Ids /\ [Next]_vars => Ids'
<1> SUFFICES ASSUME Ids, [Next]_vars PROVE Ids' OBVIOUS
<1>1. ASSUME NEW t \in mempool, Commit(t) PROVE Ids'
  BY <1>1 DEF Commit, Ids
<1>2. ASSUME Send PROVE Ids'
  <2>1. /\ sends' = sends + 1 /\ UNCHANGED confirmed
        /\ mempool' = mempool \cup {[id |-> sends + 1, keys |-> group]}
    BY <1>2 DEF Send
  <2>2. [id |-> sends + 1, keys |-> group].id = sends + 1
    OBVIOUS
  <2> QED BY <2>1, <2>2 DEF Ids
<1>3. ASSUME UNCHANGED <<sends, confirmed>>, mempool' \subseteq mempool PROVE Ids'
  BY <1>3 DEF Ids
<1>4. Next => \/ \E t \in mempool : Commit(t)
              \/ Send
              \/ UNCHANGED <<sends, confirmed>> /\ mempool' \subseteq mempool
  BY DEF Next, Call, Evict, SomeoneElse, WakePools, WakeCreate, Enqueue, Begin, Record, Waited,
         Rejected, Fails, FailGroup, Crash, Restart, Reconcile, LookupFails, chain
<1> QED BY <1>1, <1>2, <1>3, <1>4 DEF vars, chain

-----------------------------------------------------------------------------
(* Layer 1: the log and the call. *)

LEMMA LogInit == Init => LogInv
BY ExecutorAssumption DEF Init, LogInv, TypeOK, CallInv, OneOpenRow, Keys, Held

\* What a call leaves when it gives up its rows and goes on with some of its keys.
LEMMA OneByOneKeeps ==
  ASSUME LogInv, step # "free", NEW keys, keys \subseteq Held, OneByOne(keys, sent \ Live),
         UNCHANGED <<chain, up, dangling>>, faults' \in 0 .. MaxFaults,
         committed' \in [Keys -> Nat],
         \A k \in Keys : committed'[k] = committed[k] \/ (k \in group /\ committed'[k] = 1),
         \A k \in keys : committed'[k] = 0
  PROVE  LogInv'
<1> DEFINE rest == sent \ Live
<1>0. /\ rest \subseteq sent /\ \A row \in rest : row.by = "crashed" /\ row.key \notin Held
  BY DEF LogInv, TypeOK, CallInv, Live
<1>00. UNCHANGED <<advanced, minted, mempool, confirmed, sends, up, dangling>>
  BY DEF chain
<1>1. CASE keys = {} /\ Release /\ sent' = rest
  <2>0. dangling \subseteq rest /\ Tail(queue) \in Seq(SUBSET Keys)
    BY <1>0 DEF LogInv, TypeOK, CallInv, Live
  <2>1. TypeOK'
    BY <1>0, <1>1, <2>0 DEF LogInv, TypeOK, Release, chain
  <2>2. CallInv'
    BY <1>0, <1>1 DEF LogInv, TypeOK, CallInv, Release, Held, chain
  <2>3. OneOpenRow'
    BY <1>0, <1>1 DEF LogInv, OneOpenRow, TypeOK, CallInv, Held
  <2> QED BY <2>1, <2>2, <2>3 DEF LogInv
<1>2. CASE \E k \in keys : Try({k}, keys \ {k}, rest)
  <2> PICK k \in keys : Try({k}, keys \ {k}, rest) BY <1>2
  <2>0. /\ k \in Held /\ keys \subseteq Keys /\ k \in Keys
        /\ sent' = rest \cup Rows({k}, 0)
        /\ \A row \in Rows({k}, 0) : row = [key |-> k, by |-> "live", tx |-> 0]
        /\ step' = "draft" /\ group' = {k} /\ todo' = keys \ {k} /\ UNCHANGED queue
    BY DEF Try, Rows, LogInv, TypeOK, Held
  <2>00. \A row \in sent' :
           row \in rest \/ row = [key |-> k, by |-> "live", tx |-> 0]
    BY <2>0
  <2> HIDE DEF rest
  <2>1. TypeOK'
    <3>1. sent' \subseteq [key : Keys, by : {"live", "crashed"}, tx : 0 .. sends]
      <4>1. /\ sent \subseteq [key : Keys, by : {"live", "crashed"}, tx : 0 .. sends]
            /\ 0 \in 0 .. sends
        BY DEF LogInv, TypeOK
      <4>2. [key |-> k, by |-> "live", tx |-> 0]
              \in [key : Keys, by : {"live", "crashed"}, tx : 0 .. sends]
        BY <4>1, <2>0
      <4>3. rest \subseteq [key : Keys, by : {"live", "crashed"}, tx : 0 .. sends]
        BY <4>1, <1>0
      <4> QED BY <4>2, <4>3, <2>00
    <3>2. dangling \subseteq sent'
      BY <1>0, <2>0 DEF LogInv, TypeOK, CallInv, Live, rest
    <3>3. tx' = 0
      BY DEF Try
    <3>4. /\ advanced' \subseteq Pools /\ minted' \in [Rounds -> Nat] /\ sends' \in Nat
          /\ confirmed' \subseteq 1 .. sends' /\ mempool' \subseteq [id : 1 .. sends', keys : SUBSET Keys]
          /\ up' \in BOOLEAN /\ queue' \in Seq(SUBSET Keys) /\ tx' \in 0 .. sends'
      BY <1>00, <2>0, <3>3 DEF LogInv, TypeOK
    <3>5. group' \subseteq Keys /\ todo' \subseteq Keys
      BY <2>0
    <3>6. /\ sent' \subseteq [key : Keys, by : {"live", "crashed"}, tx : 0 .. sends']
          /\ dangling' \subseteq sent'
      BY <1>00, <3>1, <3>2
    <3> QED BY <2>0, <3>4, <3>5, <3>6 DEF TypeOK
  <2>2. CallInv'
    <3>1. \A row \in sent' : row.by = "live" => row.key = k /\ row.tx = 0
      BY <1>0, <2>00
    <3>2. \A j \in Held' : j \in keys
      BY <2>0 DEF Held
    <3>3. \A j \in keys, row \in sent' : row.key = j => row.by = "live"
      BY <1>0, <2>00
    <3>4. \A row \in dangling : row.by = "crashed"
      BY DEF LogInv, CallInv
    <3>5. up /\ queue # <<>>
      BY DEF LogInv, CallInv
    <3>6. group' \cap todo' = {} /\ step' # "free" /\ step' # "wait" /\ k \in group'
      BY <2>0
    <3>7. \A j \in Held' : committed'[j] = 0 /\ \A row \in sent' : row.key = j => row.by = "live"
      BY <3>2, <3>3
    <3>8. \A row \in sent' : row.by = "live" => row.key \in group' /\ row.tx = 0
      BY <3>1, <3>6
    <3>9. up' /\ queue' # <<>> /\ \A row \in dangling' : row.by = "crashed"
      BY <1>00, <2>0, <3>4, <3>5
    <3> QED BY <3>6, <3>7, <3>8, <3>9 DEF CallInv
  <2>3. OneOpenRow'
    <3>1. \A j \in Keys : committed'[j] <= 1
      BY DEF LogInv, OneOpenRow
    <3>2. \A row \in rest : row.key # k
      BY <1>0, <2>0
    <3>3. ASSUME NEW j \in Keys, NEW row \in sent', row.key = j PROVE committed'[j] # 1
      <4>1. CASE row \in rest
        BY <4>1, <1>0, <3>3 DEF LogInv, OneOpenRow, Held
      <4>2. CASE row = [key |-> k, by |-> "live", tx |-> 0]
        BY <4>2, <3>3
      <4> QED BY <4>1, <4>2, <2>00
    <3>4. ASSUME NEW row \in sent', NEW other \in sent', row.key = other.key, row.key \in Keys
          PROVE  row = other
      <4>1. CASE row \in rest /\ other \in rest
        BY <4>1, <1>0, <3>4 DEF LogInv, OneOpenRow
      <4>2. CASE row = [key |-> k, by |-> "live", tx |-> 0]
        <5>1. row.key = k BY <4>2
        <5> QED BY <4>2, <5>1, <2>00, <3>2, <3>4
      <4>3. CASE other = [key |-> k, by |-> "live", tx |-> 0]
        <5>1. other.key = k BY <4>3
        <5> QED BY <4>3, <5>1, <2>00, <3>2, <3>4
      <4> QED BY <4>1, <4>2, <4>3, <2>00
    <3> QED BY <3>1, <3>3, <3>4 DEF OneOpenRow
  <2> QED BY <2>1, <2>2, <2>3 DEF LogInv
<1> QED BY <1>1, <1>2 DEF OneByOne

LEMMA FailGroupKeeps ==
  ASSUME LogInv, step # "free", FailGroup, faults' \in 0 .. MaxFaults
  PROVE  LogInv'
<1> DEFINE keys == IF Cardinality(group) > 1 THEN group ELSE todo
<1>1. keys \subseteq Held /\ OneByOne(keys, sent \ Live)
  BY DEF FailGroup, Held
<1>2. UNCHANGED <<chain, committed, up, dangling>>
  BY DEF FailGroup
<1>3. \A k \in keys : committed[k] = 0
  BY <1>1 DEF LogInv, CallInv
<1>4. committed \in [Keys -> Nat] BY DEF LogInv, TypeOK
<1> HIDE DEF keys
<1>5. committed' \in [Keys -> Nat] BY <1>2, <1>4
<1>6. \A k \in Keys : committed'[k] = committed[k] BY <1>2
<1>7. \A k \in keys : committed'[k] = 0 BY <1>2, <1>3
<1>8. UNCHANGED <<chain, up, dangling>> BY <1>2
<1> QED BY <1>1, <1>5, <1>6, <1>7, <1>8, OneByOneKeeps

LEMMA LogStep == Ids /\ LogInv /\ [Next]_vars => LogInv'
<1> SUFFICES ASSUME Ids, LogInv, [Next]_vars PROVE LogInv' OBVIOUS
<1> USE ExecutorAssumption
<1>1. ASSUME NEW t \in mempool, Commit(t) PROVE LogInv'
  <2>1. t.id \in 1 .. sends
    BY <1>1 DEF LogInv, TypeOK
  <2>2. minted' \in [Rounds -> Nat]
    BY <1>1 DEF Commit, LogInv, TypeOK
  <2>3. advanced' \subseteq Pools /\ confirmed' \subseteq 1 .. sends /\ mempool' \subseteq mempool
    BY <1>1, <2>1 DEF Commit, LogInv, TypeOK
  <2>4. UNCHANGED <<sends, sent, committed, up, dangling, queue, step, group, todo, tx, faults>>
    BY <1>1 DEF Commit, log, call
  <2> QED BY <2>2, <2>3, <2>4 DEF LogInv, TypeOK, CallInv, OneOpenRow, Held
<1>2. ASSUME NEW t \in mempool, Evict(t) PROVE LogInv'
  BY <1>2 DEF Evict, Fault, LogInv, TypeOK, CallInv, OneOpenRow, Held, log, call
<1>3. ASSUME NEW p \in Pools, SomeoneElse(p) PROVE LogInv'
  BY <1>3 DEF SomeoneElse, LogInv, TypeOK, CallInv, OneOpenRow, Held, log, call
<1>4. ASSUME NEW keys \in SUBSET Keys, Enqueue(keys) PROVE LogInv'
  BY <1>4 DEF Enqueue, LogInv, TypeOK, CallInv, OneOpenRow, Held, chain, log, call
<1>5. ASSUME Begin PROVE LogInv'
  <2> DEFINE keys == {k \in Head(queue) : ~Open(k)}
  <2>0. Head(queue) \in SUBSET Keys /\ Tail(queue) \in Seq(SUBSET Keys)
    BY <1>5 DEF Begin, LogInv, TypeOK
  <2>1. CASE keys = {}
    <3>1. /\ Release /\ UNCHANGED <<chain, committed, up, dangling, faults, sent>>
          /\ step = "free" /\ queue # <<>>
      BY <1>5, <2>1 DEF Begin
    <3>2. TypeOK'
      BY <3>1, <2>0 DEF Release, LogInv, TypeOK, chain
    <3>3. CallInv' /\ OneOpenRow'
      BY <3>1 DEF Release, LogInv, TypeOK, CallInv, OneOpenRow, Held
    <3> QED BY <3>2, <3>3 DEF LogInv
  <2>2. CASE keys # {}
    <3>1. /\ Try(keys, {}, sent) /\ UNCHANGED <<chain, committed, up, dangling, faults>>
          /\ step = "free" /\ queue # <<>> /\ keys \subseteq Keys
      BY <1>5, <2>0, <2>2 DEF Begin
    <3>2. \A k \in keys : committed[k] = 0 /\ \A row \in sent : row.key # k
      BY <2>0 DEF Open, LogInv, TypeOK
    <3>3. \A row \in Rows(keys, 0) : row.key \in keys /\ row = [key |-> row.key, by |-> "live", tx |-> 0]
      BY DEF Rows
    <3>4. \A row \in sent : row.by = "crashed"
      BY <3>1 DEF LogInv, TypeOK, CallInv
    <3> HIDE DEF keys
    <3>5. TypeOK'
      BY <3>1, <3>3 DEF LogInv, TypeOK, Try, chain, Rows
    <3>6. CallInv'
      BY <3>1, <3>2, <3>3, <3>4 DEF LogInv, TypeOK, CallInv, Try, Held
    <3>7. OneOpenRow'
      BY <3>1, <3>2, <3>3, <3>4 DEF LogInv, TypeOK, OneOpenRow, Try
    <3> QED BY <3>5, <3>6, <3>7 DEF LogInv
  <2> QED BY <2>1, <2>2
<1>6. ASSUME Send PROVE LogInv'
  BY <1>6 DEF Send, LogInv, TypeOK, CallInv, OneOpenRow, Held, log
<1>7. ASSUME Record PROVE LogInv'
  <2>1. /\ sent' = (sent \ Live) \cup Rows(group, tx) /\ step = "accepted" /\ step' = "wait"
        /\ UNCHANGED <<chain, committed, up, dangling, queue, group, todo, tx, faults>>
    BY <1>7 DEF Record
  <2>2. \A row \in Rows(group, tx) :
          row.key \in group /\ row = [key |-> row.key, by |-> "live", tx |-> tx]
    BY DEF Rows
  <2>3. \A row \in sent \ Live : row \in sent /\ row.by = "crashed"
    BY DEF Live, LogInv, TypeOK
  <2>4. TypeOK'
    BY <2>1, <2>2, <2>3 DEF LogInv, TypeOK, CallInv, chain, Rows, Live
  <2>5. CallInv'
    BY <2>1, <2>2, <2>3 DEF LogInv, TypeOK, CallInv, Held
  <2>6. OneOpenRow'
    BY <2>1, <2>2, <2>3 DEF LogInv, TypeOK, CallInv, OneOpenRow, Held
  <2> QED BY <2>4, <2>5, <2>6 DEF LogInv
<1>8. ASSUME Waited PROVE LogInv'
  <2>1. /\ step # "free" /\ OneByOne(todo, sent \ Live)
        /\ UNCHANGED <<chain, up, dangling, faults>>
        /\ committed' = [k \in Keys |-> IF k \in group THEN committed[k] + 1 ELSE committed[k]]
    BY <1>8 DEF Waited
  <2>2. todo \subseteq Held BY DEF Held
  <2>3. committed' \in [Keys -> Nat]
    BY <2>1 DEF LogInv, TypeOK
  <2>4. \A k \in Keys : committed'[k] = committed[k] \/ (k \in group /\ committed'[k] = 1)
    BY <2>1 DEF LogInv, TypeOK, CallInv, Held
  <2>5. \A k \in todo : committed'[k] = 0
    BY <2>1 DEF LogInv, TypeOK, CallInv, Held
  <2>6. faults' \in 0 .. MaxFaults
    BY <2>1 DEF LogInv, TypeOK
  <2> QED BY <2>1, <2>2, <2>3, <2>4, <2>5, <2>6, OneByOneKeeps
<1>9. ASSUME Rejected PROVE LogInv'
  <2>1. step # "free" /\ FailGroup /\ faults' \in 0 .. MaxFaults
    BY <1>9 DEF Rejected, LogInv, TypeOK
  <2> QED BY <2>1, FailGroupKeeps
<1>10. ASSUME Fails PROVE LogInv'
  <2>1. step # "free" /\ FailGroup /\ faults' \in 0 .. MaxFaults
    BY <1>10 DEF Fails, Fault, LogInv, TypeOK
  <2> QED BY <2>1, FailGroupKeeps
<1>11. ASSUME Crash PROVE LogInv'
  <2>0. /\ sent' = {[row EXCEPT !.by = "crashed"] : row \in sent}
        /\ UNCHANGED <<chain, committed>>
        /\ dangling' = {} /\ queue' = <<>> /\ up' = FALSE
        /\ step' = "free" /\ group' = {} /\ todo' = {} /\ tx' = 0
        /\ faults' \in 0 .. MaxFaults
    BY <1>11 DEF Crash, Fault, LogInv, TypeOK
  <2>1. \A row \in sent' : \E old \in sent :
          /\ row.key = old.key /\ row.by = "crashed"
          /\ row = [key |-> old.key, by |-> "crashed", tx |-> old.tx]
    <3> SUFFICES ASSUME NEW row \in sent'
                 PROVE  \E old \in sent : /\ row.key = old.key /\ row.by = "crashed"
                                          /\ row = [key |-> old.key, by |-> "crashed", tx |-> old.tx]
      OBVIOUS
    <3> PICK old \in sent : row = [old EXCEPT !.by = "crashed"]
      BY <2>0
    <3>1. old = [key |-> old.key, by |-> old.by, tx |-> old.tx]
      BY DEF LogInv, TypeOK
    <3>2. row = [key |-> old.key, by |-> "crashed", tx |-> old.tx]
      BY <3>1
    <3> QED BY <3>2
  <2>2. TypeOK'
    <3>1. sent' \subseteq [key : Keys, by : {"live", "crashed"}, tx : 0 .. sends]
      BY <2>1 DEF LogInv, TypeOK
    <3>2. UNCHANGED <<advanced, minted, mempool, confirmed, sends, committed>>
      BY <2>0 DEF chain
    <3>3. dangling' \subseteq sent' /\ up' \in BOOLEAN
      BY <2>0
    <3>4. <<>> \in Seq(SUBSET Keys)
      OBVIOUS
    <3> QED BY <2>0, <3>1, <3>2, <3>3, <3>4 DEF LogInv, TypeOK
  <2>3. CallInv'
    BY <2>0, <2>1 DEF CallInv, Held
  <2>4. OneOpenRow'
    BY <2>0, <2>1 DEF LogInv, OneOpenRow
  <2> QED BY <2>2, <2>3, <2>4 DEF LogInv
<1>12. ASSUME Restart PROVE LogInv'
  BY <1>12 DEF Restart, LogInv, TypeOK, CallInv, OneOpenRow, Held, chain, log, call
<1>13. ASSUME NEW row \in dangling, Reconcile(row) PROVE LogInv'
  <2>1. /\ sent' \subseteq sent /\ dangling' \subseteq sent' /\ dangling' \subseteq dangling
        /\ UNCHANGED <<advanced, minted, mempool, confirmed, sends, up, queue, step, group, todo,
                       tx, faults>>
    BY <1>13 DEF Reconcile, LogInv, TypeOK, chain, call
  <2>2. row \in sent /\ row.key \in Keys /\ row.by = "crashed" /\ committed[row.key] = 0
    BY <1>13 DEF LogInv, TypeOK, CallInv, OneOpenRow
  <2>3. CASE row.tx \in confirmed
    <3>1. committed' = [committed EXCEPT ![row.key] = 1] /\ sent' = sent \ {row}
      BY <1>13, <2>2, <2>3 DEF Reconcile, Pending, Ids
    <3>2. row.key \notin Held
      BY <2>2 DEF LogInv, CallInv
    <3> QED BY <2>1, <2>2, <3>1, <3>2 DEF LogInv, TypeOK, CallInv, OneOpenRow, Held
  <2>4. CASE row.tx \notin confirmed
    <3>1. committed' = committed
      BY <1>13, <2>4 DEF Reconcile
    <3> QED BY <2>1, <3>1 DEF LogInv, TypeOK, CallInv, OneOpenRow, Held
  <2> QED BY <2>3, <2>4
<1>14. ASSUME NEW row \in dangling, LookupFails(row) PROVE LogInv'
  BY <1>14 DEF LookupFails, Fault, LogInv, TypeOK, CallInv, OneOpenRow, Held, chain, call
<1>15. ASSUME UNCHANGED vars PROVE LogInv'
  BY <1>15 DEF vars, chain, log, call, LogInv, TypeOK, CallInv, OneOpenRow, Held
<1> QED
  BY <1>1, <1>2, <1>3, <1>4, <1>5, <1>6, <1>7, <1>8, <1>9, <1>10, <1>11, <1>12, <1>13, <1>14,
     <1>15 DEF Next, Call, WakePools, WakeCreate, Keys

(* The state is what the code keeps, in every reachable state.             *)
THEOREM ExecutorTypes == Spec => []TypeOK
<1>1. LogInv => TypeOK BY DEF LogInv
<1>2. Init => Ids BY DEF Init, Ids
<1> QED BY <1>1, <1>2, IdsStep, LogInit, LogStep, PTL DEF Spec

(***************************************************************************)
(* Never two unfailed rows for one action, whatever wakes overlap, batches *)
(* are split and processes crash (executor.ts 96-102, reconcile.ts 32-55). *)
(***************************************************************************)
THEOREM OneOpenRowPerAction == Spec => []OneOpenRow
<1>1. LogInv => OneOpenRow BY DEF LogInv
<1>2. Init => Ids BY DEF Init, Ids
<1> QED BY <1>1, <1>2, IdsStep, LogInit, LogStep, PTL DEF Spec

-----------------------------------------------------------------------------
(* Layer 2: what an id did. *)

TruthInv == TxInv /\ CommittedIsTrue

\* The part of a step that only moves rows and the call, on the same chain.
Shifts ==
  /\ UNCHANGED chain
  /\ \A row \in sent' : \/ row.tx = 0
                        \/ \E old \in sent : old.key = row.key /\ old.tx = row.tx
                        \/ row.key \in group /\ row.tx = tx
  /\ tx' = 0 \/ UNCHANGED <<tx, group>>
  /\ \A k \in Keys : committed'[k] > 0 => committed[k] > 0 \/ Done(k)

LEMMA ShiftsKeep == Ids /\ TruthInv /\ Shifts => TruthInv'
<1> SUFFICES ASSUME Ids, TruthInv, Shifts PROVE TruthInv' OBVIOUS
<1>1. UNCHANGED <<advanced, minted, mempool, confirmed>> BY DEF Shifts, chain
<1>2. 0 \notin confirmed /\ \A t \in mempool : t.id # 0 BY DEF Ids
<1>3. \A k : Done(k)' <=> Done(k) BY <1>1 DEF Done
<1>4. TxInv' BY <1>1, <1>2, <1>3 DEF TruthInv, TxInv, Shifts
<1>5. CommittedIsTrue' BY <1>3 DEF TruthInv, CommittedIsTrue, Shifts
<1> QED BY <1>4, <1>5 DEF TruthInv

LEMMA OneByOneShifts ==
  ASSUME NEW keys, OneByOne(keys, sent \ Live)
  PROVE  tx' = 0 /\ \A row \in sent' : row \in sent \/ row.tx = 0
BY DEF OneByOne, Release, Try, Rows

LEMMA TruthStep == Ids /\ LogInv /\ TruthInv /\ [Next]_vars => TruthInv'
<1> SUFFICES ASSUME Ids, LogInv, TruthInv, [Next]_vars PROVE TruthInv' OBVIOUS
<1>0. TypeOK BY DEF LogInv
<1>1. ASSUME NEW t \in mempool, Commit(t) PROVE TruthInv'
  <2>1. /\ advanced' = advanced \cup (t.keys \cap Pools) /\ confirmed' = confirmed \cup {t.id}
        /\ minted' = [r \in Rounds |-> IF r \in t.keys THEN minted[r] + 1 ELSE minted[r]]
        /\ mempool' = mempool \ {t} /\ UNCHANGED <<sent, committed, tx, group>>
    BY <1>1 DEF Commit, log, call
  <2>2. \A k \in Keys : Done(k) \/ k \in t.keys => Done(k)'
    BY <2>1, <1>0 DEF Done, TypeOK, Keys
  <2>3. \A row \in sent : row.key \in Keys
    BY <1>0 DEF TypeOK
  <2>4. group \subseteq Keys
    BY <1>0 DEF TypeOK
  <2>5. TxInv'
    BY <2>1, <2>2, <2>3, <2>4 DEF TruthInv, TxInv
  <2>6. CommittedIsTrue'
    BY <2>1, <2>2 DEF TruthInv, CommittedIsTrue
  <2> QED BY <2>5, <2>6 DEF TruthInv
<1>2. ASSUME advanced \subseteq advanced', mempool' \subseteq mempool,
             UNCHANGED <<minted, confirmed, sent, committed, tx, group>>
      PROVE  TruthInv'
  <2>1. \A k \in Keys : Done(k) => Done(k)'
    BY <1>2 DEF Done
  <2>2. \A row \in sent : row.key \in Keys
    BY <1>0 DEF TypeOK
  <2>3. group \subseteq Keys
    BY <1>0 DEF TypeOK
  <2>4. TxInv'
    BY <1>2, <2>1, <2>2, <2>3 DEF TruthInv, TxInv
  <2>5. CommittedIsTrue'
    BY <1>2, <2>1 DEF TruthInv, CommittedIsTrue
  <2> QED BY <2>4, <2>5 DEF TruthInv
<1>3. ASSUME Send PROVE TruthInv'
  <2> DEFINE new == [id |-> sends + 1, keys |-> group]
  <2>1. /\ mempool' = mempool \cup {new} /\ tx' = sends + 1
        /\ UNCHANGED <<advanced, minted, confirmed, sent, committed, group>>
    BY <1>3 DEF Send, log
  <2>2. new.id = sends + 1 /\ new.keys = group
    OBVIOUS
  <2>3. /\ sends + 1 \notin confirmed
        /\ \A t \in mempool : t.id # sends + 1
    BY DEF Ids
  <2>4. \A row \in sent : row.tx # sends + 1
    BY <1>0 DEF TypeOK
  <2>5. \A k : Done(k)' <=> Done(k)
    BY <2>1 DEF Done
  <2> HIDE DEF new
  <2>6. TxInv'
    BY <2>1, <2>2, <2>3, <2>4, <2>5 DEF TruthInv, TxInv
  <2>7. CommittedIsTrue'
    BY <2>1, <2>5 DEF TruthInv, CommittedIsTrue
  <2> QED BY <2>6, <2>7 DEF TruthInv
<1>4. ASSUME NEW keys \in SUBSET Keys, Enqueue(keys) PROVE Shifts
  BY <1>4 DEF Enqueue, Shifts, log, call
<1>5. ASSUME Begin PROVE Shifts
  BY <1>5 DEF Begin, Release, Try, Rows, Shifts
<1>6. ASSUME Record PROVE Shifts
  BY <1>6 DEF Record, Rows, Shifts
<1>7. ASSUME Waited PROVE Shifts
  <2>1. /\ tx \in confirmed /\ OneByOne(todo, sent \ Live) /\ UNCHANGED chain
        /\ committed' = [k \in Keys |-> IF k \in group THEN committed[k] + 1 ELSE committed[k]]
    BY <1>7 DEF Waited
  <2>2. \A k \in Keys : committed'[k] > 0 => committed[k] > 0 \/ Done(k)
    BY <2>1 DEF TruthInv, TxInv
  <2> QED BY <2>1, <2>2, OneByOneShifts DEF Shifts
<1>8. ASSUME FailGroup PROVE Shifts
  <2> DEFINE keys == IF Cardinality(group) > 1 THEN group ELSE todo
  <2>1. OneByOne(keys, sent \ Live) /\ UNCHANGED <<chain, committed>>
    BY <1>8 DEF FailGroup
  <2> HIDE DEF keys
  <2> QED BY <2>1, OneByOneShifts DEF Shifts
<1>9. ASSUME Crash PROVE Shifts
  <2>1. /\ sent' = {[row EXCEPT !.by = "crashed"] : row \in sent}
        /\ UNCHANGED <<chain, committed>> /\ tx' = 0
    BY <1>9 DEF Crash
  <2>2. ASSUME NEW row \in sent' PROVE \E old \in sent : old.key = row.key /\ old.tx = row.tx
    <3> PICK old \in sent : row = [old EXCEPT !.by = "crashed"]
      BY <2>1
    <3>1. old = [key |-> old.key, by |-> old.by, tx |-> old.tx]
      BY <1>0 DEF TypeOK
    <3>2. row = [key |-> old.key, by |-> "crashed", tx |-> old.tx]
      BY <3>1
    <3> QED BY <3>2
  <2> QED BY <2>1, <2>2 DEF Shifts
<1>10. ASSUME Restart PROVE Shifts
  BY <1>10 DEF Restart, Shifts, log, call
<1>11. ASSUME NEW row \in dangling, Reconcile(row) PROVE Shifts
  <2>1. /\ UNCHANGED <<chain, tx, group>> /\ sent' \subseteq sent
        /\ committed' = IF row.tx \in confirmed THEN [committed EXCEPT ![row.key] = committed[row.key] + 1]
                        ELSE committed
    BY <1>11 DEF Reconcile, call
  <2>2. row \in sent
    BY <1>0 DEF TypeOK
  <2>3. \A k \in Keys : committed'[k] > 0 => committed[k] > 0 \/ Done(k)
    BY <2>1, <2>2, <1>0 DEF TruthInv, TxInv, TypeOK
  <2> QED BY <2>1, <2>3 DEF Shifts
<1>12. ASSUME NEW row \in dangling, LookupFails(row) PROVE Shifts
  BY <1>12 DEF LookupFails, Shifts, call
<1>13. ASSUME UNCHANGED vars PROVE Shifts
  BY <1>13 DEF vars, log, call, Shifts
<1>14. ASSUME NEW p \in Pools, SomeoneElse(p) PROVE TruthInv'
  BY <1>14, <1>2 DEF SomeoneElse, log, call
<1>15. ASSUME NEW t \in mempool, Evict(t) PROVE TruthInv'
  BY <1>15, <1>2 DEF Evict, log, call
<1>16. Shifts => TruthInv'
  BY ShiftsKeep
<1> QED
  BY <1>1, <1>3, <1>4, <1>5, <1>6, <1>7, <1>8, <1>9, <1>10, <1>11, <1>12, <1>13, <1>14, <1>15,
     <1>16 DEF Next, Call, WakePools, WakeCreate, Rejected, Fails, Keys

(***************************************************************************)
(* A committed row, which blocks its action for good, stands for a pool    *)
(* that was advanced or a round that exists (executor.ts 126-127, 213-214, *)
(* reconcile.ts 46-48).                                                    *)
(***************************************************************************)
THEOREM CommittedRowsTrue == Spec => []CommittedIsTrue
<1>1. Init => Ids BY DEF Init, Ids
<1>2. Init => TruthInv BY DEF Init, TruthInv, TxInv, CommittedIsTrue
<1>3. TruthInv => CommittedIsTrue BY DEF TruthInv
<1> QED BY <1>1, <1>2, <1>3, IdsStep, LogInit, LogStep, TruthStep, PTL DEF Spec

-----------------------------------------------------------------------------
(***************************************************************************)
(* Layer 3: counting.  Every transaction that went wrong is paid for by a  *)
(* fault, and the one that is under way is not pending beside the call's:  *)
(* Astray are the pending transactions that the running call does not wait *)
(* for.  For a round, what is minted or pending is paid for by the faults, *)
(* but for one, which the log or the call still knows of: Charged.         *)
(***************************************************************************)
Waiting == step \in {"accepted", "wait"}
Astray == {t \in mempool : ~(Waiting /\ t.id = tx)}

MintedBy(r) == {t \in mempool : r \in t.keys}
Charged(r) ==
  \/ committed[r] > 0
  \/ Waiting /\ r \in group /\ (tx \in confirmed \/ Pending(tx))

\* A transaction advances pools or mints rounds, never both.
Kind == (SUBSET Pools) \cup (SUBSET Rounds)

KindInv ==
  /\ queue \in Seq(Kind)
  /\ Held \in Kind
  /\ \A t \in mempool : t.keys \in Kind

CountInv ==
  /\ IsFiniteSet(mempool)
  /\ Cardinality(Astray) <= faults
  /\ \A r \in Rounds :
       minted[r] + Cardinality(MintedBy(r)) <= faults + IF Charged(r) THEN 1 ELSE 0

LEMMA KindStep == LogInv /\ KindInv /\ [Next]_vars => KindInv'
<1> SUFFICES ASSUME LogInv, KindInv, [Next]_vars PROVE KindInv' OBVIOUS
<1>0. \A K \in Kind : \A L : L \subseteq K => L \in Kind
  BY DEF Kind
<1>1. ASSUME NEW keys \in Kind, Enqueue(keys) PROVE KindInv'
  BY <1>1 DEF Enqueue, KindInv, Held, chain, call
<1>2. ASSUME NEW keys \in Kind, NEW rest, OneByOne(keys, rest), queue # <<>>, UNCHANGED mempool
      PROVE  KindInv'
  <2>1. CASE Release
    BY <1>0, <1>2, <2>1 DEF Release, KindInv, Held, Kind
  <2>2. CASE \E k \in keys : Try({k}, keys \ {k}, rest)
    <3> PICK k \in keys : Try({k}, keys \ {k}, rest) BY <2>2
    <3>1. Held' = keys
      BY DEF Try, Held
    <3> QED BY <1>2, <3>1 DEF Try, KindInv
  <2> QED BY <1>2, <2>1, <2>2 DEF OneByOne
<1>3. ASSUME Begin PROVE KindInv'
  <2> DEFINE keys == {k \in Head(queue) : ~Open(k)}
  <2>1. queue # <<>> /\ Head(queue) \in Kind /\ Tail(queue) \in Seq(Kind) /\ UNCHANGED mempool
    BY <1>3 DEF Begin, KindInv, chain
  <2>2. keys \in Kind
    BY <1>0, <2>1
  <2>3. CASE Release
    BY <2>1, <2>3, <1>0, <2>2 DEF Release, KindInv, Held
  <2>4. CASE Try(keys, {}, sent)
    <3> HIDE DEF keys
    <3>1. Held' = keys
      BY <2>4 DEF Try, Held
    <3> QED BY <2>1, <2>2, <2>4, <3>1 DEF Try, KindInv
  <2> QED BY <1>3, <2>3, <2>4 DEF Begin
<1>4. ASSUME Send PROVE KindInv'
  <2>1. /\ mempool' = mempool \cup {[id |-> sends', keys |-> group]}
        /\ UNCHANGED <<queue, group, todo>>
    BY <1>4 DEF Send
  <2>2. group \in Kind
    BY <1>0 DEF KindInv, Held
  <2> QED BY <2>1, <2>2 DEF KindInv, Held
<1>5. ASSUME Waited PROVE KindInv'
  <2>1. OneByOne(todo, sent \ Live) /\ UNCHANGED mempool /\ queue # <<>>
    BY <1>5 DEF Waited, chain, LogInv, CallInv
  <2>2. todo \in Kind
    BY <1>0 DEF KindInv, Held
  <2> QED BY <1>2, <2>1, <2>2
<1>6. ASSUME FailGroup, step # "free" PROVE KindInv'
  <2>1. UNCHANGED mempool /\ queue # <<>>
    BY <1>6 DEF FailGroup, chain, LogInv, CallInv
  <2>2. todo \in Kind /\ group \in Kind
    BY <1>0 DEF KindInv, Held
  <2>3. OneByOne(group, sent \ Live) \/ OneByOne(todo, sent \ Live)
    BY <1>6 DEF FailGroup
  <2> QED BY <1>2, <2>1, <2>2, <2>3
<1>7. ASSUME Crash PROVE KindInv'
  BY <1>7 DEF Crash, KindInv, Held, Kind, chain
<1>8. ASSUME mempool' \subseteq mempool, UNCHANGED <<queue, group, todo>> PROVE KindInv'
  BY <1>8 DEF KindInv, Held
<1>9. \A r \in Rounds : {r} \in Kind
  BY DEF Kind
<1>10. SUBSET Pools \subseteq Kind
  BY DEF Kind
<1>11. ASSUME Rejected \/ Fails PROVE KindInv'
  BY <1>6, <1>11 DEF Rejected, Fails
<1>12. ASSUME NEW p \in Pools, SomeoneElse(p) PROVE KindInv'
  BY <1>8, <1>12 DEF SomeoneElse, call
<1>13. ASSUME NEW t \in mempool, Commit(t) \/ Evict(t) PROVE KindInv'
  BY <1>8, <1>13 DEF Commit, Evict, call
<1>14. ASSUME Record \/ Restart \/ \E row \in dangling : Reconcile(row) \/ LookupFails(row)
       PROVE  KindInv'
  BY <1>8, <1>14 DEF Record, Restart, Reconcile, LookupFails, call, chain
<1>15. ASSUME UNCHANGED vars PROVE KindInv'
  BY <1>8, <1>15 DEF vars, call, chain
<1> QED
  BY <1>1, <1>3, <1>4, <1>5, <1>7, <1>9, <1>10, <1>11, <1>12, <1>13, <1>14, <1>15
     DEF Next, Call, WakePools, WakeCreate

-----------------------------------------------------------------------------
\* A step that leaves the chain alone: nothing is uncovered but by a fault.
Drifts ==
  /\ UNCHANGED chain
  /\ \/ faults' = faults + 1
     \/ /\ UNCHANGED faults
        /\ Astray' \subseteq Astray
        /\ \A r \in Rounds : Charged(r) => Charged(r)'

LEMMA AstrayOrTheCalls ==
  ASSUME Ids, IsFiniteSet(mempool)
  PROVE  /\ IsFiniteSet(Astray) /\ Cardinality(Astray) \in Nat
         /\ Cardinality(mempool) <= Cardinality(Astray) + 1
<1>1. Astray \subseteq mempool
  BY DEF Astray
<1>2. IsFiniteSet(Astray) /\ Cardinality(Astray) \in Nat
  BY <1>1, FS_Subset, FS_CardinalityType
<1>3. CASE Astray = mempool
  BY <1>2, <1>3
<1>4. CASE Astray # mempool
  <2> PICK t \in mempool : t \notin Astray BY <1>1, <1>4
  <2>1. mempool = Astray \cup {t}
    BY DEF Astray, Ids
  <2> QED BY <1>2, <2>1, FS_AddElement
<1> QED BY <1>3, <1>4

LEMMA DriftsKeep ==
  ASSUME TypeOK, Ids, CountInv, Drifts
  PROVE  CountInv'
<1>1. mempool' = mempool /\ minted' = minted
  BY DEF Drifts, chain
<1>2. \A r : MintedBy(r)' = MintedBy(r)
  BY <1>1 DEF MintedBy
<1>3. IsFiniteSet(mempool)
  BY DEF CountInv
<1>4. \A r \in Rounds : minted[r] \in Nat /\ Cardinality(MintedBy(r)) \in Nat
  <2> TAKE r \in Rounds
  <2>1. MintedBy(r) \subseteq mempool
    BY DEF MintedBy
  <2> QED BY <1>3, <2>1, FS_Subset, FS_CardinalityType DEF TypeOK
<1>5. faults \in Nat
  BY ExecutorAssumption DEF TypeOK
<1>6. /\ IsFiniteSet(Astray) /\ Cardinality(Astray) \in Nat
      /\ Cardinality(mempool) <= Cardinality(Astray) + 1
  BY <1>3, AstrayOrTheCalls
<1>7. Astray' \subseteq mempool
  BY <1>1 DEF Astray
<1>8. CASE faults' = faults + 1
  <2>1. Cardinality(Astray') <= Cardinality(mempool) /\ Cardinality(Astray') \in Nat
    BY <1>3, <1>7, FS_Subset, FS_CardinalityType
  <2>2. Cardinality(Astray') <= faults'
    BY <1>3, <1>5, <1>6, <1>8, <2>1, FS_CardinalityType DEF CountInv
  <2>3. \A r \in Rounds :
          minted'[r] + Cardinality(MintedBy(r)') <= faults' + IF Charged(r)' THEN 1 ELSE 0
    BY <1>1, <1>2, <1>4, <1>5, <1>8 DEF CountInv
  <2> QED BY <1>1, <1>3, <2>2, <2>3 DEF CountInv
<1>9. CASE faults' = faults /\ Astray' \subseteq Astray /\ \A r \in Rounds : Charged(r) => Charged(r)'
  <2>1. Cardinality(Astray') <= Cardinality(Astray) /\ Cardinality(Astray') \in Nat
    BY <1>6, <1>9, FS_Subset, FS_CardinalityType
  <2>2. Cardinality(Astray') <= faults'
    BY <1>5, <1>6, <1>9, <2>1 DEF CountInv
  <2>3. \A r \in Rounds :
          minted'[r] + Cardinality(MintedBy(r)') <= faults' + IF Charged(r)' THEN 1 ELSE 0
    BY <1>1, <1>2, <1>4, <1>5, <1>9 DEF CountInv
  <2> QED BY <1>1, <1>3, <2>2, <2>3 DEF CountInv
<1> QED BY <1>8, <1>9 DEF Drifts

\* A step of the chain: of what is pending some goes, and what it minted is counted.
LEMMA ChainKeeps ==
  ASSUME TypeOK, Ids, CountInv, UNCHANGED <<committed, call>>, mempool' \subseteq mempool,
         \/ faults' = faults + 1
         \/ faults' = faults /\ \A r \in Rounds : Charged(r) => Charged(r)',
         \A r \in Rounds :
           minted'[r] + Cardinality(MintedBy(r)') <= minted[r] + Cardinality(MintedBy(r)),
         minted' \in [Rounds -> Nat]
  PROVE  CountInv'
<1>1. IsFiniteSet(mempool) /\ IsFiniteSet(mempool')
  BY FS_Subset DEF CountInv
<1>2. /\ IsFiniteSet(Astray) /\ Cardinality(Astray) \in Nat
  BY <1>1, AstrayOrTheCalls
<1>3. Astray' \subseteq Astray
  BY DEF Astray, Waiting, call
<1>4. Cardinality(Astray') <= Cardinality(Astray) /\ Cardinality(Astray') \in Nat
  BY <1>2, <1>3, FS_Subset, FS_CardinalityType
<1>5. faults \in Nat /\ faults' \in Nat
  BY ExecutorAssumption DEF TypeOK
<1>6. Cardinality(Astray') <= faults'
  BY <1>2, <1>4, <1>5 DEF CountInv
<1>7. ASSUME NEW r \in Rounds
      PROVE  minted'[r] + Cardinality(MintedBy(r)') <= faults' + IF Charged(r)' THEN 1 ELSE 0
  <2>1. MintedBy(r) \subseteq mempool /\ MintedBy(r)' \subseteq mempool'
    BY DEF MintedBy
  <2>2. Cardinality(MintedBy(r)) \in Nat /\ Cardinality(MintedBy(r)') \in Nat
    BY <1>1, <2>1, FS_Subset, FS_CardinalityType
  <2>3. minted[r] \in Nat /\ minted'[r] \in Nat
    BY DEF TypeOK
  <2>4. minted[r] + Cardinality(MintedBy(r)) <= faults + IF Charged(r) THEN 1 ELSE 0
    BY DEF CountInv
  <2>5. minted'[r] + Cardinality(MintedBy(r)') <= minted[r] + Cardinality(MintedBy(r))
    OBVIOUS
  <2> HIDE DEF MintedBy, Charged
  <2>6. CASE faults' = faults + 1
    BY <1>5, <2>2, <2>3, <2>4, <2>5, <2>6
  <2>7. CASE faults' = faults /\ (Charged(r) => Charged(r)')
    BY <1>5, <2>2, <2>3, <2>4, <2>5, <2>7
  <2> QED BY <2>6, <2>7
<1> QED BY <1>1, <1>6, <1>7 DEF CountInv

LEMMA CountStep ==
  Ids /\ LogInv /\ TruthInv /\ KindInv /\ CountInv /\ [Next]_vars => CountInv'
<1> SUFFICES ASSUME Ids, LogInv, TruthInv, KindInv, CountInv, [Next]_vars PROVE CountInv'
  OBVIOUS
<1>0. TypeOK /\ CallInv /\ IsFiniteSet(mempool)
  BY DEF LogInv, CountInv
<1>00. \A r : IsFiniteSet(MintedBy(r)) /\ Cardinality(MintedBy(r)) \in Nat
  <2> TAKE r
  <2>1. MintedBy(r) \subseteq mempool
    BY DEF MintedBy
  <2> QED BY <1>0, <2>1, FS_Subset, FS_CardinalityType
<1>1. ASSUME NEW t \in mempool, Commit(t) PROVE CountInv'
  <2>1. /\ minted' = [r \in Rounds |-> IF r \in t.keys THEN minted[r] + 1 ELSE minted[r]]
        /\ confirmed' = confirmed \cup {t.id} /\ mempool' = mempool \ {t}
        /\ UNCHANGED <<committed, call, faults>>
    BY <1>1 DEF Commit, log
  <2>2. minted' \in [Rounds -> Nat]
    BY <1>0, <2>1 DEF TypeOK
  <2>3. ASSUME NEW r \in Rounds
        PROVE  minted'[r] + Cardinality(MintedBy(r)') <= minted[r] + Cardinality(MintedBy(r))
    <3>0. minted[r] \in Nat
      BY <1>0 DEF TypeOK
    <3>1. CASE r \in t.keys
      <4>1. MintedBy(r)' = MintedBy(r) \ {t} /\ t \in MintedBy(r)
        BY <2>1, <3>1 DEF MintedBy
      <4>2. Cardinality(MintedBy(r)') = Cardinality(MintedBy(r)) - 1
        BY <1>00, <4>1, FS_RemoveElement
      <4> QED BY <1>00, <2>1, <3>0, <3>1, <4>2
    <3>2. CASE r \notin t.keys
      <4>1. MintedBy(r)' = MintedBy(r)
        BY <2>1, <3>2 DEF MintedBy
      <4> QED BY <1>00, <2>1, <3>0, <3>2, <4>1
    <3> QED BY <3>1, <3>2
  <2>4. \A r \in Rounds : Charged(r) => Charged(r)'
    BY <2>1 DEF Charged, Waiting, Pending, call
  <2> QED BY <1>0, <2>1, <2>2, <2>3, <2>4, ChainKeeps
<1>2. ASSUME UNCHANGED <<minted, committed, call>>, mempool' \subseteq mempool,
             \/ faults' = faults + 1
             \/ faults' = faults /\ \A r \in Rounds : Charged(r) => Charged(r)'
      PROVE  CountInv'
  <2>1. ASSUME NEW r \in Rounds
        PROVE  minted'[r] + Cardinality(MintedBy(r)') <= minted[r] + Cardinality(MintedBy(r))
    <3>1. MintedBy(r)' \subseteq MintedBy(r)
      BY <1>2 DEF MintedBy
    <3>2. Cardinality(MintedBy(r)') <= Cardinality(MintedBy(r)) /\ Cardinality(MintedBy(r)') \in Nat
      BY <1>00, <3>1, FS_Subset, FS_CardinalityType
    <3>3. minted[r] \in Nat /\ minted' = minted
      BY <1>0, <1>2 DEF TypeOK
    <3> QED BY <1>00, <3>2, <3>3
  <2>2. minted' \in [Rounds -> Nat]
    BY <1>0, <1>2 DEF TypeOK
  <2> QED BY <1>0, <1>2, <2>1, <2>2, ChainKeeps
<1>3. ASSUME NEW t \in mempool, Evict(t) PROVE CountInv'
  BY <1>2, <1>3 DEF Evict, Fault, log
<1>4. ASSUME NEW p \in Pools, SomeoneElse(p) PROVE CountInv'
  <2>1. /\ mempool' = {t \in mempool : p \notin t.keys}
        /\ UNCHANGED <<minted, confirmed, committed, call, faults>>
    BY <1>4 DEF SomeoneElse, log
  <2>2. ASSUME NEW r \in Rounds, Charged(r) PROVE Charged(r)'
    <3>1. CASE Waiting /\ r \in group /\ Pending(tx)
      <4> PICK t \in mempool : t.id = tx BY <3>1 DEF Pending
      <4>1. r \in t.keys
        BY <3>1 DEF TruthInv, TxInv
      <4>2. p \notin t.keys
        BY <4>1, ExecutorAssumption DEF KindInv, Kind
      <4> QED BY <2>1, <3>1, <4>2 DEF Charged, Waiting, Pending, call
    <3> QED BY <2>1, <2>2, <3>1 DEF Charged, Waiting, call
  <2> QED BY <1>2, <2>1, <2>2
<1>5. ASSUME Send PROVE CountInv'
  <2> DEFINE new == [id |-> sends + 1, keys |-> group]
  <2>1. /\ step = "draft" /\ step' = "accepted" /\ tx' = sends + 1
        /\ mempool' = mempool \cup {new}
        /\ UNCHANGED <<minted, confirmed, committed, group, faults>>
    BY <1>5 DEF Send, log
  <2>2. new.id = sends + 1 /\ new.keys = group /\ new \notin mempool
    BY DEF Ids
  <2> HIDE DEF new
  <2>3. IsFiniteSet(mempool')
    BY <1>0, <2>1, FS_AddElement
  <2>4. Astray = mempool
    BY <2>1 DEF Astray, Waiting
  <2>5. Astray' \subseteq mempool
    BY <2>1, <2>2 DEF Astray, Waiting
  <2>6. Cardinality(Astray') <= faults'
    <3>1. Cardinality(Astray') <= Cardinality(mempool) /\ Cardinality(Astray') \in Nat
      BY <1>0, <2>5, FS_Subset, FS_CardinalityType
    <3>2. Cardinality(mempool) <= faults /\ Cardinality(mempool) \in Nat /\ faults \in Nat
      BY <1>0, <2>4, FS_CardinalityType, ExecutorAssumption DEF CountInv, TypeOK
    <3> QED BY <2>1, <3>1, <3>2
  <2>7. ASSUME NEW r \in Rounds
        PROVE  minted'[r] + Cardinality(MintedBy(r)') <= faults' + IF Charged(r)' THEN 1 ELSE 0
    <3>0. /\ minted'[r] = minted[r] /\ minted[r] \in Nat /\ faults \in Nat /\ faults' = faults
          /\ minted[r] + Cardinality(MintedBy(r)) <= faults + IF Charged(r) THEN 1 ELSE 0
      BY <1>0, <2>1, ExecutorAssumption DEF TypeOK, CountInv
    <3>1. CASE r \in group
      <4>1. ~Charged(r)
        BY <1>0, <2>1, <3>1 DEF Charged, Waiting, CallInv, Held
      <4>2. Charged(r)'
        BY <2>1, <2>2, <3>1 DEF Charged, Waiting, Pending
      <4>3. MintedBy(r)' = MintedBy(r) \cup {new}
        BY <2>1, <2>2, <3>1 DEF MintedBy
      <4>4. Cardinality(MintedBy(r)') <= Cardinality(MintedBy(r)) + 1
            /\ Cardinality(MintedBy(r)') \in Nat
        <5>1. new \notin MintedBy(r)
          BY <2>2 DEF MintedBy
        <5>2. Cardinality(MintedBy(r) \cup {new}) = Cardinality(MintedBy(r)) + 1
          BY <1>00, <5>1, FS_AddElement
        <5> QED BY <1>00, <4>3, <5>2
      <4> QED BY <1>00, <3>0, <4>1, <4>2, <4>4
    <3>2. CASE r \notin group
      <4>1. MintedBy(r)' = MintedBy(r)
        BY <2>1, <2>2, <3>2 DEF MintedBy
      <4>2. Charged(r) => Charged(r)'
        BY <2>1, <3>2 DEF Charged
      <4> QED BY <1>00, <3>0, <4>1, <4>2
    <3> QED BY <3>1, <3>2
  <2> QED BY <2>3, <2>6, <2>7 DEF CountInv
<1>6. ASSUME NEW keys, Enqueue(keys) PROVE Drifts
  BY <1>6 DEF Enqueue, Drifts, Astray, Charged, Waiting, Pending, chain, log, call
<1>7. ASSUME Begin PROVE Drifts
  <2>1. step = "free" /\ UNCHANGED <<chain, committed, faults>>
    BY <1>7 DEF Begin
  <2> QED BY <2>1 DEF Drifts, Astray, Charged, Waiting, chain
<1>8. ASSUME Record PROVE Drifts
  BY <1>8 DEF Record, Drifts, Astray, Charged, Waiting, Pending, chain
<1>9. ASSUME Waited PROVE Drifts
  <2>1. /\ step = "wait" /\ tx \in confirmed /\ UNCHANGED <<chain, faults>>
        /\ committed' = [k \in Keys |-> IF k \in group THEN committed[k] + 1 ELSE committed[k]]
    BY <1>9 DEF Waited
  <2>2. Astray = mempool
    BY <2>1 DEF Astray, Ids
  <2>3. \A r \in Rounds : Charged(r) => committed'[r] > 0
    BY <1>0, <2>1 DEF Charged, Keys, TypeOK
  <2> QED BY <2>1, <2>2, <2>3 DEF Drifts, Astray, Charged, chain
<1>10. ASSUME Rejected PROVE Drifts
  <2>1. /\ UNCHANGED <<chain, committed, faults>>
        /\ ~Waiting \/ (tx \notin confirmed /\ ~Pending(tx))
    BY <1>10 DEF Rejected, FailGroup, Waiting
  <2>2. Astray = mempool
    BY <2>1 DEF Astray, Pending
  <2> QED BY <2>1, <2>2 DEF Drifts, Astray, Charged, chain
<1>11. ASSUME Fails \/ Crash \/ \E row \in dangling : LookupFails(row) PROVE Drifts
  BY <1>11 DEF Fails, FailGroup, Crash, LookupFails, Fault, Drifts
<1>12. ASSUME Restart PROVE Drifts
  BY <1>12 DEF Restart, Drifts, Astray, Charged, Waiting, Pending, chain, log, call
<1>13. ASSUME NEW row \in dangling, Reconcile(row) PROVE Drifts
  <2>1. /\ UNCHANGED <<chain, call, faults>>
        /\ committed' = IF row.tx \in confirmed THEN [committed EXCEPT ![row.key] = committed[row.key] + 1]
                        ELSE committed
    BY <1>13 DEF Reconcile
  <2>2. \A r \in Rounds : committed[r] > 0 => committed'[r] > 0
    BY <1>0, <2>1 DEF TypeOK, Keys
  <2> QED BY <2>1, <2>2 DEF Drifts, Astray, Charged, Waiting, Pending, chain, call
<1>14. ASSUME UNCHANGED vars PROVE Drifts
  BY <1>14 DEF vars, Drifts, Astray, Charged, Waiting, Pending, chain, log, call
<1>15. Drifts => CountInv'
  BY <1>0, DriftsKeep
<1> QED
  BY <1>1, <1>3, <1>4, <1>5, <1>6, <1>7, <1>8, <1>9, <1>10, <1>11, <1>12, <1>13, <1>14, <1>15
     DEF Next, Call, WakePools, WakeCreate

LEMMA CountInit == Init => KindInv /\ CountInv
<1> SUFFICES ASSUME Init PROVE KindInv /\ CountInv OBVIOUS
<1>1. KindInv
  BY DEF Init, KindInv, Held, Kind
<1>2. mempool = {} /\ Astray = {} /\ faults = 0
  BY DEF Init, Astray
<1>3. IsFiniteSet({}) /\ Cardinality({}) = 0
  BY FS_EmptySet
<1>4. \A r \in Rounds : minted[r] = 0 /\ MintedBy(r) = {}
  BY DEF Init, MintedBy
<1>5. \A r \in Rounds : minted[r] + Cardinality(MintedBy(r)) = 0
  BY <1>3, <1>4
<1>6. CountInv
  BY <1>2, <1>3, <1>5 DEF CountInv
<1> QED BY <1>1, <1>6

(***************************************************************************)
(* A round is minted at most once more than things went wrong, however     *)
(* many wakes overlap and saw no pool of it (executor.ts 96-99).           *)
(***************************************************************************)
THEOREM DuplicatesArePaidFor == Spec => []DuplicatesNeedFaults
<1>1. LogInv /\ CountInv => DuplicatesNeedFaults
  <2> SUFFICES ASSUME LogInv, CountInv, NEW r \in Rounds PROVE minted[r] <= 1 + faults
    BY DEF DuplicatesNeedFaults
  <2>1. MintedBy(r) \subseteq mempool
    BY DEF MintedBy
  <2>2. Cardinality(MintedBy(r)) \in Nat
    BY <2>1, FS_Subset, FS_CardinalityType DEF CountInv
  <2>3. minted[r] \in Nat /\ faults \in Nat
    BY ExecutorAssumption DEF LogInv, TypeOK
  <2> QED BY <2>2, <2>3 DEF CountInv
<1>2. Init => Ids BY DEF Init, Ids
<1>3. Init => TruthInv BY DEF Init, TruthInv, TxInv, CommittedIsTrue
<1> QED
  BY <1>1, <1>2, <1>3, IdsStep, LogInit, LogStep, TruthStep, CountInit, KindStep, CountStep, PTL
     DEF Spec

(***************************************************************************)
(* At a draft, everything that is still pending went wrong for its own     *)
(* call: the mutex is held until the commit (mutex.ts 14-22,               *)
(* executor.ts 126, 213).                                                  *)
(***************************************************************************)
THEOREM DraftsAfterCommit == Spec => []DraftsOnCommitted
<1>1. CountInv => DraftsOnCommitted
  <2>1. step = "draft" => Astray = mempool
    BY DEF Astray, Waiting
  <2> QED BY <2>1 DEF CountInv, DraftsOnCommitted
<1>2. Init => Ids BY DEF Init, Ids
<1>3. Init => TruthInv BY DEF Init, TruthInv, TxInv, CommittedIsTrue
<1> QED
  BY <1>1, <1>2, <1>3, IdsStep, LogInit, LogStep, TruthStep, CountInit, KindStep, CountStep, PTL
     DEF Spec
=============================================================================
