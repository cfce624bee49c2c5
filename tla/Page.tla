-------------------------------- MODULE Page --------------------------------
(***************************************************************************)
(* From the PoolCell to the page a player bets on: the indexer copies the  *)
(* cell into a row of SQLite on a timer, the API serves the row, the web   *)
(* client decides from it whether a stake is still taken and what it would *)
(* pay.  The chain is the one of Quote; between any two of its steps a     *)
(* pass of the indexer may list, write, fail, or die with the process, and *)
(* the row survives in the database.                                       *)
(*                                                                         *)
(* One pool.  A listing is one moment of the chain: the node's answer is   *)
(* taken whole and a reorganisation is left out (Executor has one).        *)
(***************************************************************************)
EXTENDS Quote, FiniteSets

CONSTANT Favourites   \* the sides the player asks about

ASSUME PageAssumption == Favourites \subseteq Side

VARIABLES
  gone,      \* the pool was closed: its cell is no more
  row,       \* the pool's row in the database, {} or {Row}
  passes,    \* the passes of the indexer in flight
  indexing   \* the flag that keeps passes apart

pageVars == <<gone, row, passes, indexing>>
allVars == <<vars, pageVars>>

Passes == 1 .. 2
Idle == [at |-> "idle"]
Final == {"FINALIZED", "VOID"}

(***************************************************************************)
(* The projection.  A pass reads listPools; what it did not see is kept.   *)
(***************************************************************************)
poolToRow == [status |-> status, winner |-> winner, pot |-> pot, rake_bps |-> rake_bps]

listPools == {r \in {poolToRow} : ~gone}

upsertPool(seen) == IF seen = {} THEN row ELSE seen

\* Mutant: a tick does not look whether a pass is in flight.
IndexTickAnyway ==
  /\ \E i \in Passes :
       /\ passes[i] = Idle /\ \A j \in Passes : j < i => passes[j] # Idle
       /\ passes' = [passes EXCEPT ![i] = [at |-> "listing"]]
  /\ indexing' = TRUE
  /\ UNCHANGED <<vars, gone, row>>

IndexTick ==
  /\ ~indexing
  /\ \E i \in Passes :
       /\ passes[i] = Idle /\ \A j \in Passes : j < i => passes[j] # Idle
       /\ passes' = [passes EXCEPT ![i] = [at |-> "listing"]]
  /\ indexing' = TRUE
  /\ UNCHANGED <<vars, gone, row>>

Listed(i) ==
  /\ passes[i].at = "listing"
  /\ passes' = [passes EXCEPT ![i] = [at |-> "listed", seen |-> listPools]]
  /\ UNCHANGED <<vars, gone, row, indexing>>

Written(i) ==
  /\ passes[i].at = "listed"
  /\ row' = upsertPool(passes[i].seen)
  /\ passes' = [passes EXCEPT ![i] = Idle]
  /\ indexing' = FALSE
  /\ UNCHANGED <<vars, gone>>

\* Mutant: an error leaves the flag up.
PassFailsHeld(i) ==
  /\ passes[i] # Idle
  /\ passes' = [passes EXCEPT ![i] = Idle]
  /\ UNCHANGED <<vars, gone, row, indexing>>

\* The error is logged, the flag comes down in finally.
PassFails(i) ==
  /\ passes[i] # Idle
  /\ passes' = [passes EXCEPT ![i] = Idle]
  /\ indexing' = FALSE
  /\ UNCHANGED <<vars, gone, row>>

Restart ==
  /\ indexing
  /\ passes' = [i \in Passes |-> Idle]
  /\ indexing' = FALSE
  /\ UNCHANGED <<vars, gone, row>>

-----------------------------------------------------------------------------
(* The API, by pool id. *)
serializePool(r) ==
  [status |-> r.status, winner |-> r.winner, rakeBps |-> r.rake_bps,
   odds |-> [s \in Side |-> [pool |-> r.pot[s]]]]

poolRoute == {serializePool(r) : r \in row}

-----------------------------------------------------------------------------
(***************************************************************************)
(* The web client.  clock: where the browser's clock stands, "before" the  *)
(* start, "running" or "after" the close.  The page fetches the pool every *)
(* few seconds; the answer it still shows is a row that is older yet, and  *)
(* how old the row may be is left open here.                               *)
(***************************************************************************)
Clocks == {"before", "running", "after"}

potOf(odds) == [s \in Side |-> odds[s].pool]

\* Mutant: a round whose lock is due is rounded to a locked one.
phaseOfByClock(pool, clock) ==
  CASE pool.status = "VOID" -> "void"
    [] pool.status \in {"SETTLED", "FINALIZED"} -> "settled"
    [] pool.status = "OPEN" -> IF clock = "before" THEN "open" ELSE "locked"
    [] OTHER -> IF clock = "after" THEN "settling" ELSE "locked"

phaseOf(pool, clock) ==
  CASE pool.status = "VOID" -> "void"
    [] pool.status \in {"SETTLED", "FINALIZED"} -> "settled"
    [] pool.status = "OPEN" -> IF clock = "before" THEN "open" ELSE "locking"
    [] OTHER -> IF clock = "after" THEN "settling" ELSE "locked"

\* The ticket of the round page.
locked(pool, clock) == phaseOf(pool, clock) \notin {"open", "locking"}

-----------------------------------------------------------------------------
(***************************************************************************)
(* The chain goes on until a terminal pool is closed.                      *)
(***************************************************************************)
Gone ==
  /\ status \in Final /\ ~gone
  /\ gone' = TRUE
  /\ UNCHANGED <<vars, row, passes, indexing>>

\* The player types an amount into the ticket: without one it asks for it, and
\* takes none in a round that is locked.
TypeAmount(clock, side, add) ==
  /\ \E pool \in poolRoute :
       /\ ~locked(pool, clock) /\ add > 0
       /\ Ask(potOf(pool.odds), side, add)
  /\ UNCHANGED pageVars

PageInit ==
  /\ Init
  /\ gone = FALSE
  /\ row = {}
  /\ passes = [i \in Passes |-> Idle]
  /\ indexing = FALSE

PageNext ==
  \/ ChainNext /\ ~gone /\ UNCHANGED pageVars
  \/ \E clock \in Clocks, side \in Favourites, n \in Stakes : TypeAmount(clock, side, n)
  \/ IndexTick
  \/ \E i \in Passes : Listed(i) \/ Written(i) \/ PassFails(i)
  \/ Restart
  \/ Gone

PageSpec == PageInit /\ [][PageNext]_allVars

\* The timer ticks for ever, and some pass in the end neither fails nor is cut
\* off by a restart.
Fairness ==
  /\ WF_allVars(IndexTick)
  /\ SF_allVars(\E i \in Passes : Listed(i))
  /\ SF_allVars(\E i \in Passes : Written(i))

FairPage == PageSpec /\ Fairness

-----------------------------------------------------------------------------
Rank(s) == IF s = "OPEN" THEN 0 ELSE IF s = "LOCKED" THEN 1 ELSE IF s = "SETTLED" THEN 2 ELSE 3

\* q shows the same pool as r, at the same time or later.
Follows(r, q) ==
  /\ Rank(r.status) <= Rank(q.status)
  /\ r.rake_bps = q.rake_bps
  /\ r.status # "OPEN" => q.status # "OPEN" /\ q.pot = r.pot
  /\ r.status \in Final => q = r

(* The row never goes back, whatever passes fail or are cut off: not to an *)
(* earlier status, not to another pot once deposits are closed, and never  *)
(* away from a final result (indexer.ts indexOnce, service.ts indexTick).  *)
RowsFollow == [][\A r \in row : row' # {} /\ \A q \in row' : Follows(r, q)]_allVars

(* A final result reaches the row, unless the pool is closed first: then   *)
(* the row stays as it was, nothing removes it.                            *)
RowsSettle == (status \in Final) ~> (row = {poolToRow} \/ gone)

(* A ticket that is closed is closed on chain: wherever the clock of the   *)
(* browser stands and however old the row, the page turns no stake away    *)
(* that the contract would take, for the lock happens when ACTIVATE lands  *)
(* and not when the clock passes the start (lanes.ts 16-22, 83).  From     *)
(* then on the pot it shows is the pot that the round pays from.           *)
RefusalsTrue ==
  \A pool \in poolRoute, clock \in Clocks :
    locked(pool, clock) => status # "OPEN" /\ potOf(pool.odds) = pot
=============================================================================
