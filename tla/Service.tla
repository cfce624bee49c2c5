------------------------------ MODULE Service ------------------------------
(***************************************************************************)
(* The watcher process of one lane, role "all": the timeline and its       *)
(* timers, the wakes and sweeps that read the chain and arm it again, the  *)
(* oracle worker, and the service that starts, winds down and stops them.  *)
(* Handlers interleave at their awaits, any await may throw, the process   *)
(* may die and boot again.                                                 *)
(*                                                                         *)
(* Time is the wall clock in small steps.  A round is named by the grid    *)
(* boundary that creates it, and so is its pool.  What a wake decides and  *)
(* broadcasts, read by read, is module Keeper's, and what tx_log makes of  *)
(* it Executor's: here the reads and the transactions of one batch are one *)
(* step, which does what is due or fails; a failure is logged and returned,  *)
(* it throws nothing.                                                      *)
(***************************************************************************)
EXTENDS Integers, FiniteSets

CONSTANTS
  D,           \* durationSecs of the lane
  Lead,        \* createLeadSecs
  Grace,       \* grace(D)
  CloseGrace,  \* closeGrace(D)
  Retry,       \* retryDelaySecs
  First,       \* firstCreateAt
  Rounds,      \* bound on the rounds of the lane
  Horizon,     \* bound on the clock: this instant stands for all later ones
  MaxWakes,    \* bound on the wakes in flight
  MaxScans,    \* bound on the sweeps in flight
  SweepEvery,  \* KEEPER_SWEEP_INTERVAL
  MaxEvents,   \* bound on what comes from outside: faults, signals, other people
  Slack        \* bound on how far the clock runs ahead of what is under way

ASSUME ServiceAssumption ==
  /\ {D, Lead, Grace, CloseGrace, Retry, Rounds, SweepEvery} \subseteq Nat \ {0}
  /\ {First, Horizon, MaxWakes, MaxScans, MaxEvents, Slack} \subseteq Nat
  /\ Lead <= First
  /\ Grace <= CloseGrace

Boundaries == {First + k * D : k \in 0 .. Rounds - 1}
Beyond == First + Rounds * D      \* stands for every later boundary of the grid
Never == Horizon + Retry + 1      \* when it is due
None == -1

VARIABLES
  wall,
  pt,         \* publish time of the oracle cell
  pools,      \* on chain: status per round; TERMINAL is FINALIZED or VOID
  made,       \* rounds with an open create row in tx_log
  \* Timeline
  slots,      \* {<<due time, wake entry>>}; a slot without entries is deleted
  poolIndex,  \* pool -> due time, or None
  cadenceIndex,
  \* Keeper
  stopped,
  windingDown,
  wake,       \* the wakes in flight
  scan,       \* the sweeps in flight, and start(), which is like one
  \* service
  svc,        \* "off", "booting", "up", "stopping", "closed"
  worker,     \* OracleWorker
  faults,     \* what threw or died, and pools that no wake saw come
  events      \* all that came from outside, what failed without a throw included

timeline == <<slots, poolIndex, cadenceIndex>>
chain == <<pools, made>>
service == <<stopped, windingDown, svc>>
outside == <<faults, events>>
vars == <<wall, pt, chain, timeline, service, wake, scan, worker, outside>>

Outside == events < MaxEvents /\ events' = events + 1
Event == Outside /\ UNCHANGED faults
Fault == Outside /\ faults' = faults + 1

-----------------------------------------------------------------------------
(***************************************************************************)
(* The grid.                                                               *)
(***************************************************************************)
boundaryAtOrAfter(t) ==
  IF t <= First THEN First ELSE First + ((t - First + D - 1) \div D) * D

boundaryAfter(t) ==
  IF t < First THEN First ELSE First + ((t - First) \div D + 1) * D

boundaryAtOrBefore(t) ==
  IF t <= First THEN First ELSE First + ((t - First) \div D) * D

createFireTime(b) == IF b = Beyond THEN Never ELSE b - Lead

startTime(b) == b + D
closeTime(b) == b + 2 * D
voidTime(b) == closeTime(b) + Grace
closeDeadline(b) == closeTime(b) + CloseGrace

Live(status) == status \notin {"NONE", "CLOSED"}

nextBoundary(status, b) ==
  CASE status = "OPEN" -> startTime(b)
    [] status = "LOCKED" -> closeTime(b)
    [] status = "SETTLED" -> voidTime(b)
    [] status = "TERMINAL" -> closeDeadline(b)

nextWakeTime(status, b, now) ==
  IF nextBoundary(status, b) <= now THEN now ELSE nextBoundary(status, b)

\* Mutant: two slots of the retry grid instead of one.
nextRetrySlotTwice(t) == (t \div Retry + 2) * Retry

nextRetrySlot(t) == (t \div Retry + 1) * Retry

\* Where decide sends a pool; to itself when nothing is due.
decided(status, b, now) ==
  CASE status = "OPEN" /\ pt >= closeTime(b) -> {"TERMINAL"}
    [] status = "OPEN" /\ pt >= startTime(b) /\ pt < closeTime(b) -> {"LOCKED", "TERMINAL"}
    [] status = "LOCKED" /\ now >= closeTime(b) /\ pt >= closeTime(b) ->
         IF pt < voidTime(b) THEN {"SETTLED", "TERMINAL"} ELSE {"TERMINAL"}
    [] status = "SETTLED" /\ pt >= voidTime(b) -> {"TERMINAL"}
    [] status = "TERMINAL" /\ now > closeDeadline(b) -> {"CLOSED"}
    [] OTHER -> {status}

-----------------------------------------------------------------------------
(***************************************************************************)
(* Timeline.  An entry is in the slot of its due time and its due time in  *)
(* the index; every operation keeps the two together.  The operations are  *)
(* functions of a timeline, for handlers perform several of them, and a    *)
(* loop over pools is one operation on all of them.                        *)
(***************************************************************************)
PoolEntry(b) == <<"pool", b>>
CreateEntry(b) == <<"create", b>>
Creations == {CreateEntry(b) : b \in Boundaries \cup {Beyond}}
Entries == {PoolEntry(b) : b \in Boundaries} \cup Creations

tl == [slots |-> slots, pool |-> poolIndex, create |-> cadenceIndex]
Become(new) == slots' = new.slots /\ poolIndex' = new.pool /\ cadenceIndex' = new.create

Empty == [slots |-> {}, pool |-> [b \in Boundaries |-> None], create |-> None]

Unindexed(T, S) == [b \in Boundaries |-> IF b \in S THEN None ELSE T.pool[b]]

\* Mutant: the entries stay in their slots.
removePoolFromIndex(T, S) == [slots |-> T.slots, pool |-> Unindexed(T, S), create |-> T.create]

removePool(T, S) ==
  [slots |-> T.slots \ {<<T.pool[b], PoolEntry(b)>> : b \in S},
   pool |-> Unindexed(T, S), create |-> T.create]

\* Each pool of at gets the one timer of that time, or none.
schedulePool(T, at) ==
  LET R == removePool(T, DOMAIN at)
  IN  [slots |-> R.slots \cup {<<at[b], PoolEntry(b)>> : b \in {x \in DOMAIN at : at[x] # None}},
       pool |-> [b \in Boundaries |-> IF b \in DOMAIN at THEN at[b] ELSE R.pool[b]],
       create |-> R.create]

removeCreate(T) ==
  [slots |-> {s \in T.slots : s[1] # T.create \/ s[2] \notin Creations},
   pool |-> T.pool, create |-> None]

scheduleCreate(T, boundary) ==
  LET b == IF boundary > Beyond THEN Beyond ELSE boundary
  IN  [slots |-> removeCreate(T).slots \cup {<<createFireTime(b), CreateEntry(b)>>},
       pool |-> T.pool, create |-> createFireTime(b)]

\* A slot's timer: the slot and the index entries go, then onWake is called.
Rung(T, t) ==
  [slots |-> {s \in T.slots : s[1] # t},
   pool |-> Unindexed(T, {b \in Boundaries : <<t, PoolEntry(b)>> \in T.slots}),
   create |-> IF \E e \in Creations : <<t, e>> \in T.slots THEN None ELSE T.create]

\* scheduleRetryOrNext on what was read of the pools, now being the tip.
retryOrNext(view, now) ==
  [b \in DOMAIN view |->
     IF ~Live(view[b]) THEN None
     ELSE IF nextWakeTime(view[b], b, now) <= now THEN nextRetrySlot(wall)
     ELSE nextWakeTime(view[b], b, now)]

\* schedulePoolFromState.
fromState(view, now) ==
  [b \in DOMAIN view |-> IF Live(view[b]) THEN nextWakeTime(view[b], b, now) ELSE None]

-----------------------------------------------------------------------------
(***************************************************************************)
(* Wakes.                                                                  *)
(***************************************************************************)
Idle == [at |-> "idle", now |-> 0, pools |-> {}, creates |-> {}]
IdleWakes == {w \in 1 .. MaxWakes : wake[w] = Idle}

\* The tip is behind the wall clock.
Tips == {wall} \cup (IF wall \in 1 .. Horizon - 1 THEN {wall - 1} ELSE {})

Ready(t) == t <= wall \/ (wall = Horizon /\ t <= Horizon + Retry)

FirstIdle(w) == w \in IdleWakes /\ \A other \in IdleWakes : w <= other

Woken(t) ==
  [at |-> "now", now |-> wall,
   pools |-> {b \in Boundaries : <<t, PoolEntry(b)>> \in slots},
   creates |-> {b \in Boundaries : <<t, CreateEntry(b)>> \in slots}]

\* Mutant: no look at stopped.
FireAnyway(t) ==
  /\ Ready(t)
  /\ Become(Rung(tl, t))
  /\ \E w \in 1 .. MaxWakes : FirstIdle(w) /\ wake' = [wake EXCEPT ![w] = Woken(t)]
  /\ UNCHANGED <<wall, pt, chain, service, scan, worker, outside>>

Fire(t) ==
  /\ Ready(t)
  /\ Become(Rung(tl, t))
  /\ \E w \in 1 .. MaxWakes :
       FirstIdle(w) /\ wake' = IF stopped THEN wake ELSE [wake EXCEPT ![w] = Woken(t)]
  /\ UNCHANGED <<wall, pt, chain, service, scan, worker, outside>>

\* The next create entry of the wake, or its end.
Creates(w, creates) ==
  wake' = [wake EXCEPT ![w] = IF creates = {} \/ windingDown THEN Idle
             ELSE [at |-> "list", now |-> wake[w].now, pools |-> {}, creates |-> creates]]

\* Mutant: only the pools with nothing due or a transaction that went through
\* are armed again.
TransitionsDone(w) ==
  /\ wake[w].at = "now"
  /\ \E now \in Tips :
       LET seen == {b \in wake[w].pools : Live(pools[b])}
           all == [b \in seen |-> decided(pools[b], b, now)]
       IN  /\ \E out \in [seen -> UNION {all[b] \cup {pools[b]} : b \in seen}] :
                /\ \A b \in seen : out[b] \in all[b] \cup {pools[b]}
                /\ pools' = [b \in Boundaries |-> IF b \in seen THEN out[b] ELSE pools[b]]
                /\ IF \A b \in seen : out[b] \in all[b] THEN UNCHANGED outside ELSE Event
                /\ wake' = [wake EXCEPT ![w] = [at |-> "post", now |-> now,
                                                pools |-> {b \in seen : out[b] \in all[b]},
                                                creates |-> wake[w].creates]]
           /\ Become(removePool(tl, wake[w].pools \ seen))
  /\ UNCHANGED <<wall, pt, made, service, scan, worker>>

\* The tip, then readPool, decide and executeDecisions for the pools of the
\* batch: all that is due, or what succeeds of it.  The executor never throws:
\* the wake goes on and arms what it saw.
Transitions(w) ==
  /\ wake[w].at = "now"
  /\ \E now \in Tips :
       LET seen == {b \in wake[w].pools : Live(pools[b])}
           all == [b \in seen |-> decided(pools[b], b, now)]
       IN  /\ \E out \in [seen -> UNION {all[b] \cup {pools[b]} : b \in seen}] :
                /\ \A b \in seen : out[b] \in all[b] \cup {pools[b]}
                /\ pools' = [b \in Boundaries |-> IF b \in seen THEN out[b] ELSE pools[b]]
                /\ IF \A b \in seen : out[b] \in all[b] THEN UNCHANGED outside ELSE Event
           /\ Become(removePool(tl, wake[w].pools \ seen))
           /\ wake' = [wake EXCEPT ![w] = [at |-> "post", now |-> now, pools |-> seen,
                                           creates |-> wake[w].creates]]
  /\ UNCHANGED <<wall, pt, made, service, scan, worker>>

Rearm(w) ==
  /\ wake[w].at = "post"
  /\ Become(schedulePool(tl, retryOrNext([b \in wake[w].pools |-> pools[b]], wake[w].now)))
  /\ Creates(w, wake[w].creates)
  /\ UNCHANGED <<wall, pt, chain, service, scan, worker, outside>>

\* The end of handleCreateEntry.
Linked(w, b) ==
  /\ LET T == IF Live(pools[b])
              THEN schedulePool(tl, [x \in {b} |-> nextWakeTime(pools[b], b, wake[w].now)])
              ELSE tl
     IN  Become(scheduleCreate(T, boundaryAfter(b)))
  /\ Creates(w, wake[w].creates \ {b})

\* listOwnPools; without a pool of the round executeCreate, which is skipped,
\* done or fails.
List(w) ==
  /\ wake[w].at = "list"
  /\ \E b \in wake[w].creates :
       IF Live(pools[b]) THEN Linked(w, b) /\ UNCHANGED <<chain, outside>>
       ELSE /\ \/ b \in made /\ UNCHANGED <<chain, outside>>
               \/ /\ b \notin made
                  /\ made' = made \cup {b}
                  /\ pools' = [pools EXCEPT ![b] = "OPEN"]
                  /\ UNCHANGED outside
               \/ b \notin made /\ Event /\ UNCHANGED chain
            /\ wake' = [wake EXCEPT ![w].at = "link"]
            /\ UNCHANGED timeline
  /\ UNCHANGED <<wall, pt, service, scan, worker>>

Link(w) ==
  /\ wake[w].at = "link"
  /\ \E b \in wake[w].creates : Linked(w, b)
  /\ UNCHANGED <<wall, pt, chain, service, scan, worker, outside>>

\* Any await of a wake; the service logs it.
WakeThrows(w) ==
  /\ wake[w] # Idle
  /\ wake' = [wake EXCEPT ![w] = Idle]
  /\ Fault
  /\ UNCHANGED <<wall, pt, chain, timeline, service, scan, worker>>

-----------------------------------------------------------------------------
(***************************************************************************)
(* Sweeps, and start(), which is one that begins with reconcile, is not    *)
(* tracked and arms overdue pools at once.                                 *)
(***************************************************************************)
NoScan == [at |-> "idle", boot |-> FALSE, now |-> 0, view |-> [b \in Boundaries |-> "NONE"]]
Scans == 1 .. MaxScans
Sweeping == \E s \in Scans : scan[s] # NoScan /\ ~scan[s].boot

BeginScan(at, boot) ==
  \E s \in Scans :
    /\ scan[s] = NoScan /\ \A r \in Scans : r < s => scan[r] # NoScan
    /\ scan' = [scan EXCEPT ![s] = [at |-> at, boot |-> boot, now |-> wall, view |-> NoScan.view]]

Sweep ==
  /\ svc = "up" /\ ~stopped /\ wall % SweepEvery = 0
  /\ BeginScan("now", FALSE)
  /\ UNCHANGED <<wall, pt, chain, timeline, service, wake, worker, outside>>

ScanList(s) ==
  /\ scan[s].at = "now"
  /\ \E tip \in Tips :
       scan' = [scan EXCEPT ![s] = [at |-> "apply", boot |-> scan[s].boot, now |-> tip, view |-> pools]]
  /\ UNCHANGED <<wall, pt, chain, timeline, service, wake, worker, outside>>

\* Pools that are not listed keep what they have.
ScanApply(s) ==
  /\ scan[s].at = "apply"
  /\ LET listed == {b \in Boundaries : Live(scan[s].view[b])}
         view == [b \in listed |-> scan[s].view[b]]
         T == schedulePool(tl, IF scan[s].boot THEN fromState(view, scan[s].now)
                               ELSE retryOrNext(view, scan[s].now))
     IN  Become(IF windingDown THEN T ELSE scheduleCreate(T, boundaryAtOrAfter(scan[s].now)))
  /\ scan' = [scan EXCEPT ![s] = NoScan]
  /\ IF scan[s].boot
     THEN /\ svc' = IF svc = "booting" THEN "up" ELSE svc
          /\ worker' = [on |-> TRUE, due |-> boundaryAtOrBefore(wall)]
     ELSE UNCHANGED <<svc, worker>>
  /\ UNCHANGED <<wall, pt, chain, stopped, windingDown, wake, outside>>

ScanThrows(s) ==
  /\ scan[s] # NoScan /\ ~scan[s].boot
  /\ scan' = [scan EXCEPT ![s] = NoScan]
  /\ Fault
  /\ UNCHANGED <<wall, pt, chain, timeline, service, wake, worker>>

-----------------------------------------------------------------------------
(***************************************************************************)
(* OracleWorker.                                                           *)
(***************************************************************************)
Smaller(a, b) == IF a < b THEN a ELSE b

\* Mutant: no tick at boundary + grace.
nextDueBoundary(now) == boundaryAfter(now)

nextDue(now) ==
  LET passed == boundaryAtOrBefore(now) + Grace
  IN  Smaller(boundaryAfter(now), IF passed > now THEN passed ELSE boundaryAfter(now) + Grace)

\* The first tick at or after due is pulled, unless the cell has one already;
\* an advance that fails is logged and not tried again.
WorkerAdvances ==
  /\ worker.on /\ (worker.due <= wall \/ wall = Horizon)
  /\ \/ pt' = (IF pt >= worker.due THEN pt ELSE worker.due) /\ UNCHANGED outside
     \/ pt < worker.due /\ Event /\ UNCHANGED pt
  /\ worker' = [worker EXCEPT !.due = nextDue(wall)]
  /\ UNCHANGED <<wall, chain, timeline, service, wake, scan>>

-----------------------------------------------------------------------------
(***************************************************************************)
(* Start, signals, stop, crash.                                            *)
(***************************************************************************)
WorkerOff == [on |-> FALSE, due |-> 0]

Boot ==
  /\ svc = "off"
  /\ svc' = "booting"
  /\ BeginScan("boot", TRUE)
  /\ UNCHANGED <<wall, pt, chain, timeline, stopped, windingDown, wake, worker, outside>>

\* The service's own reconcile, the first index and the API are through; then
\* Keeper.start.  A service that was stopped meanwhile does not get here: its
\* API cannot listen any more, its database is closed.
KeeperStart(s) ==
  /\ scan[s].at = "boot"
  /\ IF svc = "booting"
     THEN /\ stopped' = FALSE
          /\ scan' = [scan EXCEPT ![s].at = "reconcile"]
     ELSE /\ scan' = [scan EXCEPT ![s] = NoScan]
          /\ UNCHANGED stopped
  /\ UNCHANGED <<wall, pt, chain, timeline, windingDown, svc, wake, worker, outside>>

KeeperReconciled(s) ==
  /\ scan[s].at = "reconcile"
  /\ scan' = [scan EXCEPT ![s] = IF svc = "closed" THEN NoScan ELSE [@ EXCEPT !.at = "now"]]
  /\ UNCHANGED <<wall, pt, chain, timeline, service, wake, worker, outside>>

WindDown ==
  /\ svc # "off" /\ ~windingDown
  /\ windingDown' = TRUE
  /\ Event
  /\ UNCHANGED <<wall, pt, chain, timeline, stopped, svc, wake, scan, worker>>

Resume ==
  /\ windingDown
  /\ windingDown' = FALSE
  /\ IF stopped THEN UNCHANGED scan ELSE BeginScan("now", FALSE)
  /\ Event
  /\ UNCHANGED <<wall, pt, chain, timeline, stopped, svc, wake, worker>>

Shutdown ==
  /\ svc \in {"booting", "up"}
  /\ svc' = "stopping"
  /\ stopped' = TRUE
  /\ Become(Empty)
  /\ Event
  /\ UNCHANGED <<wall, pt, chain, windingDown, wake, scan, worker>>

\* Wakes and sweeps are drained, start() and the oracle worker are not.
Close ==
  /\ svc = "stopping" /\ IdleWakes = 1 .. MaxWakes /\ ~Sweeping
  /\ svc' = "closed"
  /\ worker' = WorkerOff
  /\ UNCHANGED <<wall, pt, chain, timeline, stopped, windingDown, wake, scan, outside>>

Crash ==
  /\ svc \in {"booting", "up", "stopping"}
  /\ svc' = "off"
  /\ stopped' = TRUE /\ windingDown' = FALSE
  /\ Become(Empty)
  /\ wake' = [w \in 1 .. MaxWakes |-> Idle]
  /\ scan' = [s \in Scans |-> NoScan]
  /\ worker' = WorkerOff
  /\ Fault
  /\ UNCHANGED <<wall, pt, chain>>

-----------------------------------------------------------------------------
\* Anybody may move a pool on.
SomeoneElse(b) ==
  /\ Live(pools[b]) /\ svc # "closed"
  /\ \E to \in decided(pools[b], b, wall) \ {"CLOSED"} : pools' = [pools EXCEPT ![b] = to]
  /\ Event
  /\ UNCHANGED <<wall, pt, made, timeline, service, wake, scan, worker>>

\* Its creator opens one by hand, or a creation that timed out and was given
\* up commits after all: the next sweep finds it.
OutOfBand(b) ==
  /\ pools[b] = "NONE"
  /\ pools' = [pools EXCEPT ![b] = "OPEN"]
  /\ Fault
  /\ UNCHANGED <<wall, pt, made, timeline, service, wake, scan, worker>>

Pressing(t) == t + Slack <= wall

Tick ==
  /\ wall < Horizon /\ svc # "closed"
  /\ \A s \in slots : ~Pressing(s[1])
  /\ \A w \in 1 .. MaxWakes : wake[w] # Idle => ~Pressing(wake[w].now)
  /\ \A s \in Scans : scan[s] # NoScan => ~Pressing(scan[s].now)
  /\ worker.on => ~Pressing(worker.due)
  /\ wall' = wall + 1
  /\ UNCHANGED <<pt, chain, timeline, service, wake, scan, worker, outside>>

Init ==
  /\ wall = 0 /\ pt = 0
  /\ pools = [b \in Boundaries |-> "NONE"] /\ made = {}
  /\ slots = Empty.slots /\ poolIndex = Empty.pool /\ cadenceIndex = Empty.create
  /\ stopped = TRUE /\ windingDown = FALSE /\ svc = "off"
  /\ wake = [w \in 1 .. MaxWakes |-> Idle]
  /\ scan = [s \in Scans |-> NoScan]
  /\ worker = WorkerOff
  /\ faults = 0 /\ events = 0

WakeStep(w) ==
  \/ Transitions(w) \/ Rearm(w)
  \/ List(w) \/ Link(w)

ScanStep(s) ==
  \/ KeeperStart(s) \/ KeeperReconciled(s)
  \/ ScanList(s) \/ ScanApply(s)

Next ==
  \/ \E s \in slots : Fire(s[1])
  \/ \E w \in 1 .. MaxWakes : WakeStep(w) \/ WakeThrows(w)
  \/ Sweep
  \/ \E s \in Scans : ScanStep(s) \/ ScanThrows(s)
  \/ WorkerAdvances
  \/ Boot \/ WindDown \/ Resume \/ Shutdown \/ Close \/ Crash
  \/ \E b \in Boundaries : SomeoneElse(b) \/ OutOfBand(b)
  \/ Tick

Spec == Init /\ [][Next]_vars

-----------------------------------------------------------------------------
(***************************************************************************)
(* Properties.                                                             *)
(***************************************************************************)

(* An entity has at most one timer, and the index knows where it is:       *)
(* whatever handlers interleave, no pool is woken by two slots, and the    *)
(* lane has one creation ahead of it.                                      *)
OneTimer ==
  /\ \A b \in Boundaries, s \in slots : s[2] = PoolEntry(b) => poolIndex[b] = s[1]
  /\ \A b \in Boundaries : poolIndex[b] # None => <<poolIndex[b], PoolEntry(b)>> \in slots
  /\ \A s, other \in slots : s[2] \in Creations /\ other[2] \in Creations => s = other
  /\ \A s \in slots : s[2] \in Creations => cadenceIndex = s[1]
  /\ cadenceIndex # None => \E e \in Creations : <<cadenceIndex, e>> \in slots

(* As long as nothing throws, the schedule never loses anything, however   *)
(* many transactions and creations fail: a live pool has a timer or is in  *)
(* the hands of a wake that will arm it, and unless it winds down so has   *)
(* the next creation.  A resume counts on the sweep it starts.  Pools that *)
(* no wake saw come, and what a throw drops, are the next sweep's.         *)
NothingLost ==
  svc = "up" /\ faults = 0 =>
    /\ \A b \in Boundaries :
         Live(pools[b]) => \/ poolIndex[b] # None
                          \/ \E w \in 1 .. MaxWakes : b \in wake[w].pools \cup wake[w].creates
    /\ \/ windingDown \/ cadenceIndex # None \/ Sweeping
       \/ \E w \in 1 .. MaxWakes : wake[w].creates # {}

(* However old the state that a handler armed a pool from, the pool is     *)
(* not woken later than its next boundary, or one retry slot from now if   *)
(* that has passed.                                                        *)
NeverLate ==
  \A b \in Boundaries :
    Live(pools[b]) /\ poolIndex[b] # None =>
      poolIndex[b] <= nextBoundary(pools[b], b) \/ poolIndex[b] <= wall + Retry

(* Once stop() has closed the database, no wake and no sweep is under way, *)
(* also when it came in the middle of start() or of a resume.              *)
QuietAfterClose == svc = "closed" => IdleWakes = 1 .. MaxWakes /\ ~Sweeping

(* The worker, which knows the grid and no pools, never sleeps past a tick *)
(* that a pool waits for; a tick that was missed is made up for at the     *)
(* next boundary.                                                          *)
TicksInTime ==
  worker.on =>
    \A b \in Boundaries :
      pools[b] \in {"OPEN", "LOCKED", "SETTLED"} /\ pt < nextBoundary(pools[b], b) =>
        worker.due <= IF wall < nextBoundary(pools[b], b)
                      THEN nextBoundary(pools[b], b) ELSE boundaryAfter(wall)

(* keeper.ts: the backoff is applied so a lagging tick cannot spin the     *)
(* pool at ~0ms.  A wake arms its pools strictly after the wall clock.     *)
BackOff ==
  [][\A w \in 1 .. MaxWakes :
       wake[w].at = "post" /\ wake'[w] # wake[w] /\ timeline' # timeline =>
         \A b \in wake[w].pools : poolIndex'[b] = None \/ poolIndex'[b] > wall]_vars
=============================================================================
