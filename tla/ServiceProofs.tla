---------------------------- MODULE ServiceProofs ----------------------------
(***************************************************************************)
(* What the watcher process promises, for any lane, number of wakes and    *)
(* sweeps in flight, and number of things that go wrong.                   *)
(***************************************************************************)
EXTENDS Service, TLAPS

Statuses == {"NONE", "OPEN", "LOCKED", "SETTLED", "TERMINAL", "CLOSED"}
Wakes == 1 .. MaxWakes

WakeType ==
  [at : {"idle", "now", "post", "list", "link"}, now : Nat,
   pools : SUBSET Boundaries, creates : SUBSET Boundaries]
ScanType ==
  [at : {"idle", "boot", "reconcile", "now", "apply"}, boot : BOOLEAN, now : Nat,
   view : [Boundaries -> Statuses]]

TypeOK ==
  /\ wall \in Nat /\ wall <= Horizon
  /\ pt \in Nat
  /\ pools \in [Boundaries -> Statuses] /\ made \subseteq Boundaries
  /\ stopped \in BOOLEAN /\ windingDown \in BOOLEAN
  /\ svc \in {"off", "booting", "up", "stopping", "closed"}
  /\ wake \in [Wakes -> WakeType]
  /\ scan \in [Scans -> ScanType]
  /\ \A w \in Wakes : wake[w].now <= wall
  /\ \A s \in Scans : scan[s].now <= wall
  /\ worker \in [on : BOOLEAN, due : Nat]
  /\ faults \in Nat /\ events \in Nat

-----------------------------------------------------------------------------
(* Layer 0: the grid. *)

LEMMA ConstantTypes ==
  /\ D \in Nat \ {0} /\ Lead \in Nat \ {0} /\ Grace \in Nat \ {0} /\ CloseGrace \in Nat \ {0}
  /\ Retry \in Nat \ {0} /\ Rounds \in Nat \ {0} /\ SweepEvery \in Nat \ {0}
  /\ First \in Nat /\ Horizon \in Nat /\ MaxWakes \in Nat /\ MaxScans \in Nat
  /\ MaxEvents \in Nat /\ Slack \in Nat
  /\ Lead <= First /\ Grace <= CloseGrace
BY ServiceAssumption

LEMMA FloorBounds ==
  ASSUME NEW n \in Nat, NEW d \in Nat \ {0}
  PROVE  /\ n \div d \in Nat
         /\ (n \div d) * d <= n
         /\ n < (n \div d + 1) * d
OBVIOUS

LEMMA MulMono ==
  ASSUME NEW a \in Nat, NEW b \in Nat, NEW d \in Nat, a <= b
  PROVE  a * d \in Nat /\ b * d \in Nat /\ a * d <= b * d
OBVIOUS

LEMMA MulReflects ==
  ASSUME NEW a \in Int, NEW b \in Int, NEW d \in Nat \ {0}, a * d < b * d
  PROVE  a < b
OBVIOUS

OnGrid(x) == \E k \in Nat : x = First + k * D

LEMMA BoundariesOnGrid ==
  /\ \A b \in Boundaries : b \in Nat /\ OnGrid(b) /\ b >= Lead
  /\ Beyond \in Nat /\ OnGrid(Beyond)
<1>1. \A k \in Nat : k * D \in Nat
  BY ConstantTypes, MulMono
<1>2. ASSUME NEW k \in Nat, NEW b, b = First + k * D PROVE b \in Nat /\ OnGrid(b) /\ b >= Lead
  <2>1. k * D \in Nat
    BY <1>1
  <2>2. OnGrid(b)
    BY <1>2 DEF OnGrid
  <2> QED BY <1>2, <2>1, <2>2, ConstantTypes
<1>3. ASSUME NEW b \in Boundaries PROVE \E k \in Nat : b = First + k * D
  <2> PICK k \in 0 .. Rounds - 1 : b = First + k * D
    BY DEF Boundaries
  <2> QED OBVIOUS
<1>4. Rounds \in Nat /\ Beyond = First + Rounds * D
  BY ConstantTypes DEF Beyond
<1> QED BY <1>2, <1>3, <1>4

LEMMA GridIsBoundaries ==
  ASSUME NEW x, OnGrid(x)
  PROVE  x \in Nat /\ (x <= Beyond => x \in Boundaries \cup {Beyond})
<1> USE ConstantTypes
<1> PICK k \in Nat : x = First + k * D
  BY DEF OnGrid
<1>1. k * D \in Nat /\ Rounds * D \in Nat
  BY MulMono
<1>2. ASSUME x <= Beyond PROVE x \in Boundaries \cup {Beyond}
  <2>1. k * D <= Rounds * D
    BY <1>1, <1>2 DEF Beyond
  <2>2. CASE k <= Rounds - 1
    BY <2>2 DEF Boundaries
  <2>3. CASE k >= Rounds
    <3>1. Rounds * D <= k * D
      BY <2>3, MulMono
    <3> QED BY <1>1, <2>1, <3>1 DEF Beyond
  <2> QED BY <2>2, <2>3
<1> QED BY <1>1, <1>2

LEMMA GridAfter ==
  ASSUME NEW t \in Nat
  PROVE  /\ OnGrid(boundaryAfter(t)) /\ boundaryAfter(t) \in Nat /\ boundaryAfter(t) > t
         /\ \A g : OnGrid(g) /\ t < g => boundaryAfter(t) <= g
<1> USE ConstantTypes
<1>1. CASE t < First
  <2>1. boundaryAfter(t) = First
    BY <1>1 DEF boundaryAfter
  <2>2. OnGrid(First)
    <3>1. First = First + 0 * D
      OBVIOUS
    <3> QED BY <3>1 DEF OnGrid
  <2>3. \A g : OnGrid(g) => First <= g
    BY MulMono DEF OnGrid
  <2> QED BY <1>1, <2>1, <2>2, <2>3
<1>2. CASE t >= First
  <2> DEFINE q == (t - First) \div D
  <2>1. t - First \in Nat
    BY <1>2
  <2>2. q \in Nat /\ q * D <= t - First /\ t - First < (q + 1) * D /\ q + 1 \in Nat
    BY <2>1, FloorBounds
  <2>3. boundaryAfter(t) = First + (q + 1) * D
    BY <1>2 DEF boundaryAfter
  <2> HIDE DEF q
  <2>4. (q + 1) * D \in Nat
    BY <2>2, MulMono
  <2>5. OnGrid(boundaryAfter(t))
    BY <2>2, <2>3 DEF OnGrid
  <2>6. boundaryAfter(t) \in Nat /\ boundaryAfter(t) > t
    BY <2>2, <2>3, <2>4
  <2>7. ASSUME NEW g, OnGrid(g), t < g PROVE boundaryAfter(t) <= g
    <3> PICK k \in Nat : g = First + k * D
      BY <2>7 DEF OnGrid
    <3>1. k * D \in Nat /\ q * D \in Nat
      BY <2>2, MulMono
    <3>2. q * D < k * D
      BY <2>2, <2>7, <3>1
    <3>3. q < k
      BY <2>2, <3>2, MulReflects
    <3>4. (q + 1) * D <= k * D
      BY <2>2, <3>3, MulMono
    <3> QED BY <2>3, <2>4, <3>1, <3>4
  <2> QED BY <2>5, <2>6, <2>7
<1> QED BY <1>1, <1>2

LEMMA GridAtOrAfter ==
  ASSUME NEW t \in Nat
  PROVE  OnGrid(boundaryAtOrAfter(t))
<1> USE ConstantTypes
<1>1. CASE t <= First
  <2>1. First = First + 0 * D
    OBVIOUS
  <2> QED BY <1>1, <2>1 DEF boundaryAtOrAfter, OnGrid
<1>2. CASE t > First
  <2>1. t - First + D - 1 \in Nat
    BY <1>2
  <2>2. (t - First + D - 1) \div D \in Nat
    BY <2>1, FloorBounds
  <2> QED BY <1>2, <2>2 DEF boundaryAtOrAfter, OnGrid
<1> QED BY <1>1, <1>2

LEMMA GridAtOrBefore ==
  ASSUME NEW t \in Nat
  PROVE  /\ OnGrid(boundaryAtOrBefore(t)) /\ boundaryAtOrBefore(t) \in Nat
         /\ IF t <= First THEN boundaryAtOrBefore(t) = First ELSE boundaryAtOrBefore(t) <= t
         /\ \A g : OnGrid(g) /\ g <= t => g <= boundaryAtOrBefore(t)
         /\ \A g : OnGrid(g) /\ g < boundaryAtOrBefore(t) => g + D <= boundaryAtOrBefore(t)
<1> USE ConstantTypes
<1>0. \A k \in Nat : k * D \in Nat
  BY MulMono
<1>1. CASE t <= First
  <2>1. boundaryAtOrBefore(t) = First
    BY <1>1 DEF boundaryAtOrBefore
  <2>2. OnGrid(First)
    <3>1. First = First + 0 * D
      OBVIOUS
    <3> QED BY <3>1 DEF OnGrid
  <2>3. \A g : OnGrid(g) => g \in Nat /\ First <= g
    BY <1>0 DEF OnGrid
  <2> QED BY <1>1, <2>1, <2>2, <2>3
<1>2. CASE t > First
  <2> DEFINE q == (t - First) \div D
  <2>1. t - First \in Nat
    BY <1>2
  <2>2. q \in Nat /\ q * D <= t - First /\ t - First < (q + 1) * D /\ q + 1 \in Nat
    BY <2>1, FloorBounds
  <2>3. boundaryAtOrBefore(t) = First + q * D
    BY <1>2 DEF boundaryAtOrBefore
  <2> HIDE DEF q
  <2>4. (q + 1) * D \in Nat /\ q * D \in Nat
    BY <2>2, <1>0
  <2>5. OnGrid(boundaryAtOrBefore(t)) /\ boundaryAtOrBefore(t) \in Nat /\ boundaryAtOrBefore(t) <= t
    BY <2>2, <2>3, <2>4 DEF OnGrid
  <2>6. ASSUME NEW g, OnGrid(g), g <= t PROVE g <= boundaryAtOrBefore(t)
    <3> PICK k \in Nat : g = First + k * D
      BY <2>6 DEF OnGrid
    <3>1. k * D \in Nat /\ k * D < (q + 1) * D
      BY <2>2, <2>4, <2>6, <1>0
    <3>2. k < q + 1
      BY <2>2, <3>1, MulReflects
    <3>3. k * D <= q * D
      BY <2>2, <3>2, MulMono
    <3> QED BY <2>3, <2>4, <3>1, <3>3
  <2>7. ASSUME NEW g, OnGrid(g), g < boundaryAtOrBefore(t) PROVE g + D <= boundaryAtOrBefore(t)
    <3> PICK k \in Nat : g = First + k * D
      BY <2>7 DEF OnGrid
    <3>1. k * D \in Nat /\ k * D < q * D
      BY <2>3, <2>4, <2>7, <1>0
    <3>2. k < q /\ k + 1 \in Nat
      BY <2>2, <3>1, MulReflects
    <3>3. (k + 1) * D <= q * D /\ (k + 1) * D = k * D + D
      BY <2>2, <3>2, MulMono
    <3> QED BY <2>3, <2>4, <3>1, <3>3
  <2> QED BY <1>2, <2>5, <2>6, <2>7
<1> QED BY <1>1, <1>2

LEMMA RetrySlot ==
  ASSUME NEW t \in Nat
  PROVE  nextRetrySlot(t) \in Nat /\ t < nextRetrySlot(t) /\ nextRetrySlot(t) <= t + Retry
<1> DEFINE q == t \div Retry
<1>1. q \in Nat /\ q * Retry <= t /\ t < (q + 1) * Retry /\ nextRetrySlot(t) = (q + 1) * Retry
  BY ConstantTypes, FloorBounds DEF nextRetrySlot
<1> HIDE DEF q
<1>2. q * Retry \in Nat /\ (q + 1) * Retry = q * Retry + Retry
  BY <1>1, ConstantTypes, MulMono
<1> QED BY <1>1, <1>2, ConstantTypes

-----------------------------------------------------------------------------
(* Layer 1: the timeline. *)

IsTimeline(T) ==
  /\ T.slots \subseteq Nat \X Entries
  /\ T.pool \in [Boundaries -> Nat \cup {None}]
  /\ T.create \in Nat \cup {None}
  /\ \A b \in Boundaries, s \in T.slots : s[2] = PoolEntry(b) => T.pool[b] = s[1]
  /\ \A b \in Boundaries : T.pool[b] # None => <<T.pool[b], PoolEntry(b)>> \in T.slots
  /\ \A s, other \in T.slots : s[2] \in Creations /\ other[2] \in Creations => s = other
  /\ \A s \in T.slots : s[2] \in Creations => T.create = s[1]
  /\ T.create # None => \E e \in Creations : <<T.create, e>> \in T.slots
  /\ \A b \in Boundaries \cup {Beyond} : \A s \in T.slots :
       s[2] = CreateEntry(b) => s[1] = createFireTime(b)

\* What a wake has in hand: one creation at most, and pools only before it.
InHand(r) ==
  /\ \A b, c \in r.creates : b = c
  /\ r.at \in {"list", "link"} => r.pools = {}

HandsInv ==
  /\ IsTimeline(tl)
  /\ \A w \in Wakes : InHand(wake[w])

\* Once stopped it stays quiet, until the process boots again.
QuietInv ==
  /\ svc \in {"off", "stopping", "closed"} => stopped
  /\ svc = "up" => ~stopped
  /\ svc = "off" \/ (svc = "booting" /\ stopped) =>
       /\ slots = {}
       /\ \A w \in Wakes : wake[w] = Idle
       /\ \A s \in Scans : scan[s].at \in {"idle", "boot"}
  /\ svc = "closed" =>
       /\ \A w \in Wakes : wake[w] = Idle
       /\ \A s \in Scans : scan[s] = NoScan \/ scan[s].boot
  /\ \A s \in Scans : scan[s].at \in {"boot", "reconcile"} => scan[s].boot
  /\ \A s \in Scans : scan[s].at = "idle" => scan[s] = NoScan
  /\ \A w \in Wakes : wake[w].at = "idle" => wake[w] = Idle

Held(w, b) ==
  \/ b \in wake[w].pools
  \/ wake[w].at = "link" /\ b \in wake[w].creates

HeldInv ==
  faults = 0 /\ svc \in {"off", "booting", "up"} =>
    \A b \in Boundaries :
      Live(pools[b]) => poolIndex[b] # None \/ \E w \in Wakes : Held(w, b)

AheadInv ==
  faults = 0 /\ svc = "up" =>
    \/ windingDown \/ cadenceIndex # None \/ Sweeping
    \/ \E w \in Wakes : wake[w].creates # {}

Rank(status) ==
  CASE status = "NONE" -> 0
    [] status = "OPEN" -> 1
    [] status = "LOCKED" -> 2
    [] status = "SETTLED" -> 3
    [] status = "TERMINAL" -> 4
    [] status = "CLOSED" -> 5

\* A pool of a round that is over may be closed, and opened again by a late creation.
Over(b) == closeDeadline(b) <= wall
Follows(status, old, b) == Rank(old) <= Rank(status) \/ Over(b)

Due(status, b) == IF status = "CLOSED" THEN closeDeadline(b) ELSE nextBoundary(status, b)

LateInv ==
  \A b \in Boundaries :
    /\ pools[b] = "CLOSED" => Over(b)
    /\ poolIndex[b] # None =>
         /\ pools[b] # "NONE"
         /\ poolIndex[b] <= Due(pools[b], b) \/ poolIndex[b] <= wall + Retry
    /\ \A s \in Scans : scan[s].at = "apply" /\ Live(scan[s].view[b]) =>
         pools[b] # "NONE" /\ Follows(pools[b], scan[s].view[b], b)

\* What the worker is for: the times a pool may wait for.
TickTimes(b) == {startTime(b), closeTime(b), voidTime(b)}

TickInv ==
  worker.on =>
    \A b \in Boundaries : \A p \in TickTimes(b) :
      worker.due <= IF wall < p THEN p ELSE boundaryAfter(wall)

LEMMA EntryFacts ==
  /\ \A b, c : PoolEntry(b) = PoolEntry(c) => b = c
  /\ \A b, c : CreateEntry(b) = CreateEntry(c) => b = c
  /\ \A b : PoolEntry(b) \notin Creations
  /\ \A b \in Boundaries : PoolEntry(b) \in Entries
  /\ \A b \in Boundaries \cup {Beyond} : CreateEntry(b) \in Creations
  /\ Creations \subseteq Entries
  /\ \A e \in Creations : \E b \in Boundaries \cup {Beyond} : e = CreateEntry(b)
BY DEF PoolEntry, CreateEntry, Creations, Entries

LEMMA EmptyIsTimeline == IsTimeline(Empty)
BY DEF Empty, IsTimeline, None

LEMMA BecomeKeeps ==
  ASSUME NEW T, IsTimeline(T), Become(T)
  PROVE  IsTimeline(tl)'
BY DEF IsTimeline, Become, tl

LEMMA RemoveKeeps ==
  ASSUME NEW T, IsTimeline(T), NEW S \in SUBSET Boundaries
  PROVE  /\ IsTimeline(removePool(T, S))
         /\ \A b \in Boundaries : removePool(T, S).pool[b] = IF b \in S THEN None ELSE T.pool[b]
         /\ \A s \in removePool(T, S).slots : s \in T.slots /\ \A b \in S : s[2] # PoolEntry(b)
         /\ removePool(T, S).create = T.create
<1> DEFINE R == removePool(T, S)
<1>1. /\ R.slots = T.slots \ {<<T.pool[b], PoolEntry(b)>> : b \in S}
      /\ R.pool = [b \in Boundaries |-> IF b \in S THEN None ELSE T.pool[b]]
      /\ R.create = T.create
  BY DEF removePool, Unindexed
<1> HIDE DEF R
<1>2. \A b \in Boundaries : R.pool[b] = IF b \in S THEN None ELSE T.pool[b]
  BY <1>1
<1>3. ASSUME NEW s \in R.slots, NEW b \in S PROVE s[2] # PoolEntry(b)
  <2>1. s \in T.slots /\ s = <<s[1], s[2]>> /\ s # <<T.pool[b], PoolEntry(b)>>
    BY <1>1 DEF IsTimeline
  <2> QED BY <2>1 DEF IsTimeline
<1>4. \A s \in T.slots : s[2] \in Creations => s \in R.slots
  BY <1>1, EntryFacts
<1>5. ASSUME NEW b \in Boundaries, b \notin S, T.pool[b] # None
      PROVE  <<T.pool[b], PoolEntry(b)>> \in R.slots
  <2>1. <<T.pool[b], PoolEntry(b)>> \in T.slots
    BY <1>5 DEF IsTimeline
  <2>2. \A c \in S : <<T.pool[b], PoolEntry(b)>> # <<T.pool[c], PoolEntry(c)>>
    BY <1>5, EntryFacts
  <2> QED BY <1>1, <2>1, <2>2
<1>6. R.slots \subseteq Nat \X Entries
  BY <1>1 DEF IsTimeline
<1>7. R.pool \in [Boundaries -> Nat \cup {None}]
  BY <1>1 DEF IsTimeline
<1>8. \A b \in Boundaries, s \in R.slots : s[2] = PoolEntry(b) => R.pool[b] = s[1]
  BY <1>1, <1>2, <1>3 DEF IsTimeline
<1>9. \A b \in Boundaries : R.pool[b] # None => <<R.pool[b], PoolEntry(b)>> \in R.slots
  BY <1>2, <1>5
<1>10. /\ \A s, other \in R.slots : s[2] \in Creations /\ other[2] \in Creations => s = other
       /\ \A s \in R.slots : s[2] \in Creations => R.create = s[1]
       /\ \A b \in Boundaries \cup {Beyond} : \A s \in R.slots :
            s[2] = CreateEntry(b) => s[1] = createFireTime(b)
  BY <1>1 DEF IsTimeline
<1>11. R.create # None => \E e \in Creations : <<R.create, e>> \in R.slots
  <2> SUFFICES ASSUME R.create # None PROVE \E e \in Creations : <<R.create, e>> \in R.slots
    OBVIOUS
  <2> PICK e \in Creations : <<T.create, e>> \in T.slots
    BY <1>1 DEF IsTimeline
  <2>1. <<T.create, e>>[2] = e
    OBVIOUS
  <2> QED BY <1>1, <1>4, <2>1
<1>12. IsTimeline(R)
  BY <1>1, <1>6, <1>7, <1>8, <1>9, <1>10, <1>11 DEF IsTimeline
<1> QED BY <1>1, <1>2, <1>3, <1>12 DEF R

LEMMA ScheduleKeeps ==
  ASSUME NEW T, IsTimeline(T), NEW at, DOMAIN at \subseteq Boundaries,
         \A b \in DOMAIN at : at[b] \in Nat \cup {None}
  PROVE  /\ IsTimeline(schedulePool(T, at))
         /\ \A b \in Boundaries :
              schedulePool(T, at).pool[b] = IF b \in DOMAIN at THEN at[b] ELSE T.pool[b]
         /\ schedulePool(T, at).create = T.create
<1> DEFINE R == removePool(T, DOMAIN at)
           N == schedulePool(T, at)
           new == {<<at[b], PoolEntry(b)>> : b \in {x \in DOMAIN at : at[x] # None}}
<1>0. DOMAIN at \in SUBSET Boundaries
  OBVIOUS
<1>1. /\ N.slots = R.slots \cup new
      /\ N.pool = [b \in Boundaries |-> IF b \in DOMAIN at THEN at[b] ELSE R.pool[b]]
      /\ N.create = R.create
  BY DEF schedulePool
<1>2. /\ IsTimeline(R) /\ R.create = T.create
      /\ \A b \in Boundaries : R.pool[b] = IF b \in DOMAIN at THEN None ELSE T.pool[b]
      /\ \A s \in R.slots : \A b \in DOMAIN at : s[2] # PoolEntry(b)
  BY <1>0, RemoveKeeps
<1>3. \A s \in new : \E b \in DOMAIN at : at[b] \in Nat /\ s = <<at[b], PoolEntry(b)>>
  OBVIOUS
<1>4. \A b \in DOMAIN at : at[b] # None => <<at[b], PoolEntry(b)>> \in new
  OBVIOUS
<1> HIDE DEF R, N, new
<1>5. \A b \in Boundaries : N.pool[b] = IF b \in DOMAIN at THEN at[b] ELSE T.pool[b]
  BY <1>1, <1>2
<1>6. \A s \in new : s[2] \notin Creations /\ s \in Nat \X Entries
  BY <1>3, EntryFacts
<1>7. N.slots \subseteq Nat \X Entries
  BY <1>1, <1>2, <1>6 DEF IsTimeline
<1>8. N.pool \in [Boundaries -> Nat \cup {None}]
  BY <1>1, <1>2 DEF IsTimeline
<1>9. ASSUME NEW b \in Boundaries, NEW s \in N.slots, s[2] = PoolEntry(b) PROVE N.pool[b] = s[1]
  <2>1. CASE s \in R.slots
    BY <1>1, <1>2, <1>9, <2>1 DEF IsTimeline
  <2>2. CASE s \in new
    <3> PICK c \in DOMAIN at : at[c] \in Nat /\ s = <<at[c], PoolEntry(c)>>
      BY <1>3, <2>2
    <3>1. c = b
      BY <1>9, EntryFacts
    <3> QED BY <1>5, <3>1
  <2> QED BY <1>1, <1>9, <2>1, <2>2
<1>10. \A b \in Boundaries : N.pool[b] # None => <<N.pool[b], PoolEntry(b)>> \in N.slots
  BY <1>1, <1>2, <1>4, <1>5 DEF IsTimeline
<1>11. /\ \A s, other \in N.slots : s[2] \in Creations /\ other[2] \in Creations => s = other
       /\ \A s \in N.slots : s[2] \in Creations => N.create = s[1]
       /\ N.create # None => \E e \in Creations : <<N.create, e>> \in N.slots
  BY <1>1, <1>2, <1>6 DEF IsTimeline
<1>12. \A b \in Boundaries \cup {Beyond} : \A s \in N.slots :
         s[2] = CreateEntry(b) => s[1] = createFireTime(b)
  BY <1>1, <1>2, <1>6, EntryFacts DEF IsTimeline
<1>13. N.create \in Nat \cup {None}
  BY <1>1, <1>2 DEF IsTimeline
<1>14. IsTimeline(N)
  BY <1>7, <1>8, <1>9, <1>10, <1>11, <1>12, <1>13 DEF IsTimeline
<1> QED BY <1>1, <1>2, <1>5, <1>14 DEF N

LEMMA CreateKeeps ==
  ASSUME NEW T, IsTimeline(T), NEW boundary, OnGrid(boundary)
  PROVE  /\ IsTimeline(scheduleCreate(T, boundary))
         /\ scheduleCreate(T, boundary).pool = T.pool
         /\ scheduleCreate(T, boundary).create # None
<1> DEFINE b == IF boundary > Beyond THEN Beyond ELSE boundary
           new == <<createFireTime(b), CreateEntry(b)>>
           kept == {s \in T.slots : s[1] # T.create \/ s[2] \notin Creations}
           N == scheduleCreate(T, boundary)
<1>1. N.slots = kept \cup {new} /\ N.pool = T.pool /\ N.create = createFireTime(b)
  BY DEF scheduleCreate, removeCreate
<1>2. b \in Boundaries \cup {Beyond}
  BY GridIsBoundaries, BoundariesOnGrid
<1>3. createFireTime(b) \in Nat
  BY <1>2, BoundariesOnGrid, ConstantTypes DEF createFireTime, Never
<1>4. CreateEntry(b) \in Creations
  BY <1>2, EntryFacts
<1> HIDE DEF b, N
<1>5. \A s \in kept : s \in T.slots /\ s[2] \notin Creations
  BY DEF IsTimeline
<1>6. \A s \in T.slots : s[2] \notin Creations => s \in kept
  OBVIOUS
<1>7. new[1] = createFireTime(b) /\ new[2] = CreateEntry(b)
  OBVIOUS
<1> HIDE DEF kept, new
<1>8. N.slots \subseteq Nat \X Entries
  <2>1. new \in Nat \X Entries
    BY <1>3, <1>4, EntryFacts DEF new
  <2> QED BY <1>1, <1>5, <2>1 DEF IsTimeline
<1>9. /\ N.pool \in [Boundaries -> Nat \cup {None}]
      /\ \A c \in Boundaries, s \in N.slots : s[2] = PoolEntry(c) => N.pool[c] = s[1]
  BY <1>1, <1>4, <1>5, <1>7, EntryFacts DEF IsTimeline
<1>10. ASSUME NEW c \in Boundaries, N.pool[c] # None PROVE <<N.pool[c], PoolEntry(c)>> \in N.slots
  <2>1. <<T.pool[c], PoolEntry(c)>> \in T.slots /\ <<T.pool[c], PoolEntry(c)>>[2] = PoolEntry(c)
    BY <1>1, <1>10 DEF IsTimeline
  <2> QED BY <1>1, <1>6, <2>1, EntryFacts
<1>11. \A s \in N.slots : s[2] \in Creations => s = new
  BY <1>1, <1>5
<1>12. \E e \in Creations : <<N.create, e>> \in N.slots
  BY <1>1, <1>4 DEF new
<1>13. \A c \in Boundaries \cup {Beyond} : \A s \in N.slots :
         s[2] = CreateEntry(c) => s[1] = createFireTime(c)
  BY <1>7, <1>11, EntryFacts
<1>14. N.create \in Nat /\ \A s \in N.slots : s[2] \in Creations => N.create = s[1]
  BY <1>1, <1>3, <1>7, <1>11
<1>15. IsTimeline(N)
  BY <1>8, <1>9, <1>10, <1>11, <1>12, <1>13, <1>14 DEF IsTimeline
<1> QED BY <1>1, <1>14, <1>15 DEF N, None

LEMMA RungKeeps ==
  ASSUME NEW T, IsTimeline(T), NEW t
  PROVE  IsTimeline(Rung(T, t))
<1> DEFINE N == Rung(T, t)
<1>1. /\ N.slots = {s \in T.slots : s[1] # t}
      /\ N.pool = [b \in Boundaries |-> IF <<t, PoolEntry(b)>> \in T.slots THEN None ELSE T.pool[b]]
      /\ N.create = IF \E e \in Creations : <<t, e>> \in T.slots THEN None ELSE T.create
  BY DEF Rung, Unindexed
<1> HIDE DEF N
<1>2. \A s \in T.slots : s = <<s[1], s[2]>>
  BY DEF IsTimeline
<1>3. N.slots \subseteq Nat \X Entries /\ N.create \in Nat \cup {None}
  BY <1>1 DEF IsTimeline
<1>4. N.pool \in [Boundaries -> Nat \cup {None}]
  BY <1>1 DEF IsTimeline
<1>5. \A b \in Boundaries, s \in N.slots : s[2] = PoolEntry(b) => N.pool[b] = s[1]
  BY <1>1, <1>2 DEF IsTimeline
<1>6. ASSUME NEW b \in Boundaries, N.pool[b] # None PROVE <<N.pool[b], PoolEntry(b)>> \in N.slots
  <2>1. <<T.pool[b], PoolEntry(b)>> \in T.slots /\ N.pool[b] = T.pool[b] /\ T.pool[b] # t
    BY <1>1, <1>6 DEF IsTimeline
  <2> QED BY <1>1, <2>1
<1>7. /\ \A s, other \in N.slots : s[2] \in Creations /\ other[2] \in Creations => s = other
      /\ \A b \in Boundaries \cup {Beyond} : \A s \in N.slots :
           s[2] = CreateEntry(b) => s[1] = createFireTime(b)
  BY <1>1 DEF IsTimeline
<1>8. ASSUME NEW s \in N.slots, s[2] \in Creations PROVE N.create = s[1]
  <2>1. T.create = s[1] /\ s \in T.slots /\ s[1] # t
    BY <1>1, <1>8 DEF IsTimeline
  <2>2. ASSUME NEW e \in Creations, <<t, e>> \in T.slots PROVE FALSE
    <3>1. <<t, e>>[2] = e /\ <<t, e>>[1] = t
      OBVIOUS
    <3> QED BY <1>8, <2>1, <2>2, <3>1 DEF IsTimeline
  <2> QED BY <1>1, <2>1, <2>2
<1>9. ASSUME N.create # None PROVE \E e \in Creations : <<N.create, e>> \in N.slots
  <2>1. N.create = T.create /\ \A e \in Creations : <<t, e>> \notin T.slots
    BY <1>1, <1>9
  <2>2. PICK e \in Creations : <<T.create, e>> \in T.slots
    BY <1>9, <2>1 DEF IsTimeline
  <2>3. <<T.create, e>>[1] # t
    BY <2>1, <2>2
  <2> QED BY <1>1, <2>1, <2>2, <2>3
<1>10. IsTimeline(N)
  BY <1>3, <1>4, <1>5, <1>6, <1>7, <1>8, <1>9 DEF IsTimeline
<1> QED BY <1>10 DEF N

-----------------------------------------------------------------------------
(* Layer 2: types, what each step leaves alone, and what a handler arms. *)

LEMMA Frames ==
  /\ \A t : Fire(t) =>
       UNCHANGED <<wall, pt, pools, made, stopped, windingDown, svc, scan, worker, faults,
                   events>>
  /\ \A w : Transitions(w) =>
       UNCHANGED <<wall, pt, made, stopped, windingDown, svc, scan, worker>>
  /\ \A w : Rearm(w) =>
       UNCHANGED <<wall, pt, pools, made, stopped, windingDown, svc, scan, worker, faults,
                   events>>
  /\ \A w : List(w) =>
       UNCHANGED <<wall, pt, stopped, windingDown, svc, scan, worker>>
  /\ \A w : Link(w) =>
       UNCHANGED <<wall, pt, pools, made, stopped, windingDown, svc, scan, worker, faults,
                   events>>
  /\ \A w : WakeThrows(w) =>
       UNCHANGED <<wall, pt, pools, made, slots, poolIndex, cadenceIndex, stopped, windingDown,
                   svc, scan, worker>>
  /\ \A s : KeeperStart(s) =>
       UNCHANGED <<wall, pt, pools, made, slots, poolIndex, cadenceIndex, windingDown, svc,
                   wake, worker, faults, events>>
  /\ \A s : KeeperReconciled(s) =>
       UNCHANGED <<wall, pt, pools, made, slots, poolIndex, cadenceIndex, stopped, windingDown,
                   svc, wake, worker, faults, events>>
  /\ \A s : ScanList(s) =>
       UNCHANGED <<wall, pt, pools, made, slots, poolIndex, cadenceIndex, stopped, windingDown,
                   svc, wake, worker, faults, events>>
  /\ \A s : ScanApply(s) =>
       UNCHANGED <<wall, pt, pools, made, stopped, windingDown, wake, faults, events>>
  /\ \A s : ScanThrows(s) =>
       UNCHANGED <<wall, pt, pools, made, slots, poolIndex, cadenceIndex, stopped, windingDown,
                   svc, wake, worker>>
  /\ Sweep =>
       UNCHANGED <<wall, pt, pools, made, slots, poolIndex, cadenceIndex, stopped, windingDown,
                   svc, wake, worker, faults, events>>
  /\ WorkerAdvances =>
       UNCHANGED <<wall, pools, made, slots, poolIndex, cadenceIndex, stopped, windingDown,
                   svc, wake, scan>>
  /\ Boot =>
       UNCHANGED <<wall, pt, pools, made, slots, poolIndex, cadenceIndex, stopped, windingDown,
                   wake, worker, faults, events>>
  /\ WindDown =>
       UNCHANGED <<wall, pt, pools, made, slots, poolIndex, cadenceIndex, stopped, svc, wake,
                   scan, worker, faults>>
  /\ Resume =>
       UNCHANGED <<wall, pt, pools, made, slots, poolIndex, cadenceIndex, stopped, svc, wake,
                   worker, faults>>
  /\ Shutdown =>
       UNCHANGED <<wall, pt, pools, made, windingDown, wake, scan, worker, faults>>
  /\ Close =>
       UNCHANGED <<wall, pt, pools, made, slots, poolIndex, cadenceIndex, stopped, windingDown,
                   wake, scan, faults, events>>
  /\ Crash =>
       UNCHANGED <<wall, pt, pools, made>>
  /\ \A b : SomeoneElse(b) =>
       UNCHANGED <<wall, pt, made, slots, poolIndex, cadenceIndex, stopped, windingDown, svc,
                   wake, scan, worker, faults>>
  /\ \A b : OutOfBand(b) =>
       UNCHANGED <<wall, pt, made, slots, poolIndex, cadenceIndex, stopped, windingDown, svc,
                   wake, scan, worker>>
  /\ Tick =>
       UNCHANGED <<pt, pools, made, slots, poolIndex, cadenceIndex, stopped, windingDown, svc,
                   wake, scan, worker, faults, events>>
<1>1. ASSUME NEW t, Fire(t) PROVE
      UNCHANGED <<wall, pt, pools, made, stopped, windingDown, svc, scan, worker, faults,
                  events>>
  BY <1>1 DEF Fire, chain, service, outside
<1>2. ASSUME NEW w, Transitions(w) PROVE
      UNCHANGED <<wall, pt, made, stopped, windingDown, svc, scan, worker>>
  BY <1>2 DEF Transitions, chain, timeline, service, outside
<1>3. ASSUME NEW w, Rearm(w) PROVE
      UNCHANGED <<wall, pt, pools, made, stopped, windingDown, svc, scan, worker, faults,
                  events>>
  BY <1>3 DEF Rearm, chain, timeline, service, outside
<1>4. ASSUME NEW w, List(w) PROVE
      UNCHANGED <<wall, pt, stopped, windingDown, svc, scan, worker>>
  BY <1>4 DEF List, chain, timeline, service, outside
<1>5. ASSUME NEW w, Link(w) PROVE
      UNCHANGED <<wall, pt, pools, made, stopped, windingDown, svc, scan, worker, faults,
                  events>>
  BY <1>5 DEF Link, chain, timeline, service, outside
<1>6. ASSUME NEW w, WakeThrows(w) PROVE
      UNCHANGED <<wall, pt, pools, made, slots, poolIndex, cadenceIndex, stopped, windingDown,
                  svc, scan, worker>>
  BY <1>6 DEF WakeThrows, chain, timeline, service, outside
<1>7. ASSUME NEW s, KeeperStart(s) PROVE
      UNCHANGED <<wall, pt, pools, made, slots, poolIndex, cadenceIndex, windingDown, svc,
                  wake, worker, faults, events>>
  BY <1>7 DEF KeeperStart, chain, timeline, service, outside
<1>8. ASSUME NEW s, KeeperReconciled(s) PROVE
      UNCHANGED <<wall, pt, pools, made, slots, poolIndex, cadenceIndex, stopped, windingDown,
                  svc, wake, worker, faults, events>>
  BY <1>8 DEF KeeperReconciled, chain, timeline, service, outside
<1>9. ASSUME NEW s, ScanList(s) PROVE
      UNCHANGED <<wall, pt, pools, made, slots, poolIndex, cadenceIndex, stopped, windingDown,
                  svc, wake, worker, faults, events>>
  BY <1>9 DEF ScanList, chain, timeline, service, outside
<1>10. ASSUME NEW s, ScanApply(s) PROVE
      UNCHANGED <<wall, pt, pools, made, stopped, windingDown, wake, faults, events>>
  BY <1>10 DEF ScanApply, chain, timeline, service, outside
<1>11. ASSUME NEW s, ScanThrows(s) PROVE
      UNCHANGED <<wall, pt, pools, made, slots, poolIndex, cadenceIndex, stopped, windingDown,
                  svc, wake, worker>>
  BY <1>11 DEF ScanThrows, chain, timeline, service, outside
<1>12. ASSUME Sweep PROVE
      UNCHANGED <<wall, pt, pools, made, slots, poolIndex, cadenceIndex, stopped, windingDown,
                  svc, wake, worker, faults, events>>
  BY <1>12 DEF Sweep, chain, timeline, service, outside
<1>13. ASSUME WorkerAdvances PROVE
      UNCHANGED <<wall, pools, made, slots, poolIndex, cadenceIndex, stopped, windingDown, svc,
                  wake, scan>>
  BY <1>13 DEF WorkerAdvances, chain, timeline, service, outside
<1>14. ASSUME Boot PROVE
      UNCHANGED <<wall, pt, pools, made, slots, poolIndex, cadenceIndex, stopped, windingDown,
                  wake, worker, faults, events>>
  BY <1>14 DEF Boot, chain, timeline, service, outside
<1>15. ASSUME WindDown PROVE
      UNCHANGED <<wall, pt, pools, made, slots, poolIndex, cadenceIndex, stopped, svc, wake,
                  scan, worker, faults>>
  BY <1>15 DEF WindDown, Event, chain, timeline
<1>16. ASSUME Resume PROVE
      UNCHANGED <<wall, pt, pools, made, slots, poolIndex, cadenceIndex, stopped, svc, wake,
                  worker, faults>>
  BY <1>16 DEF Resume, Event, chain, timeline
<1>17. ASSUME Shutdown PROVE
      UNCHANGED <<wall, pt, pools, made, windingDown, wake, scan, worker, faults>>
  BY <1>17 DEF Shutdown, Event, chain
<1>18. ASSUME Close PROVE
      UNCHANGED <<wall, pt, pools, made, slots, poolIndex, cadenceIndex, stopped, windingDown,
                  wake, scan, faults, events>>
  BY <1>18 DEF Close, chain, timeline, service, outside
<1>19. ASSUME Crash PROVE
      UNCHANGED <<wall, pt, pools, made>>
  BY <1>19 DEF Crash, chain, timeline, service, outside
<1>20. ASSUME NEW b, SomeoneElse(b) PROVE
      UNCHANGED <<wall, pt, made, slots, poolIndex, cadenceIndex, stopped, windingDown, svc,
                  wake, scan, worker, faults>>
  BY <1>20 DEF SomeoneElse, Event, timeline, service
<1>21. ASSUME NEW b, OutOfBand(b) PROVE
      UNCHANGED <<wall, pt, made, slots, poolIndex, cadenceIndex, stopped, windingDown, svc,
                  wake, scan, worker>>
  BY <1>21 DEF OutOfBand, chain, timeline, service, outside
<1>22. ASSUME Tick PROVE
      UNCHANGED <<pt, pools, made, slots, poolIndex, cadenceIndex, stopped, windingDown, svc,
                  wake, scan, worker, faults, events>>
  BY <1>22 DEF Tick, chain, timeline, service, outside
<1> QED BY <1>1, <1>2, <1>3, <1>4, <1>5, <1>6, <1>7, <1>8, <1>9, <1>10, <1>11, <1>12, <1>13,
     <1>14, <1>15, <1>16, <1>17, <1>18, <1>19, <1>20, <1>21, <1>22

LEMMA StatusTimes ==
  ASSUME NEW status \in Statuses, Live(status), NEW b \in Boundaries
  PROVE  /\ nextBoundary(status, b) \in Nat
         /\ nextBoundary(status, b) <= closeDeadline(b)
         /\ closeDeadline(b) \in Nat
         /\ \A now \in Nat :
              /\ nextWakeTime(status, b, now) \in Nat
              /\ nextWakeTime(status, b, now) <= now
                   \/ nextWakeTime(status, b, now) = nextBoundary(status, b)
<1>1. b \in Nat
  BY BoundariesOnGrid
<1>2. status \in {"OPEN", "LOCKED", "SETTLED", "TERMINAL"}
  BY DEF Statuses, Live
<1>3. /\ nextBoundary(status, b) \in Nat /\ nextBoundary(status, b) <= closeDeadline(b)
      /\ closeDeadline(b) \in Nat
  BY <1>1, <1>2, ConstantTypes
     DEF nextBoundary, startTime, closeTime, voidTime, closeDeadline
<1> QED BY <1>3 DEF nextWakeTime

LEMMA DecidedMoves ==
  ASSUME NEW status \in Statuses, Live(status), NEW b \in Boundaries, NEW now \in Nat,
         NEW to \in decided(status, b, now)
  PROVE  /\ to \in Statuses /\ to # "NONE" /\ Rank(status) <= Rank(to)
         /\ to = "CLOSED" => closeDeadline(b) < now
<1>1. closeDeadline(b) \in Nat
  BY StatusTimes
<1>2. status \in {"OPEN", "LOCKED", "SETTLED", "TERMINAL"}
  BY DEF Statuses, Live
<1>3. CASE status = "OPEN"
  <2>1. to \in {"OPEN", "LOCKED", "TERMINAL"}
    BY <1>3 DEF decided
  <2> QED BY <1>3, <2>1 DEF Rank, Statuses
<1>4. CASE status = "LOCKED"
  <2>1. to \in {"LOCKED", "SETTLED", "TERMINAL"}
    BY <1>4 DEF decided
  <2> QED BY <1>4, <2>1 DEF Rank, Statuses
<1>5. CASE status = "SETTLED"
  <2>1. to \in {"SETTLED", "TERMINAL"}
    BY <1>5 DEF decided
  <2> QED BY <1>5, <2>1 DEF Rank, Statuses
<1>6. CASE status = "TERMINAL"
  <2>1. to = "TERMINAL" \/ (to = "CLOSED" /\ now > closeDeadline(b))
    BY <1>6 DEF decided
  <2> QED BY <1>1, <1>6, <2>1 DEF Rank, Statuses
<1> QED BY <1>2, <1>3, <1>4, <1>5, <1>6

\* Where a handler that read these statuses sends the timers.
Aims(at, view) ==
  /\ DOMAIN at = DOMAIN view
  /\ \A b \in DOMAIN view :
       /\ at[b] \in Nat \cup {None}
       /\ Live(view[b]) <=> at[b] # None
       /\ Live(view[b]) => at[b] <= nextBoundary(view[b], b) \/ at[b] <= wall + Retry

IsView(view) == DOMAIN view \subseteq Boundaries /\ \A b \in DOMAIN view : view[b] \in Statuses

LEMMA RetryOrNextAims ==
  ASSUME TypeOK, NEW view, IsView(view), NEW now \in Nat, now <= wall
  PROVE  Aims(retryOrNext(view, now), view)
<1> DEFINE at == retryOrNext(view, now)
<1>1. DOMAIN at = DOMAIN view
  BY DEF retryOrNext
<1>2. ASSUME NEW b \in DOMAIN view
      PROVE  /\ at[b] \in Nat \cup {None}
             /\ Live(view[b]) <=> at[b] # None
             /\ Live(view[b]) => at[b] <= nextBoundary(view[b], b) \/ at[b] <= wall + Retry
  <2>1. wall \in Nat
    BY DEF TypeOK
  <2>2. nextRetrySlot(wall) \in Nat /\ nextRetrySlot(wall) <= wall + Retry
    BY <2>1, RetrySlot
  <2>3. CASE ~Live(view[b])
    BY <2>3 DEF retryOrNext, None
  <2>4. CASE Live(view[b])
    <3>1. /\ nextBoundary(view[b], b) \in Nat /\ nextWakeTime(view[b], b, now) \in Nat
          /\ nextWakeTime(view[b], b, now) <= now
               \/ nextWakeTime(view[b], b, now) = nextBoundary(view[b], b)
      BY <2>4, StatusTimes DEF IsView
    <3>2. \/ at[b] = nextRetrySlot(wall)
          \/ at[b] = nextWakeTime(view[b], b, now) /\ ~(nextWakeTime(view[b], b, now) <= now)
      BY <2>4 DEF retryOrNext
    <3> QED BY <2>2, <2>4, <3>1, <3>2 DEF None
  <2> QED BY <2>3, <2>4
<1> QED BY <1>1, <1>2 DEF Aims

LEMMA FromStateAims ==
  ASSUME TypeOK, NEW view, IsView(view), NEW now \in Nat, now <= wall
  PROVE  Aims(fromState(view, now), view)
<1> DEFINE at == fromState(view, now)
<1>1. DOMAIN at = DOMAIN view
  BY DEF fromState
<1>2. ASSUME NEW b \in DOMAIN view
      PROVE  /\ at[b] \in Nat \cup {None}
             /\ Live(view[b]) <=> at[b] # None
             /\ Live(view[b]) => at[b] <= nextBoundary(view[b], b) \/ at[b] <= wall + Retry
  <2>1. wall \in Nat /\ Retry \in Nat
    BY ConstantTypes DEF TypeOK
  <2>2. CASE ~Live(view[b])
    BY <2>2 DEF fromState, None
  <2>3. CASE Live(view[b])
    <3>1. /\ nextBoundary(view[b], b) \in Nat /\ nextWakeTime(view[b], b, now) \in Nat
          /\ nextWakeTime(view[b], b, now) <= now
               \/ nextWakeTime(view[b], b, now) = nextBoundary(view[b], b)
      BY <2>3, StatusTimes DEF IsView
    <3>2. at[b] = nextWakeTime(view[b], b, now)
      BY <2>3 DEF fromState
    <3> QED BY <2>1, <2>3, <3>1, <3>2 DEF None
  <2> QED BY <2>2, <2>3
<1> QED BY <1>1, <1>2 DEF Aims

LEMMA AimsKeep ==
  ASSUME NEW T, IsTimeline(T), NEW view, IsView(view), NEW at, Aims(at, view)
  PROVE  /\ IsTimeline(schedulePool(T, at))
         /\ \A b \in Boundaries :
              schedulePool(T, at).pool[b] = IF b \in DOMAIN view THEN at[b] ELSE T.pool[b]
         /\ schedulePool(T, at).create = T.create
<1>1. DOMAIN at = DOMAIN view /\ DOMAIN at \subseteq Boundaries
  BY DEF Aims, IsView
<1>2. \A b \in DOMAIN at : at[b] \in Nat \cup {None}
  BY <1>1 DEF Aims
<1> QED BY <1>1, <1>2, ScheduleKeeps

\* What a step may do to the pools: on along the life cycle, or a new round.
Moves ==
  /\ pools' \in [Boundaries -> Statuses]
  /\ \A b \in Boundaries :
       \/ pools'[b] = pools[b]
       \/ /\ Live(pools[b]) /\ pools'[b] # "NONE"
          /\ Rank(pools[b]) <= Rank(pools'[b])
          /\ pools'[b] = "CLOSED" => Over(b)
       \/ ~Live(pools[b]) /\ pools'[b] = "OPEN"

Survives == faults' = faults \/ faults' = faults + 1

LEMMA TransitionsDo ==
  ASSUME TypeOK, NEW w \in Wakes, Transitions(w)
  PROVE  \E now \in Nat :
           LET seen == {b \in wake[w].pools : Live(pools[b])}
           IN  /\ now <= wall
               /\ Moves
               /\ \A b \in Boundaries \ seen : pools'[b] = pools[b]
               /\ Become(removePool(tl, wake[w].pools \ seen))
               /\ wake' = [wake EXCEPT ![w] = [at |-> "post", now |-> now, pools |-> seen,
                                               creates |-> wake[w].creates]]
               /\ faults' \in Nat /\ events' \in Nat /\ Survives
               /\ UNCHANGED <<wall, pt, made, service, scan, worker>>
<1> DEFINE seen == {b \in wake[w].pools : Live(pools[b])}
<1> PICK now \in Tips :
      LET all == [b \in seen |-> decided(pools[b], b, now)]
      IN  /\ \E out \in [seen -> UNION {all[b] \cup {pools[b]} : b \in seen}] :
               /\ \A b \in seen : out[b] \in all[b] \cup {pools[b]}
               /\ pools' = [b \in Boundaries |-> IF b \in seen THEN out[b] ELSE pools[b]]
               /\ IF \A b \in seen : out[b] \in all[b] THEN UNCHANGED outside ELSE Event
          /\ Become(removePool(tl, wake[w].pools \ seen))
          /\ wake' = [wake EXCEPT ![w] = [at |-> "post", now |-> now, pools |-> seen,
                                          creates |-> wake[w].creates]]
  BY DEF Transitions
<1> DEFINE all == [b \in seen |-> decided(pools[b], b, now)]
<1>1. now \in Nat /\ now <= wall
  BY ConstantTypes DEF Tips, TypeOK
<1>2. PICK out : /\ \A b \in seen : out[b] \in all[b] \cup {pools[b]}
                 /\ pools' = [b \in Boundaries |-> IF b \in seen THEN out[b] ELSE pools[b]]
                 /\ UNCHANGED outside \/ Event
  OBVIOUS
<1>3. \A b \in seen : all[b] = decided(pools[b], b, now)
  OBVIOUS
<1>4. wake[w] \in WakeType /\ seen \subseteq Boundaries
  BY DEF TypeOK, WakeType
<1>6. \A b \in seen : b \in Boundaries /\ Live(pools[b]) /\ pools[b] \in Statuses
  BY <1>4 DEF TypeOK
<1> HIDE DEF seen, all
<1>7. ASSUME NEW b \in seen
      PROVE  \/ pools'[b] = pools[b]
             \/ /\ Live(pools[b]) /\ pools'[b] # "NONE"
                /\ pools'[b] \in Statuses
                /\ Rank(pools[b]) <= Rank(pools'[b])
                /\ pools'[b] = "CLOSED" => Over(b)
  <2>1. pools'[b] = out[b]
    BY <1>2, <1>6
  <2>2. CASE out[b] = pools[b]
    BY <2>1, <2>2
  <2>3. CASE out[b] \in decided(pools[b], b, now)
    <3>1. /\ out[b] \in Statuses /\ out[b] # "NONE" /\ Rank(pools[b]) <= Rank(out[b])
          /\ out[b] = "CLOSED" => closeDeadline(b) < now
      BY <1>1, <1>6, <2>3, DecidedMoves
    <3>2. closeDeadline(b) \in Nat /\ wall \in Nat
      BY <1>6, StatusTimes DEF TypeOK
    <3> QED BY <1>1, <1>6, <2>1, <3>1, <3>2 DEF Over
  <2> QED BY <1>2, <1>3, <2>2, <2>3
<1>8. \A b \in Boundaries \ seen : pools'[b] = pools[b]
  BY <1>2
<1>9. Moves
  <2>1. \A b \in Boundaries : pools[b] \in Statuses
    BY DEF TypeOK
  <2>2. \A b \in Boundaries : pools'[b] \in Statuses
    BY <1>7, <1>8, <2>1
  <2>3. pools' \in [Boundaries -> Statuses]
    BY <1>2, <2>2
  <2> QED BY <1>7, <1>8, <2>3 DEF Moves
<1>10. faults' \in Nat /\ events' \in Nat /\ Survives
  BY <1>2 DEF outside, Event, Outside, TypeOK, Survives
<1>11. UNCHANGED <<wall, pt, made, service, scan, worker>>
  BY DEF Transitions
<1>12. Become(removePool(tl, wake[w].pools \ seen))
  BY DEF seen
<1>13. wake' = [wake EXCEPT ![w] = [at |-> "post", now |-> now, pools |-> seen,
                                    creates |-> wake[w].creates]]
  BY DEF seen
<1> QED BY <1>1, <1>8, <1>9, <1>10, <1>11, <1>12, <1>13 DEF seen

\* The pools of a view have the timers its statuses ask for, the others keep theirs.
Retimed(view) ==
  \A b \in Boundaries :
    IF b \in DOMAIN view
    THEN /\ Live(view[b]) <=> poolIndex'[b] # None
         /\ Live(view[b]) =>
              poolIndex'[b] <= nextBoundary(view[b], b) \/ poolIndex'[b] <= wall + Retry
    ELSE poolIndex'[b] = poolIndex[b]

LEMMA RearmDoes ==
  ASSUME TypeOK, IsTimeline(tl), NEW w \in Wakes, Rearm(w)
  PROVE  /\ IsTimeline(tl)' /\ cadenceIndex' = cadenceIndex
         /\ Retimed([b \in wake[w].pools |-> pools[b]])
<1> DEFINE view == [b \in wake[w].pools |-> pools[b]]
           at == retryOrNext(view, wake[w].now)
<1>1. wake[w].pools \subseteq Boundaries /\ wake[w].now \in Nat /\ wake[w].now <= wall
  BY DEF TypeOK, WakeType
<1>2. IsView(view)
  BY <1>1 DEF IsView, TypeOK
<1>3. Become(schedulePool(tl, at))
  BY DEF Rearm
<1> HIDE DEF view
<1>4. Aims(at, view)
  BY <1>1, <1>2, RetryOrNextAims
<1> HIDE DEF at
<1> DEFINE T == schedulePool(tl, at)
<1>5. /\ IsTimeline(T) /\ T.create = cadenceIndex
      /\ \A b \in Boundaries : T.pool[b] = IF b \in DOMAIN view THEN at[b] ELSE poolIndex[b]
  BY <1>2, <1>4, AimsKeep DEF tl
<1>6. Become(T)
  BY <1>3
<1> HIDE DEF T
<1>7. IsTimeline(tl)' /\ poolIndex' = T.pool /\ cadenceIndex' = cadenceIndex
  BY <1>5, <1>6, BecomeKeeps DEF Become
<1>8. Retimed(view)
  BY <1>4, <1>5, <1>7 DEF Retimed, Aims
<1> QED BY <1>7, <1>8 DEF view

LEMMA LinkedDoes ==
  ASSUME TypeOK, IsTimeline(tl), NEW w \in Wakes, NEW b \in wake[w].creates, Linked(w, b)
  PROVE  /\ IsTimeline(tl)' /\ cadenceIndex' # None
         /\ Retimed([x \in {c \in {b} : Live(pools[c])} |-> pools[x]])
<1> DEFINE view == [x \in {c \in {b} : Live(pools[c])} |-> pools[x]]
<1>1. b \in Boundaries /\ wake[w].now \in Nat /\ wake[w].now <= wall
  BY DEF TypeOK, WakeType
<1>2. boundaryAfter(b) \in Nat /\ OnGrid(boundaryAfter(b))
  BY <1>1, BoundariesOnGrid, GridAfter
<1>3. CASE Live(pools[b])
  <2> DEFINE at == [x \in {b} |-> nextWakeTime(pools[b], b, wake[w].now)]
             T == schedulePool(tl, at)
  <2>1. Become(scheduleCreate(T, boundaryAfter(b)))
    BY <1>3 DEF Linked
  <2>2. IsView(view) /\ DOMAIN view = {b} /\ view[b] = pools[b]
    BY <1>1, <1>3 DEF IsView, TypeOK
  <2>3. pools[b] \in Statuses /\ wall \in Nat
    BY <1>1 DEF TypeOK
  <2>4. /\ nextBoundary(pools[b], b) \in Nat /\ at[b] \in Nat
        /\ at[b] <= wake[w].now \/ at[b] = nextBoundary(pools[b], b)
    BY <1>1, <1>3, <2>3, StatusTimes
  <2>5. DOMAIN at = {b}
    OBVIOUS
  <2> HIDE DEF view, at
  <2>6. Aims(at, view)
    BY <1>1, <1>3, <2>2, <2>3, <2>4, <2>5, ConstantTypes DEF Aims, None
  <2>7. /\ IsTimeline(T) /\ T.create = cadenceIndex
        /\ \A c \in Boundaries : T.pool[c] = IF c \in DOMAIN view THEN at[c] ELSE poolIndex[c]
    BY <2>2, <2>6, AimsKeep DEF tl
  <2> HIDE DEF T
  <2>8. /\ IsTimeline(scheduleCreate(T, boundaryAfter(b)))
        /\ scheduleCreate(T, boundaryAfter(b)).pool = T.pool
        /\ scheduleCreate(T, boundaryAfter(b)).create # None
    BY <1>2, <2>7, CreateKeeps
  <2>9. IsTimeline(tl)'
    BY <2>1, <2>8, BecomeKeeps
  <2>10. poolIndex' = T.pool /\ cadenceIndex' # None
    BY <2>1, <2>8 DEF Become
  <2>11. Retimed(view)
    BY <2>6, <2>7, <2>10 DEF Retimed, Aims
  <2> QED BY <2>9, <2>10, <2>11 DEF view
<1>4. CASE ~Live(pools[b])
  <2>1. Become(scheduleCreate(tl, boundaryAfter(b)))
    BY <1>4 DEF Linked
  <2>2. /\ IsTimeline(scheduleCreate(tl, boundaryAfter(b)))
        /\ scheduleCreate(tl, boundaryAfter(b)).pool = tl.pool
        /\ scheduleCreate(tl, boundaryAfter(b)).create # None
    BY <1>2, CreateKeeps
  <2>3. IsTimeline(tl)'
    BY <2>1, <2>2, BecomeKeeps
  <2>4. poolIndex' = poolIndex /\ cadenceIndex' # None
    BY <2>1, <2>2 DEF Become, tl
  <2>5. DOMAIN view = {}
    BY <1>4
  <2>6. Retimed(view)
    BY <2>4, <2>5 DEF Retimed
  <2> QED BY <2>3, <2>4, <2>6
<1> QED BY <1>3, <1>4

LEMMA ScanApplyDoes ==
  ASSUME TypeOK, IsTimeline(tl), NEW s \in Scans, ScanApply(s)
  PROVE  /\ IsTimeline(tl)'
         /\ windingDown \/ cadenceIndex' # None
         /\ Retimed([b \in {x \in Boundaries : Live(scan[s].view[x])} |-> scan[s].view[b]])
<1> DEFINE listed == {x \in Boundaries : Live(scan[s].view[x])}
           view == [b \in listed |-> scan[s].view[b]]
           at == IF scan[s].boot THEN fromState(view, scan[s].now)
                 ELSE retryOrNext(view, scan[s].now)
           T == schedulePool(tl, at)
           g == boundaryAtOrAfter(scan[s].now)
<1>1. scan[s].now \in Nat /\ scan[s].now <= wall /\ scan[s].view \in [Boundaries -> Statuses]
  BY DEF TypeOK, ScanType
<1>2. IsView(view)
  BY <1>1 DEF IsView
<1>3. Become(IF windingDown THEN T ELSE scheduleCreate(T, g))
  BY DEF ScanApply
<1>4. OnGrid(g)
  BY <1>1, GridAtOrAfter
<1> HIDE DEF view, listed
<1>5. Aims(at, view)
  BY <1>1, <1>2, RetryOrNextAims, FromStateAims
<1> HIDE DEF at, g
<1>6. /\ IsTimeline(T) /\ T.create = cadenceIndex
      /\ \A b \in Boundaries : T.pool[b] = IF b \in DOMAIN view THEN at[b] ELSE poolIndex[b]
  BY <1>2, <1>5, AimsKeep DEF tl
<1> HIDE DEF T
<1>7. CASE windingDown
  <2>1. Become(T)
    BY <1>3, <1>7
  <2>2. IsTimeline(tl)'
    BY <1>6, <2>1, BecomeKeeps
  <2>3. poolIndex' = T.pool
    BY <2>1 DEF Become
  <2>4. Retimed(view)
    BY <1>5, <1>6, <2>3 DEF Retimed, Aims
  <2> QED BY <1>7, <2>2, <2>4 DEF view, listed
<1>8. CASE ~windingDown
  <2>1. Become(scheduleCreate(T, g))
    BY <1>3, <1>8
  <2>2. /\ IsTimeline(scheduleCreate(T, g)) /\ scheduleCreate(T, g).pool = T.pool
        /\ scheduleCreate(T, g).create # None
    BY <1>4, <1>6, CreateKeeps
  <2>3. IsTimeline(tl)'
    BY <2>1, <2>2, BecomeKeeps
  <2>4. poolIndex' = T.pool /\ cadenceIndex' # None
    BY <2>1, <2>2 DEF Become
  <2>5. Retimed(view)
    BY <1>5, <1>6, <2>4 DEF Retimed, Aims
  <2> QED BY <2>3, <2>4, <2>5 DEF view, listed
<1> QED BY <1>7, <1>8

LEMMA NothingOpen ==
  /\ Idle \in WakeType /\ NoScan \in ScanType
  /\ Idle = [at |-> "idle", now |-> 0, pools |-> {}, creates |-> {}]
  /\ NoScan.at = "idle" /\ NoScan.now = 0 /\ ~NoScan.boot
  /\ NoScan.view \in [Boundaries -> Statuses]
BY DEF Idle, NoScan, WakeType, ScanType, Statuses

LEMMA CreatesDoes ==
  ASSUME TypeOK, NEW w \in Wakes, NEW creates \in SUBSET Boundaries, Creates(w, creates)
  PROVE  /\ wake' \in [Wakes -> WakeType]
         /\ \A v \in Wakes : v # w => wake'[v] = wake[v]
         /\ \/ wake'[w] = Idle /\ (creates = {} \/ windingDown)
            \/ wake'[w] = [at |-> "list", now |-> wake[w].now, pools |-> {}, creates |-> creates]
               /\ creates # {} /\ ~windingDown
<1>1. wake[w].now \in Nat /\ wake \in [Wakes -> WakeType]
  BY DEF TypeOK, WakeType
<1>2. [at |-> "list", now |-> wake[w].now, pools |-> {}, creates |-> creates] \in WakeType
  BY <1>1 DEF WakeType
<1>3. CASE creates = {} \/ windingDown
  <2>1. wake' = [wake EXCEPT ![w] = Idle]
    BY <1>3 DEF Creates
  <2> QED BY <1>1, <1>3, <2>1, NothingOpen
<1>4. CASE ~(creates = {} \/ windingDown)
  <2>1. wake' = [wake EXCEPT ![w] = [at |-> "list", now |-> wake[w].now, pools |-> {},
                                     creates |-> creates]]
    BY <1>4 DEF Creates
  <2> QED BY <1>1, <1>2, <1>4, <2>1
<1> QED BY <1>3, <1>4

\* A wake in flight after a step: as before, over, woken, or further on.
LEMMA CreatesTyped ==
  ASSUME TypeOK, NEW w \in Wakes, NEW creates \in SUBSET Boundaries, Creates(w, creates)
  PROVE  wake' \in [Wakes -> WakeType] /\ \A v \in Wakes : wake'[v].now <= wall
<1>1. wall \in Nat /\ \A v \in Wakes : wake[v].now <= wall
  BY DEF TypeOK
<1>2. Idle.now = 0
  BY NothingOpen
<1>3. wake'[w] = Idle \/ wake'[w].now = wake[w].now
  <2>1. \/ wake'[w] = Idle
        \/ wake'[w] = [at |-> "list", now |-> wake[w].now, pools |-> {}, creates |-> creates]
    BY CreatesDoes
  <2> QED BY <2>1
<1>4. wake'[w].now <= wall
  BY <1>1, <1>2, <1>3
<1> QED BY <1>1, <1>4, CreatesDoes

LEMMA BeginScanDoes ==
  ASSUME TypeOK, NEW at \in {"boot", "now"}, NEW boot \in BOOLEAN, BeginScan(at, boot)
  PROVE  /\ scan' \in [Scans -> ScanType]
         /\ \A s \in Scans : scan'[s].now <= wall
         /\ \E s \in Scans :
              /\ scan[s] = NoScan
              /\ scan'[s] = [at |-> at, boot |-> boot, now |-> wall, view |-> NoScan.view]
              /\ \A r \in Scans : r # s => scan'[r] = scan[r]
<1> PICK s \in Scans :
      /\ scan[s] = NoScan
      /\ scan' = [scan EXCEPT ![s] = [at |-> at, boot |-> boot, now |-> wall, view |-> NoScan.view]]
  BY DEF BeginScan
<1>1. wall \in Nat /\ scan \in [Scans -> ScanType] /\ \A r \in Scans : scan[r].now <= wall
  BY DEF TypeOK
<1>2. [at |-> at, boot |-> boot, now |-> wall, view |-> NoScan.view] \in ScanType
  BY <1>1, NothingOpen DEF ScanType
<1>3. /\ scan'[s] = [at |-> at, boot |-> boot, now |-> wall, view |-> NoScan.view]
      /\ \A r \in Scans : r # s => scan'[r] = scan[r]
  BY <1>1
<1>4. scan' \in [Scans -> ScanType]
  BY <1>1, <1>2
<1>5. \A r \in Scans : scan'[r].now <= wall
  BY <1>1, <1>3
<1> QED BY <1>3, <1>4, <1>5

LEMMA ScanMoves ==
  ASSUME TypeOK, NEW s \in Scans, NEW r \in ScanType, r.now <= wall,
         scan' = [scan EXCEPT ![s] = r]
  PROVE  /\ scan' \in [Scans -> ScanType] /\ \A x \in Scans : scan'[x].now <= wall
         /\ scan'[s] = r /\ \A x \in Scans : x # s => scan'[x] = scan[x]
BY DEF TypeOK

LEMMA WakeMoves ==
  ASSUME TypeOK, NEW w \in Wakes, NEW r \in WakeType, r.now <= wall,
         wake' = [wake EXCEPT ![w] = r]
  PROVE  /\ wake' \in [Wakes -> WakeType] /\ \A x \in Wakes : wake'[x].now <= wall
         /\ wake'[w] = r /\ \A x \in Wakes : x # w => wake'[x] = wake[x]
BY DEF TypeOK

LEMMA NextDueType == ASSUME NEW t \in Nat PROVE nextDue(t) \in Nat
<1>1. boundaryAtOrBefore(t) \in Nat /\ boundaryAfter(t) \in Nat /\ Grace \in Nat
  BY GridAtOrBefore, GridAfter, ConstantTypes
<1> QED BY <1>1 DEF nextDue, Smaller

LEMMA TypeInit == Init => TypeOK
<1> SUFFICES ASSUME Init PROVE TypeOK OBVIOUS
<1>1. wake \in [Wakes -> WakeType] /\ \A w \in Wakes : wake[w].now <= wall
  BY NothingOpen DEF Init, Wakes
<1>2. scan \in [Scans -> ScanType] /\ \A s \in Scans : scan[s].now <= wall
  BY NothingOpen DEF Init
<1>3. pools \in [Boundaries -> Statuses]
  BY DEF Init, Statuses
<1>4. wall \in Nat /\ wall <= Horizon
  BY ConstantTypes DEF Init
<1>5. worker \in [on : BOOLEAN, due : Nat]
  BY DEF Init, WorkerOff
<1> QED BY <1>1, <1>2, <1>3, <1>4, <1>5 DEF Init, TypeOK

\* Of the wakes: one more fires, one goes on, or they stay as they are.
LEMMA WakeTypeStep ==
  ASSUME TypeOK, [Next]_vars
  PROVE  wake' \in [Wakes -> WakeType] /\ \A w \in Wakes : wake'[w].now <= wall'
<1>0. wall \in Nat /\ wake \in [Wakes -> WakeType] /\ \A w \in Wakes : wake[w].now <= wall
  BY DEF TypeOK
<1>1. ASSUME UNCHANGED wake, wall' \in Nat, wall <= wall'
      PROVE  wake' \in [Wakes -> WakeType] /\ \A w \in Wakes : wake'[w].now <= wall'
  <2>1. \A w \in Wakes : wake[w].now \in Nat
    BY <1>0 DEF WakeType
  <2> QED BY <1>0, <1>1, <2>1
<1>2. ASSUME NEW t, Fire(t)
      PROVE  wake' \in [Wakes -> WakeType] /\ \A w \in Wakes : wake'[w].now <= wall'
  <2> PICK w \in Wakes : wake' = IF stopped THEN wake ELSE [wake EXCEPT ![w] = Woken(t)]
    BY <1>2 DEF Fire, Wakes
  <2>1. Woken(t) \in WakeType /\ Woken(t).now = wall
    BY <1>0 DEF Woken, WakeType
  <2>2. UNCHANGED wall
    BY <1>2 DEF Fire
  <2> QED BY <1>0, <2>1, <2>2, WakeMoves
<1>3. ASSUME NEW w \in Wakes, WakeStep(w)
      PROVE  wake' \in [Wakes -> WakeType] /\ \A v \in Wakes : wake'[v].now <= wall'
  <2>0. UNCHANGED wall /\ wake[w].creates \in SUBSET Boundaries /\ wake[w].now <= wall
    BY <1>0, <1>3 DEF WakeStep, Transitions, Rearm, List, Link, WakeType
  <2>1. CASE Transitions(w)
    <3> PICK now \in Nat :
          LET seen == {b \in wake[w].pools : Live(pools[b])}
          IN  /\ now <= wall
              /\ wake' = [wake EXCEPT ![w] = [at |-> "post", now |-> now, pools |-> seen,
                                              creates |-> wake[w].creates]]
      BY <2>1, TransitionsDo
    <3> DEFINE seen == {b \in wake[w].pools : Live(pools[b])}
               r == [at |-> "post", now |-> now, pools |-> seen, creates |-> wake[w].creates]
    <3>1. seen \in SUBSET Boundaries
      BY <1>0 DEF WakeType
    <3> HIDE DEF seen
    <3>2. r \in WakeType /\ r.now <= wall
      BY <2>0, <3>1 DEF WakeType
    <3>3. wake' = [wake EXCEPT ![w] = r]
      BY DEF seen
    <3> HIDE DEF r
    <3> QED BY <2>0, <3>2, <3>3, WakeMoves
  <2>2. ASSUME NEW creates \in SUBSET Boundaries, Creates(w, creates)
        PROVE  wake' \in [Wakes -> WakeType] /\ \A v \in Wakes : wake'[v].now <= wall'
    BY <2>0, <2>2, CreatesTyped
  <2>3. ASSUME wake' = [wake EXCEPT ![w].at = "link"]
        PROVE  wake' \in [Wakes -> WakeType] /\ \A v \in Wakes : wake'[v].now <= wall'
    BY <1>0, <2>0, <2>3 DEF WakeType
  <2>4. \A b : wake[w].creates \ {b} \in SUBSET Boundaries
    BY <2>0
  <2> QED BY <1>3, <2>0, <2>1, <2>2, <2>3, <2>4 DEF WakeStep, Rearm, List, Link, Linked
<1>4. ASSUME NEW w \in Wakes, WakeThrows(w)
      PROVE  wake' \in [Wakes -> WakeType] /\ \A v \in Wakes : wake'[v].now <= wall'
  <2>1. wake' = [wake EXCEPT ![w] = Idle] /\ UNCHANGED wall /\ Idle.now <= wall
    BY <1>0, <1>4, NothingOpen DEF WakeThrows
  <2> QED BY <2>1, NothingOpen, WakeMoves
<1>5. ASSUME Crash
      PROVE  wake' \in [Wakes -> WakeType] /\ \A v \in Wakes : wake'[v].now <= wall'
  BY <1>0, <1>5, NothingOpen DEF Crash, Wakes
<1>6. ASSUME Tick PROVE UNCHANGED wake /\ wall' \in Nat /\ wall <= wall'
  BY <1>0, <1>6, Frames DEF Tick
<1>7. ASSUME NEW s, ScanStep(s) \/ ScanThrows(s) PROVE UNCHANGED <<wake, wall>>
  BY <1>7, Frames DEF ScanStep
<1>8. ASSUME \/ Sweep \/ WorkerAdvances
             \/ Boot \/ WindDown \/ Resume \/ Shutdown \/ Close
             \/ \E b : SomeoneElse(b) \/ OutOfBand(b)
      PROVE  UNCHANGED <<wake, wall>>
  BY <1>8, Frames
<1>9. ASSUME UNCHANGED vars PROVE UNCHANGED <<wake, wall>>
  BY <1>9 DEF vars
<1>10. ASSUME UNCHANGED <<wake, wall>>
       PROVE  wake' \in [Wakes -> WakeType] /\ \A w \in Wakes : wake'[w].now <= wall'
  BY <1>0, <1>1, <1>10
<1> QED BY <1>1, <1>2, <1>3, <1>4, <1>5, <1>6, <1>7, <1>8, <1>9, <1>10 DEF Next, Wakes

LEMMA ScanTypeStep ==
  ASSUME TypeOK, [Next]_vars
  PROVE  scan' \in [Scans -> ScanType] /\ \A s \in Scans : scan'[s].now <= wall'
<1>0. /\ wall \in Nat /\ wall <= Horizon /\ pools \in [Boundaries -> Statuses]
      /\ scan \in [Scans -> ScanType] /\ \A s \in Scans : scan[s].now <= wall
  BY DEF TypeOK
<1>1. ASSUME UNCHANGED scan, wall' \in Nat, wall <= wall'
      PROVE  scan' \in [Scans -> ScanType] /\ \A s \in Scans : scan'[s].now <= wall'
  <2>1. \A s \in Scans : scan[s].now \in Nat
    BY <1>0 DEF ScanType
  <2> QED BY <1>0, <1>1, <2>1
<1>2. ASSUME NEW s \in Scans, NEW r \in ScanType, r.now <= wall, scan' = [scan EXCEPT ![s] = r],
             UNCHANGED wall
      PROVE  scan' \in [Scans -> ScanType] /\ \A x \in Scans : scan'[x].now <= wall'
  BY <1>2, ScanMoves
<1>3. NoScan \in ScanType /\ NoScan.now <= wall
  BY <1>0, NothingOpen
<1>4. ASSUME NEW s \in Scans, ScanStep(s) \/ ScanThrows(s)
      PROVE  scan' \in [Scans -> ScanType] /\ \A x \in Scans : scan'[x].now <= wall'
  <2>1. CASE KeeperStart(s)
    <3>1. CASE svc = "booting"
      <4> DEFINE r == [scan[s] EXCEPT !.at = "reconcile"]
      <4>1. scan' = [scan EXCEPT ![s] = r] /\ UNCHANGED wall
        BY <2>1, <3>1 DEF KeeperStart
      <4>2. scan[s] \in ScanType /\ scan[s].now <= wall
        BY <1>0
      <4>3. r \in ScanType /\ r.now <= wall
        BY <4>2 DEF ScanType
      <4> HIDE DEF r
      <4> QED BY <1>2, <4>1, <4>3
    <3>2. CASE svc # "booting"
      BY <1>2, <1>3, <2>1, <3>2 DEF KeeperStart
    <3> QED BY <3>1, <3>2
  <2>2. CASE KeeperReconciled(s)
    <3>1. scan' = [scan EXCEPT ![s] = IF svc = "closed" THEN NoScan ELSE [scan[s] EXCEPT !.at = "now"]]
          /\ UNCHANGED wall
      BY <2>2 DEF KeeperReconciled
    <3>2. [scan[s] EXCEPT !.at = "now"] \in ScanType /\ [scan[s] EXCEPT !.at = "now"].now <= wall
      BY <1>0 DEF ScanType
    <3> QED BY <1>2, <1>3, <3>1, <3>2
  <2>3. CASE ScanList(s)
    <3> PICK tip \in Tips :
          scan' = [scan EXCEPT ![s] = [at |-> "apply", boot |-> scan[s].boot, now |-> tip,
                                       view |-> pools]]
      BY <2>3 DEF ScanList
    <3>1. tip \in Nat /\ tip <= wall /\ UNCHANGED wall
      BY <1>0, <2>3, ConstantTypes DEF Tips, ScanList
    <3>2. [at |-> "apply", boot |-> scan[s].boot, now |-> tip, view |-> pools] \in ScanType
      BY <1>0, <3>1 DEF ScanType
    <3> QED BY <1>2, <3>1, <3>2
  <2>4. CASE ScanApply(s) \/ ScanThrows(s)
    BY <1>2, <1>3, <2>4 DEF ScanApply, ScanThrows
  <2> QED BY <1>4, <2>1, <2>2, <2>3, <2>4 DEF ScanStep
<1>5. ASSUME Sweep \/ Boot
      PROVE  scan' \in [Scans -> ScanType] /\ \A x \in Scans : scan'[x].now <= wall'
  BY <1>5, BeginScanDoes DEF Sweep, Boot
<1>6. ASSUME Resume
      PROVE  scan' \in [Scans -> ScanType] /\ \A x \in Scans : scan'[x].now <= wall'
  BY <1>0, <1>1, <1>6, BeginScanDoes DEF Resume
<1>7. ASSUME Crash
      PROVE  scan' \in [Scans -> ScanType] /\ \A x \in Scans : scan'[x].now <= wall'
  BY <1>0, <1>7, NothingOpen DEF Crash
<1>8. ASSUME Tick PROVE UNCHANGED scan /\ wall' \in Nat /\ wall <= wall'
  BY <1>0, <1>8, Frames DEF Tick
<1>9. ASSUME NEW w, WakeStep(w) \/ WakeThrows(w) PROVE UNCHANGED <<scan, wall>>
  BY <1>9, Frames DEF WakeStep
<1>10. ASSUME \/ \E t : Fire(t)
              \/ WorkerAdvances \/ WindDown \/ Shutdown \/ Close
              \/ \E b : SomeoneElse(b) \/ OutOfBand(b)
       PROVE  UNCHANGED <<scan, wall>>
  BY <1>10, Frames
<1>11. ASSUME UNCHANGED vars PROVE UNCHANGED <<scan, wall>>
  BY <1>11 DEF vars
<1>12. ASSUME UNCHANGED <<scan, wall>>
       PROVE  scan' \in [Scans -> ScanType] /\ \A s \in Scans : scan'[s].now <= wall'
  BY <1>0, <1>1, <1>12
<1> QED
  BY <1>1, <1>4, <1>5, <1>6, <1>7, <1>8, <1>9, <1>10, <1>11, <1>12 DEF Next, Wakes

LEMMA MovesStep ==
  ASSUME TypeOK, [Next]_vars
  PROVE  Moves
<1>0. pools \in [Boundaries -> Statuses] /\ wall \in Nat
  BY DEF TypeOK
<1>1. ASSUME UNCHANGED pools PROVE Moves
  BY <1>0, <1>1 DEF Moves
<1>2. ASSUME NEW b \in Boundaries, ~Live(pools[b]), pools' = [pools EXCEPT ![b] = "OPEN"]
      PROVE  Moves
  <2>1. "OPEN" \in Statuses
    BY DEF Statuses
  <2> QED BY <1>0, <1>2, <2>1 DEF Moves
<1>3. ASSUME NEW b \in Boundaries, SomeoneElse(b) PROVE Moves
  <2> PICK to \in decided(pools[b], b, wall) \ {"CLOSED"} : pools' = [pools EXCEPT ![b] = to]
    BY <1>3 DEF SomeoneElse
  <2>1. Live(pools[b]) /\ pools[b] \in Statuses
    BY <1>0, <1>3 DEF SomeoneElse
  <2>2. to \in Statuses /\ to # "NONE" /\ Rank(pools[b]) <= Rank(to)
    BY <1>0, <2>1, DecidedMoves
  <2> QED BY <1>0, <2>1, <2>2 DEF Moves
<1>4. ASSUME NEW b \in Boundaries, OutOfBand(b) PROVE Moves
  BY <1>2, <1>4 DEF OutOfBand, Live
<1>5. ASSUME NEW w \in Wakes, Transitions(w) PROVE Moves
  BY <1>5, TransitionsDo
<1>6. ASSUME NEW w \in Wakes, List(w) PROVE Moves
  <2>1. wake[w].creates \subseteq Boundaries
    BY DEF TypeOK, WakeType
  <2>2. \/ UNCHANGED pools
        \/ \E b \in wake[w].creates : ~Live(pools[b]) /\ pools' = [pools EXCEPT ![b] = "OPEN"]
    BY <1>6 DEF List, chain
  <2> QED BY <1>1, <1>2, <2>1, <2>2
<1>7. ASSUME NEW s, ScanStep(s) \/ ScanThrows(s) PROVE UNCHANGED pools
  BY <1>7, Frames DEF ScanStep
<1>8. ASSUME NEW w, Rearm(w) \/ Link(w) \/ WakeThrows(w) PROVE UNCHANGED pools
  BY <1>8, Frames
<1>9. ASSUME \/ Sweep \/ WorkerAdvances \/ \E t : Fire(t)
             \/ Boot \/ WindDown \/ Resume \/ Shutdown \/ Close \/ Crash \/ Tick
      PROVE  UNCHANGED pools
  BY <1>9, Frames
<1>10. ASSUME UNCHANGED vars PROVE UNCHANGED pools
  BY <1>10 DEF vars, chain
<1> QED
  BY <1>1, <1>3, <1>4, <1>5, <1>6, <1>7, <1>8, <1>9, <1>10 DEF Next, WakeStep, Wakes

LEMMA WorkerTypeStep ==
  ASSUME TypeOK, [Next]_vars
  PROVE  worker' \in [on : BOOLEAN, due : Nat] /\ pt' \in Nat
<1>0. wall \in Nat /\ worker \in [on : BOOLEAN, due : Nat] /\ pt \in Nat
  BY DEF TypeOK
<1>1. ASSUME WorkerAdvances PROVE worker' \in [on : BOOLEAN, due : Nat] /\ pt' \in Nat
  <2>1. nextDue(wall) \in Nat
    BY <1>0, NextDueType
  <2> QED BY <1>0, <1>1, <2>1 DEF WorkerAdvances
<1>2. ASSUME NEW s, ScanApply(s) PROVE worker' \in [on : BOOLEAN, due : Nat] /\ pt' \in Nat
  <2>1. boundaryAtOrBefore(wall) \in Nat
    BY <1>0, GridAtOrBefore
  <2>2. worker' = [on |-> TRUE, due |-> boundaryAtOrBefore(wall)] \/ UNCHANGED worker
    BY <1>2 DEF ScanApply
  <2>3. UNCHANGED pt
    BY <1>2, Frames
  <2>4. [on |-> TRUE, due |-> boundaryAtOrBefore(wall)] \in [on : BOOLEAN, due : Nat]
    BY <2>1
  <2> QED BY <1>0, <2>2, <2>3, <2>4
<1>3. ASSUME Close \/ Crash PROVE worker' \in [on : BOOLEAN, due : Nat] /\ pt' \in Nat
  <2>1. worker' = [on |-> FALSE, due |-> 0] /\ UNCHANGED pt
    BY <1>3 DEF Close, Crash, WorkerOff
  <2> QED BY <1>0, <2>1
<1>4. ASSUME UNCHANGED <<worker, pt>> PROVE worker' \in [on : BOOLEAN, due : Nat] /\ pt' \in Nat
  BY <1>0, <1>4
<1>5. ASSUME NEW s, KeeperStart(s) \/ KeeperReconciled(s) \/ ScanList(s) \/ ScanThrows(s)
      PROVE  UNCHANGED <<worker, pt>>
  BY <1>5, Frames
<1>6. ASSUME NEW w, WakeStep(w) \/ WakeThrows(w) PROVE UNCHANGED <<worker, pt>>
  BY <1>6, Frames DEF WakeStep
<1>7. ASSUME \/ Sweep \/ \E t : Fire(t) \/ \E b : SomeoneElse(b) \/ OutOfBand(b)
             \/ Boot \/ WindDown \/ Resume \/ Shutdown \/ Tick
      PROVE  UNCHANGED <<worker, pt>>
  BY <1>7, Frames
<1>8. ASSUME UNCHANGED vars PROVE UNCHANGED <<worker, pt>>
  BY <1>8 DEF vars
<1> QED BY <1>1, <1>2, <1>3, <1>4, <1>5, <1>6, <1>7, <1>8 DEF Next, ScanStep, Wakes

LEMMA CountsTypeStep ==
  ASSUME TypeOK, [Next]_vars
  PROVE  /\ faults' \in Nat /\ events' \in Nat /\ Survives
         /\ wall' \in Nat /\ wall <= wall' /\ wall' <= Horizon /\ wall' <= wall + 1
<1>0. wall \in Nat /\ faults \in Nat /\ events \in Nat /\ wall <= Horizon /\ Horizon \in Nat
  BY ConstantTypes DEF TypeOK
<1> DEFINE Counted == faults' \in Nat /\ events' \in Nat /\ Survives
<1>1. ASSUME UNCHANGED outside \/ Event \/ Fault PROVE Counted
  BY <1>0, <1>1 DEF outside, Event, Fault, Outside, Survives
<1>2. ASSUME NEW w, WakeStep(w) \/ WakeThrows(w)
      PROVE  UNCHANGED outside \/ Event \/ Fault
  BY <1>2 DEF WakeStep, Transitions, Rearm, List, Link, WakeThrows
<1>3. ASSUME NEW s, ScanStep(s) \/ ScanThrows(s) PROVE UNCHANGED outside \/ Fault
  BY <1>3 DEF ScanStep, KeeperStart, KeeperReconciled, ScanList, ScanApply, ScanThrows
<1>4. ASSUME Sweep \/ WorkerAdvances \/ Boot \/ WindDown \/ Resume \/ Shutdown
             \/ Close \/ Crash \/ Tick \/ \E t : Fire(t)
      PROVE  UNCHANGED outside \/ Event \/ Fault
  BY <1>4 DEF Sweep, WorkerAdvances, Boot, WindDown, Resume, Shutdown, Close, Crash, Tick, Fire
<1>5. ASSUME NEW b, SomeoneElse(b) \/ OutOfBand(b) PROVE Event \/ Fault
  BY <1>5 DEF SomeoneElse, OutOfBand
<1>6. ASSUME UNCHANGED vars PROVE UNCHANGED outside
  BY <1>6 DEF vars
<1> HIDE DEF Counted
<1>7. Counted
  BY <1>1, <1>2, <1>3, <1>4, <1>5, <1>6 DEF Next
<1>8. ASSUME NEW w, WakeStep(w) \/ WakeThrows(w) PROVE UNCHANGED wall
  BY <1>8, Frames DEF WakeStep
<1>9. ASSUME NEW s, ScanStep(s) \/ ScanThrows(s) PROVE UNCHANGED wall
  BY <1>9, Frames DEF ScanStep
<1>10. ASSUME \/ Sweep \/ WorkerAdvances \/ \E t : Fire(t) \/ \E b : SomeoneElse(b) \/ OutOfBand(b)
              \/ Boot \/ WindDown \/ Resume \/ Shutdown \/ Close \/ Crash
       PROVE  UNCHANGED wall
  BY <1>10, Frames
<1>11. ASSUME UNCHANGED vars PROVE UNCHANGED wall
  BY <1>11 DEF vars
<1>12. Tick \/ UNCHANGED wall
  BY <1>8, <1>9, <1>10, <1>11 DEF Next
<1>13. ASSUME Tick PROVE wall' = wall + 1 /\ wall < Horizon
  BY <1>13 DEF Tick
<1>14. /\ wall' \in Nat /\ wall <= wall' /\ wall' <= Horizon /\ wall' <= wall + 1
  BY <1>0, <1>12, <1>13
<1> QED BY <1>7, <1>14 DEF Counted

LEMMA ServiceTypeStep ==
  ASSUME TypeOK, [Next]_vars
  PROVE  /\ stopped' \in BOOLEAN /\ windingDown' \in BOOLEAN /\ made' \subseteq Boundaries
         /\ svc' \in {"off", "booting", "up", "stopping", "closed"}
<1>0. /\ stopped \in BOOLEAN /\ windingDown \in BOOLEAN /\ made \subseteq Boundaries
      /\ svc \in {"off", "booting", "up", "stopping", "closed"}
  BY DEF TypeOK
<1>1. ASSUME NEW w \in Wakes, List(w) PROVE made' \subseteq Boundaries
  <2>1. wake[w].creates \subseteq Boundaries
    BY DEF TypeOK, WakeType
  <2> QED BY <1>0, <1>1, <2>1 DEF List, chain
<1>2. ASSUME NEW w, WakeStep(w) \/ WakeThrows(w)
      PROVE  UNCHANGED <<stopped, windingDown, svc>> /\ (UNCHANGED made \/ List(w))
  BY <1>2, Frames DEF WakeStep
<1>3. ASSUME NEW s, KeeperReconciled(s) \/ ScanList(s) \/ ScanThrows(s)
      PROVE  UNCHANGED <<stopped, windingDown, svc, made>>
  BY <1>3, Frames
<1>4. ASSUME NEW s, KeeperStart(s)
      PROVE  UNCHANGED <<windingDown, svc, made>> /\ stopped' \in BOOLEAN
  BY <1>0, <1>4, Frames DEF KeeperStart
<1>5. ASSUME NEW s, ScanApply(s)
      PROVE  UNCHANGED <<windingDown, stopped, made>> /\ svc' \in {svc, "up"}
  BY <1>5, Frames DEF ScanApply
<1>6. ASSUME Sweep \/ WorkerAdvances \/ Tick \/ \E t : Fire(t) \/ \E b : SomeoneElse(b) \/ OutOfBand(b)
      PROVE  UNCHANGED <<stopped, windingDown, svc, made>>
  BY <1>6, Frames
<1>7. ASSUME Boot \/ WindDown \/ Resume \/ Shutdown \/ Close \/ Crash
      PROVE  /\ UNCHANGED made /\ stopped' \in BOOLEAN /\ windingDown' \in BOOLEAN
             /\ svc' \in {"off", "booting", "up", "stopping", "closed"}
  <2>1. CASE Boot
    BY <1>0, <2>1, Frames DEF Boot
  <2>2. CASE WindDown
    BY <1>0, <2>2, Frames DEF WindDown
  <2>3. CASE Resume
    BY <1>0, <2>3, Frames DEF Resume
  <2>4. CASE Shutdown
    BY <1>0, <2>4, Frames DEF Shutdown
  <2>5. CASE Close
    BY <1>0, <2>5, Frames DEF Close
  <2>6. CASE Crash
    BY <1>0, <2>6, Frames DEF Crash
  <2> QED BY <1>7, <2>1, <2>2, <2>3, <2>4, <2>5, <2>6
<1>8. ASSUME UNCHANGED vars PROVE UNCHANGED <<stopped, windingDown, svc, made>>
  BY <1>8 DEF vars, service, chain
<1> DEFINE Typed == /\ stopped' \in BOOLEAN /\ windingDown' \in BOOLEAN
                    /\ made' \subseteq Boundaries
                    /\ svc' \in {"off", "booting", "up", "stopping", "closed"}
<1>9. ASSUME UNCHANGED <<stopped, windingDown, svc, made>> PROVE Typed
  BY <1>0, <1>9
<1>10. ASSUME NEW w \in Wakes, WakeStep(w) \/ WakeThrows(w) PROVE Typed
  BY <1>0, <1>1, <1>2, <1>10
<1>11. ASSUME NEW s, ScanStep(s) \/ ScanThrows(s) PROVE Typed
  <2>1. CASE KeeperStart(s)
    BY <1>0, <1>4, <2>1
  <2>2. CASE ScanApply(s)
    BY <1>0, <1>5, <2>2
  <2> QED BY <1>3, <1>9, <1>11, <2>1, <2>2 DEF ScanStep
<1>12. ASSUME Boot \/ WindDown \/ Resume \/ Shutdown \/ Close \/ Crash PROVE Typed
  BY <1>0, <1>7, <1>12
<1> HIDE DEF Typed
<1>13. Typed
  BY <1>6, <1>8, <1>9, <1>10, <1>11, <1>12 DEF Next, Wakes
<1> QED BY <1>13 DEF Typed

LEMMA TypeStep == TypeOK /\ [Next]_vars => TypeOK'
BY WakeTypeStep, ScanTypeStep, MovesStep, WorkerTypeStep, CountsTypeStep, ServiceTypeStep
   DEF TypeOK, Moves

(* Every reachable state of the process is well typed, and no handler      *)
(* looks at a tip or starts at an instant that is still to come.           *)
THEOREM ServiceTypes == Spec => []TypeOK
BY TypeInit, TypeStep, PTL DEF Spec

-----------------------------------------------------------------------------
(* Layer 3: one timer for a pool, one for the lane's next creation. *)

LEMMA TimelineStep ==
  ASSUME TypeOK, IsTimeline(tl), [Next]_vars
  PROVE  IsTimeline(tl)'
<1>1. ASSUME UNCHANGED <<slots, poolIndex, cadenceIndex>> PROVE IsTimeline(tl)'
  BY <1>1 DEF IsTimeline, tl
<1>2. ASSUME NEW t, Fire(t) PROVE IsTimeline(tl)'
  BY <1>2, RungKeeps, BecomeKeeps DEF Fire
<1>3. ASSUME NEW w \in Wakes, WakeStep(w) PROVE IsTimeline(tl)'
  <2>1. CASE Transitions(w)
    <3> DEFINE seen == {b \in wake[w].pools : Live(pools[b])}
    <3>1. Become(removePool(tl, wake[w].pools \ seen))
      BY <2>1, TransitionsDo
    <3>2. wake[w].pools \ seen \in SUBSET Boundaries
      BY DEF TypeOK, WakeType
    <3> HIDE DEF seen
    <3> QED BY <3>1, <3>2, RemoveKeeps, BecomeKeeps
  <2>2. CASE Rearm(w)
    BY <2>2, RearmDoes
  <2>3. CASE List(w)
    <3>1. CASE UNCHANGED timeline
      BY <1>1, <3>1 DEF timeline
    <3>2. CASE \E b \in wake[w].creates : Linked(w, b)
      BY <3>2, LinkedDoes
    <3> QED BY <2>3, <3>1, <3>2 DEF List
  <2>4. CASE Link(w)
    BY <2>4, LinkedDoes DEF Link
  <2> QED BY <1>3, <2>1, <2>2, <2>3, <2>4 DEF WakeStep
<1>4. ASSUME NEW s \in Scans, ScanApply(s) PROVE IsTimeline(tl)'
  BY <1>4, ScanApplyDoes
<1>5. ASSUME Shutdown \/ Crash PROVE IsTimeline(tl)'
  BY <1>5, EmptyIsTimeline, BecomeKeeps DEF Shutdown, Crash
<1>6. ASSUME NEW s, KeeperStart(s) \/ KeeperReconciled(s) \/ ScanList(s) \/ ScanThrows(s)
      PROVE  UNCHANGED <<slots, poolIndex, cadenceIndex>>
  BY <1>6, Frames
<1>7. ASSUME \/ \E w : WakeThrows(w) \/ Sweep \/ WorkerAdvances \/ \E b : SomeoneElse(b) \/ OutOfBand(b)
             \/ Boot \/ WindDown \/ Resume \/ Close \/ Tick
      PROVE  UNCHANGED <<slots, poolIndex, cadenceIndex>>
  BY <1>7, Frames
<1>8. ASSUME UNCHANGED vars PROVE UNCHANGED <<slots, poolIndex, cadenceIndex>>
  BY <1>8 DEF vars, timeline
<1> QED
  BY <1>1, <1>2, <1>3, <1>4, <1>5, <1>6, <1>7, <1>8 DEF Next, ScanStep, Wakes

(***************************************************************************)
(* Whatever handlers interleave, a pool and the lane's next creation have  *)
(* at most one timer each, and the index knows where (keeperCore.ts        *)
(* 182-250).                                                               *)
(***************************************************************************)
THEOREM TimersAreUnique == Spec => []OneTimer
<1>1. Init => IsTimeline(tl)
  <2>1. Init => tl = Empty
    BY DEF Init, tl, Empty
  <2> QED BY <2>1, EmptyIsTimeline
<1>2. IsTimeline(tl) => OneTimer
  BY DEF IsTimeline, tl, OneTimer
<1> QED BY <1>1, <1>2, TypeInit, TypeStep, TimelineStep, PTL DEF Spec

\* What a wake has in hand comes from one slot, and shrinks.
LEMMA HandsStep ==
  ASSUME TypeOK, HandsInv, [Next]_vars
  PROVE  HandsInv'
<1>0. IsTimeline(tl) /\ \A w \in Wakes : InHand(wake[w])
  BY DEF HandsInv
<1>1. IsTimeline(tl)'
  BY <1>0, TimelineStep
<1>2. ASSUME \A w \in Wakes : wake'[w] = wake[w] \/ InHand(wake'[w]) PROVE HandsInv'
  BY <1>0, <1>1, <1>2 DEF HandsInv
<1>3. InHand(Idle)
  BY NothingOpen DEF InHand
<1>4. ASSUME NEW t, Fire(t) PROVE HandsInv'
  <2> PICK w \in Wakes : wake' = IF stopped THEN wake ELSE [wake EXCEPT ![w] = Woken(t)]
    BY <1>4 DEF Fire, Wakes
  <2>1. InHand(Woken(t))
    <3> SUFFICES ASSUME NEW b \in Boundaries, NEW c \in Boundaries,
                        <<t, CreateEntry(b)>> \in slots, <<t, CreateEntry(c)>> \in slots
                 PROVE  b = c
      BY DEF Woken, InHand
    <3>1. <<t, CreateEntry(b)>>[2] \in Creations /\ <<t, CreateEntry(c)>>[2] \in Creations
      BY EntryFacts
    <3>2. <<t, CreateEntry(b)>> = <<t, CreateEntry(c)>>
      BY <1>0, <3>1 DEF IsTimeline, tl
    <3> QED BY <3>2, EntryFacts
  <2>2. \A v \in Wakes : wake'[v] = wake[v] \/ wake'[v] = Woken(t)
    BY DEF TypeOK
  <2> QED BY <1>2, <2>1, <2>2
<1>5. ASSUME NEW w \in Wakes, WakeStep(w) PROVE HandsInv'
  <2>0. wake \in [Wakes -> WakeType] /\ wake[w].creates \in SUBSET Boundaries
    BY DEF TypeOK, WakeType
  <2>1. CASE Transitions(w)
    <3> PICK now \in Nat :
          wake' = [wake EXCEPT ![w] = [at |-> "post", now |-> now,
                                       pools |-> {b \in wake[w].pools : Live(pools[b])},
                                       creates |-> wake[w].creates]]
      BY <2>1, TransitionsDo
    <3>1. \A v \in Wakes :
            wake'[v] = wake[v] \/ (wake'[v].at = "post" /\ wake'[v].creates = wake[w].creates)
      BY <2>0
    <3>2. \A v \in Wakes : wake'[v] = wake[v] \/ InHand(wake'[v])
      BY <1>0, <3>1 DEF InHand
    <3> QED BY <1>2, <3>2
  <2>2. ASSUME NEW creates \in SUBSET wake[w].creates, Creates(w, creates) PROVE HandsInv'
    <3>1. creates \in SUBSET Boundaries
      BY <2>0
    <3>2. /\ \A v \in Wakes : v # w => wake'[v] = wake[v]
          /\ \/ wake'[w] = Idle
             \/ wake'[w] = [at |-> "list", now |-> wake[w].now, pools |-> {}, creates |-> creates]
      BY <2>2, <3>1, CreatesDoes
    <3>3. InHand(wake'[w])
      BY <1>0, <1>3, <3>2 DEF InHand
    <3> QED BY <1>2, <3>2, <3>3
  <2>3. ASSUME wake[w].at = "list", wake' = [wake EXCEPT ![w].at = "link"] PROVE HandsInv'
    <3>1. \A v \in Wakes :
            \/ wake'[v] = wake[v]
            \/ wake'[v].creates = wake[w].creates /\ wake'[v].pools = wake[w].pools
      BY <2>0, <2>3 DEF WakeType
    <3>2. \A v \in Wakes : wake'[v] = wake[v] \/ InHand(wake'[v])
      BY <1>0, <2>3, <3>1 DEF InHand
    <3> QED BY <1>2, <3>2
  <2>4. \A b : wake[w].creates \ {b} \in SUBSET wake[w].creates
    OBVIOUS
  <2> QED BY <1>5, <2>1, <2>2, <2>3, <2>4 DEF WakeStep, Rearm, List, Link, Linked
<1>6. ASSUME NEW w \in Wakes, WakeThrows(w) PROVE HandsInv'
  BY <1>2, <1>3, <1>6 DEF WakeThrows, TypeOK
<1>7. ASSUME Crash PROVE HandsInv'
  <2>1. \A w \in Wakes : wake'[w] = Idle
    BY <1>7 DEF Crash, Wakes
  <2> QED BY <1>2, <1>3, <2>1
<1>8. ASSUME UNCHANGED wake PROVE HandsInv'
  BY <1>2, <1>8
<1>9. ASSUME NEW s, ScanStep(s) \/ ScanThrows(s) PROVE UNCHANGED wake
  BY <1>9, Frames DEF ScanStep
<1>10. ASSUME \/ Sweep \/ WorkerAdvances \/ \E b : SomeoneElse(b) \/ OutOfBand(b)
              \/ Boot \/ WindDown \/ Resume \/ Shutdown \/ Close \/ Tick
       PROVE  UNCHANGED wake
  BY <1>10, Frames
<1>11. ASSUME UNCHANGED vars PROVE UNCHANGED wake
  BY <1>11 DEF vars
<1> QED
  BY <1>4, <1>5, <1>6, <1>7, <1>8, <1>9, <1>10, <1>11 DEF Next, Wakes

-----------------------------------------------------------------------------
(* Layer 4: what has stopped stays quiet. *)

LEMMA QuietStep ==
  ASSUME TypeOK, QuietInv, [Next]_vars
  PROVE  QuietInv'
<1>0. wake \in [Wakes -> WakeType] /\ scan \in [Scans -> ScanType] /\ stopped \in BOOLEAN
      /\ svc \in {"off", "booting", "up", "stopping", "closed"}
  BY DEF TypeOK
<1>00. Idle.at = "idle" /\ NoScan.at = "idle" /\ NoScan.boot = FALSE
  BY NothingOpen, <1>0 DEF Idle, NoScan
\* A handler that goes on, of a process that is not quiet.
<1>1. ASSUME NEW w \in Wakes, wake[w].at # "idle",
             \A v \in Wakes : v # w => wake'[v] = wake[v],
             wake'[w].at = "idle" => wake'[w] = Idle,
             UNCHANGED <<svc, stopped, scan>>
      PROVE  QuietInv'
  <2>1. wake[w] # Idle
    BY <1>00, <1>1
  <2>2. ~(svc = "off" \/ (svc = "booting" /\ stopped)) /\ svc # "closed"
    BY <2>1 DEF QuietInv
  <2> QED BY <1>1, <2>2 DEF QuietInv
<1>2. ASSUME NEW t, Fire(t), t \in {s[1] : s \in slots} PROVE QuietInv'
  <2>0. UNCHANGED <<svc, stopped, scan>> /\ slots # {}
    BY <1>2, Frames
  <2>1. ~(svc = "off" \/ (svc = "booting" /\ stopped))
    BY <2>0 DEF QuietInv
  <2>2. PICK w \in Wakes : wake' = IF stopped THEN wake ELSE [wake EXCEPT ![w] = Woken(t)]
    BY <1>2 DEF Fire, Wakes
  <2>3. Woken(t).at = "now"
    BY DEF Woken
  <2>4. CASE stopped
    BY <2>0, <2>1, <2>2, <2>4 DEF QuietInv
  <2>5. CASE ~stopped
    <3>1. svc # "closed"
      BY <2>5 DEF QuietInv
    <3>2. \A v \in Wakes : wake'[v] = wake[v] \/ wake'[v].at = "now"
      BY <1>0, <2>2, <2>3, <2>5
    <3> QED BY <2>0, <2>1, <3>1, <3>2 DEF QuietInv
  <2> QED BY <2>4, <2>5
<1>3. ASSUME NEW w \in Wakes, WakeStep(w) PROVE QuietInv'
  <2>0. UNCHANGED <<svc, stopped, scan>> /\ wake[w].at # "idle"
        /\ wake[w].creates \in SUBSET Boundaries
    BY <1>0, <1>3, Frames DEF WakeStep, Transitions, Rearm, List, Link, WakeType
  <2>1. CASE Transitions(w)
    <3> PICK now \in Nat :
          wake' = [wake EXCEPT ![w] = [at |-> "post", now |-> now,
                                       pools |-> {b \in wake[w].pools : Live(pools[b])},
                                       creates |-> wake[w].creates]]
      BY <2>1, TransitionsDo
    <3>1. wake'[w].at = "post" /\ \A v \in Wakes : v # w => wake'[v] = wake[v]
      BY <1>0
    <3> QED BY <1>1, <2>0, <3>1
  <2>2. ASSUME NEW creates \in SUBSET Boundaries, Creates(w, creates) PROVE QuietInv'
    <3>1. /\ \A v \in Wakes : v # w => wake'[v] = wake[v]
          /\ \/ wake'[w] = Idle
             \/ wake'[w] = [at |-> "list", now |-> wake[w].now, pools |-> {}, creates |-> creates]
      BY <2>2, CreatesDoes
    <3>2. wake'[w].at = "idle" => wake'[w] = Idle
      BY <3>1
    <3> QED BY <1>1, <2>0, <3>1, <3>2
  <2>3. ASSUME wake' = [wake EXCEPT ![w].at = "link"] PROVE QuietInv'
    <3>1. wake'[w].at = "link" /\ \A v \in Wakes : v # w => wake'[v] = wake[v]
      BY <1>0, <2>3 DEF WakeType
    <3> QED BY <1>1, <2>0, <3>1
  <2>4. \A b : wake[w].creates \ {b} \in SUBSET Boundaries
    BY <2>0
  <2> QED BY <1>3, <2>0, <2>1, <2>2, <2>3, <2>4 DEF WakeStep, Rearm, List, Link, Linked
<1>4. ASSUME NEW w \in Wakes, WakeThrows(w) PROVE QuietInv'
  <2>1. /\ UNCHANGED <<svc, stopped, scan>> /\ wake[w].at # "idle"
        /\ wake' = [wake EXCEPT ![w] = Idle]
    BY <1>4, Frames DEF WakeThrows, QuietInv
  <2> QED BY <1>0, <1>1, <2>1
\* A scan that goes on; one that is not start()'s own has ended before the close.
<1>5. ASSUME NEW s \in Scans, scan[s].at \in {"now", "apply"},
             \A r \in Scans : r # s => scan'[r] = scan[r],
             \/ scan'[s] = NoScan
             \/ scan'[s].at = "apply" /\ scan'[s].boot = scan[s].boot,
             UNCHANGED <<stopped, wake>>,
             svc' = svc \/ (svc = "booting" /\ svc' = "up")
      PROVE  QuietInv'
  <2>1. ~(svc = "off" \/ (svc = "booting" /\ stopped))
    BY <1>5 DEF QuietInv
  <2>2. svc = "closed" => scan[s].boot
    BY <1>00, <1>5 DEF QuietInv
  <2>3. svc' = "up" => ~stopped
    BY <1>5, <2>1 DEF QuietInv
  <2> QED BY <1>0, <1>00, <1>5, <2>1, <2>2, <2>3 DEF QuietInv
<1>6. ASSUME NEW s \in Scans, ScanList(s) PROVE QuietInv'
  <2> PICK tip : scan' = [scan EXCEPT ![s] = [at |-> "apply", boot |-> scan[s].boot, now |-> tip,
                                              view |-> pools]]
    BY <1>6 DEF ScanList
  <2>1. UNCHANGED <<stopped, wake, svc>> /\ scan[s].at = "now"
    BY <1>6, Frames DEF ScanList
  <2> QED BY <1>0, <1>5, <2>1
<1>7. ASSUME NEW s \in Scans, ScanApply(s) PROVE QuietInv'
  <2>1. /\ scan[s].at = "apply" /\ scan' = [scan EXCEPT ![s] = NoScan] /\ UNCHANGED <<stopped, wake>>
        /\ svc' = svc \/ (svc = "booting" /\ svc' = "up")
    BY <1>7, Frames DEF ScanApply
  <2> QED BY <1>0, <1>5, <2>1
<1>8. ASSUME NEW s \in Scans, ScanThrows(s) PROVE QuietInv'
  <2>1. /\ scan[s] # NoScan /\ ~scan[s].boot /\ scan' = [scan EXCEPT ![s] = NoScan]
        /\ UNCHANGED <<stopped, wake, svc>>
    BY <1>8, Frames DEF ScanThrows
  <2>2. scan[s].at \in {"now", "apply"}
    BY <1>0, <2>1 DEF QuietInv, ScanType
  <2> QED BY <1>0, <1>5, <2>1, <2>2
<1>9. ASSUME NEW s \in Scans, KeeperStart(s) PROVE QuietInv'
  <2>0. UNCHANGED <<wake, svc>> /\ scan[s].at = "boot" /\ scan[s].boot
    BY <1>9, Frames DEF KeeperStart, QuietInv
  <2>1. CASE svc = "booting"
    <3>1. stopped' = FALSE /\ scan' = [scan EXCEPT ![s].at = "reconcile"]
      BY <1>9, <2>1 DEF KeeperStart
    <3>2. /\ scan'[s].at = "reconcile" /\ scan'[s].boot
          /\ \A r \in Scans : r # s => scan'[r] = scan[r]
      BY <1>0, <2>0, <3>1 DEF ScanType
    <3> QED BY <2>0, <2>1, <3>1, <3>2 DEF QuietInv
  <2>2. CASE svc # "booting"
    <3>1. UNCHANGED stopped /\ scan' = [scan EXCEPT ![s] = NoScan]
      BY <1>9, <2>2 DEF KeeperStart
    <3>2. scan'[s] = NoScan /\ \A r \in Scans : r # s => scan'[r] = scan[r]
      BY <1>0, <3>1
    <3>3. UNCHANGED slots
      BY <1>9, Frames
    <3> QED BY <1>00, <2>0, <2>2, <3>1, <3>2, <3>3 DEF QuietInv
  <2> QED BY <2>1, <2>2
<1>10. ASSUME NEW s \in Scans, KeeperReconciled(s) PROVE QuietInv'
  <2>0. UNCHANGED <<wake, svc, stopped>> /\ scan[s].at = "reconcile" /\ scan[s].boot
    BY <1>10, Frames DEF KeeperReconciled, QuietInv
  <2>1. ~(svc = "off" \/ (svc = "booting" /\ stopped))
    BY <2>0 DEF QuietInv
  <2>2. /\ \A r \in Scans : r # s => scan'[r] = scan[r]
        /\ \/ scan'[s] = NoScan
           \/ scan'[s].at = "now" /\ scan'[s].boot
    <3>1. scan' = [scan EXCEPT ![s] = IF svc = "closed" THEN NoScan ELSE [scan[s] EXCEPT !.at = "now"]]
      BY <1>10 DEF KeeperReconciled
    <3>2. [scan[s] EXCEPT !.at = "now"].at = "now" /\ [scan[s] EXCEPT !.at = "now"].boot
      BY <1>0, <2>0 DEF ScanType
    <3> QED BY <1>0, <3>1, <3>2
  <2> QED BY <1>00, <2>0, <2>1, <2>2 DEF QuietInv
\* A scan that begins.
<1>11. ASSUME NEW at \in {"boot", "now"}, NEW boot \in BOOLEAN, BeginScan(at, boot),
              UNCHANGED <<stopped, wake, slots>>,
              \/ at = "now" /\ ~stopped /\ UNCHANGED svc
              \/ at = "boot" /\ boot /\ svc = "off" /\ svc' = "booting"
       PROVE  QuietInv'
  <2> PICK s \in Scans :
        /\ scan[s] = NoScan
        /\ scan'[s] = [at |-> at, boot |-> boot, now |-> wall, view |-> NoScan.view]
        /\ \A r \in Scans : r # s => scan'[r] = scan[r]
    BY <1>11, BeginScanDoes
  <2>1. scan'[s].at = at /\ scan'[s].boot = boot
    OBVIOUS
  <2>2. CASE at = "now" /\ ~stopped /\ UNCHANGED svc
    <3>1. svc \in {"booting", "up"}
      BY <1>0, <2>2 DEF QuietInv
    <3> QED BY <1>11, <2>1, <2>2, <3>1 DEF QuietInv
  <2>3. CASE at = "boot" /\ boot /\ svc = "off" /\ svc' = "booting"
    BY <1>11, <2>1, <2>3 DEF QuietInv
  <2> QED BY <1>11, <2>2, <2>3
<1>12. ASSUME Sweep PROVE QuietInv'
  BY <1>11, <1>12, Frames DEF Sweep
<1>13. ASSUME Boot PROVE QuietInv'
  BY <1>11, <1>13, Frames DEF Boot
<1>14. ASSUME UNCHANGED <<stopped, wake, slots, svc, scan>> PROVE QuietInv'
  BY <1>14 DEF QuietInv
<1>15. ASSUME Resume PROVE QuietInv'
  <2>1. UNCHANGED <<stopped, wake, slots, svc>> /\ (IF stopped THEN UNCHANGED scan ELSE BeginScan("now", FALSE))
    BY <1>15, Frames DEF Resume
  <2> QED BY <1>11, <1>14, <2>1
<1>16. ASSUME Shutdown PROVE QuietInv'
  <2>1. UNCHANGED <<wake, scan>> /\ svc' = "stopping" /\ stopped' = TRUE
    BY <1>16, Frames DEF Shutdown
  <2> QED BY <2>1 DEF QuietInv
<1>17. ASSUME Close PROVE QuietInv'
  <2>1. /\ UNCHANGED <<wake, scan, stopped, slots>> /\ svc = "stopping" /\ svc' = "closed"
        /\ \A w \in Wakes : wake[w] = Idle
        /\ \A s \in Scans : scan[s] = NoScan \/ scan[s].boot
    BY <1>17, Frames DEF Close, IdleWakes, Sweeping, Wakes
  <2> QED BY <2>1 DEF QuietInv
<1>18. ASSUME Crash PROVE QuietInv'
  <2>1. /\ svc' = "off" /\ stopped' = TRUE /\ slots' = {}
        /\ \A w \in Wakes : wake'[w] = Idle
        /\ \A s \in Scans : scan'[s] = NoScan
    BY <1>18 DEF Crash, Become, Empty, Wakes
  <2> QED BY <1>00, <2>1 DEF QuietInv
<1>19. ASSUME WindDown \/ WorkerAdvances \/ Tick \/ \E b : SomeoneElse(b) \/ OutOfBand(b)
       PROVE  UNCHANGED <<stopped, wake, slots, svc, scan>>
  BY <1>19, Frames
<1>20. ASSUME UNCHANGED vars PROVE UNCHANGED <<stopped, wake, slots, svc, scan>>
  BY <1>20 DEF vars, service, timeline
<1> QED
  BY <1>2, <1>3, <1>4, <1>6, <1>7, <1>8, <1>9, <1>10, <1>12, <1>13, <1>14, <1>15, <1>16, <1>17,
     <1>18, <1>19, <1>20 DEF Next, ScanStep, Wakes

LEMMA QuietInit == Init => QuietInv
<1> SUFFICES ASSUME Init PROVE QuietInv OBVIOUS
<1>1. /\ svc = "off" /\ stopped = TRUE /\ slots = {}
      /\ \A w \in Wakes : wake[w] = Idle
      /\ \A s \in Scans : scan[s] = NoScan
  BY DEF Init, Wakes, Empty
<1> QED BY <1>1, NothingOpen DEF QuietInv

(***************************************************************************)
(* Once stop() has closed the database no wake and no sweep is under way,  *)
(* also when it came in the middle of start() or of a resume (keeper.ts    *)
(* 89-99, service.ts 293-301).                                             *)
(***************************************************************************)
THEOREM ClosedIsQuiet == Spec => []QuietAfterClose
<1>1. QuietInv => QuietAfterClose
  BY DEF QuietInv, QuietAfterClose, IdleWakes, Sweeping, Wakes
<1> QED BY <1>1, TypeInit, TypeStep, QuietInit, QuietStep, PTL DEF Spec

-----------------------------------------------------------------------------
(* Layer 5: nothing is lost as long as nothing throws, whatever fails. *)

Running == faults = 0 /\ svc \in {"off", "booting", "up"}
Covered(b) == poolIndex[b] # None \/ \E w \in Wakes : Held(w, b)

LEMMA RunningBefore ==
  ASSUME TypeOK, [Next]_vars, Running'
  PROVE  Running
<1>0. faults \in Nat /\ Survives /\ faults' = 0
  BY CountsTypeStep DEF TypeOK, Running
<1>1. faults = 0
  BY <1>0 DEF Survives
<1>2. ~Crash
  BY <1>0, <1>1 DEF Crash, Fault
<1>3. ASSUME NEW s, ScanStep(s) \/ ScanThrows(s) PROVE svc' = svc \/ svc = "booting"
  BY <1>3, Frames DEF ScanStep, ScanApply
<1>4. ASSUME NEW w, WakeStep(w) \/ WakeThrows(w) PROVE svc' = svc
  BY <1>4, Frames DEF WakeStep
<1>5. ASSUME \/ Sweep \/ WorkerAdvances \/ WindDown \/ Resume \/ Tick
             \/ \E t : Fire(t) \/ \E b : SomeoneElse(b) \/ OutOfBand(b)
      PROVE  svc' = svc
  BY <1>5, Frames
<1>6. ASSUME Boot PROVE svc = "off"
  BY <1>6 DEF Boot
<1>7. ASSUME Shutdown \/ Close PROVE FALSE
  BY <1>7 DEF Shutdown, Close, Running
<1>8. ASSUME UNCHANGED vars PROVE svc' = svc
  BY <1>8 DEF vars, service
<1>9. svc' = svc \/ svc \in {"off", "booting"}
  BY <1>2, <1>3, <1>4, <1>5, <1>6, <1>7, <1>8 DEF Next
<1> QED BY <1>1, <1>9 DEF Running

\* The wakes but w, and what they hold, are as before.
LEMMA OthersHold ==
  ASSUME NEW w \in Wakes, \A v \in Wakes : v # w => wake'[v] = wake[v], NEW b, NEW v \in Wakes,
         Held(v, b), v # w
  PROVE  Held(v, b)'
BY DEF Held

LEMMA FireHolds ==
  ASSUME TypeOK, HandsInv, QuietInv, Running, NEW t, Fire(t), t \in {s[1] : s \in slots},
         NEW b \in Boundaries, Covered(b)
  PROVE  Covered(b)'
<1>1. ~stopped
  <2>1. slots # {}
    OBVIOUS
  <2> QED BY <2>1 DEF QuietInv, Running
<1> PICK w \in Wakes : FirstIdle(w) /\ wake' = [wake EXCEPT ![w] = Woken(t)]
  BY <1>1 DEF Fire, Wakes
<1>2. wake'[w] = Woken(t) /\ \A v \in Wakes : v # w => wake'[v] = wake[v]
  BY DEF TypeOK
<1>3. ~Held(w, b)
  BY NothingOpen DEF Held, FirstIdle, IdleWakes
<1>4. CASE \E v \in Wakes : Held(v, b)
  BY <1>2, <1>3, <1>4, OthersHold DEF Covered
<1>5. CASE poolIndex[b] # None
  <2>1. poolIndex' = [c \in Boundaries |-> IF <<t, PoolEntry(c)>> \in slots THEN None ELSE poolIndex[c]]
    BY DEF Fire, Become, Rung, Unindexed, tl
  <2>2. CASE <<t, PoolEntry(b)>> \in slots
    <3>1. b \in Woken(t).pools
      BY <2>2 DEF Woken
    <3>2. Held(w, b)'
      BY <1>2, <3>1 DEF Held
    <3> QED BY <3>2 DEF Covered
  <2> QED BY <1>5, <2>1, <2>2 DEF Covered
<1> QED BY <1>4, <1>5 DEF Covered

LEMMA WakeHolds ==
  ASSUME TypeOK, HandsInv, HeldInv, Running, NEW w \in Wakes, WakeStep(w),
         NEW b \in Boundaries, Live(pools'[b])
  PROVE  Covered(b)'
<1>0. /\ wake \in [Wakes -> WakeType] /\ IsTimeline(tl) /\ InHand(wake[w])
      /\ wake[w].creates \in SUBSET Boundaries
  BY DEF TypeOK, HandsInv, WakeType
<1>1. Live(pools[b]) => Covered(b)
  BY DEF HeldInv, Running, Covered
<1>2. CASE Transitions(w)
  <2> DEFINE seen == {c \in wake[w].pools : Live(pools[c])}
  <2> PICK now \in Nat :
        /\ \A c \in Boundaries \ seen : pools'[c] = pools[c]
        /\ Become(removePool(tl, wake[w].pools \ seen))
        /\ wake' = [wake EXCEPT ![w] = [at |-> "post", now |-> now, pools |-> seen,
                                        creates |-> wake[w].creates]]
    BY <1>2, TransitionsDo
  <2>1. wake'[w].pools = seen /\ \A v \in Wakes : v # w => wake'[v] = wake[v]
    BY <1>0
  <2>2. poolIndex' = [c \in Boundaries |->
                        IF c \in wake[w].pools \ seen THEN None ELSE poolIndex[c]]
    BY DEF Become, removePool, Unindexed, tl
  <2>3. CASE b \in seen
    BY <2>1, <2>3 DEF Covered, Held
  <2>4. CASE b \notin seen
    <3>1. Live(pools[b]) /\ b \notin wake[w].pools
      BY <2>4
    <3>2. ~Held(w, b)
      BY <1>2, <3>1 DEF Held, Transitions
    <3>3. CASE \E v \in Wakes : Held(v, b)
      BY <2>1, <3>2, <3>3, OthersHold DEF Covered
    <3>4. CASE poolIndex[b] # None
      BY <2>2, <3>1, <3>4 DEF Covered
    <3> QED BY <1>1, <3>1, <3>3, <3>4 DEF Covered
  <2> QED BY <2>3, <2>4
\* A wake that arms what it holds lets go of it.
<1>3. ASSUME NEW view, Retimed(view), UNCHANGED pools,
             NEW creates \in SUBSET Boundaries, Creates(w, creates),
             Held(w, b) => b \in DOMAIN view,
             b \in DOMAIN view => view[b] = pools[b]
      PROVE  Covered(b)'
  <2>1. \A v \in Wakes : v # w => wake'[v] = wake[v]
    BY <1>3, CreatesDoes
  <2>2. Live(pools[b])
    BY <1>3
  <2>3. CASE b \in DOMAIN view
    BY <1>3, <2>2, <2>3 DEF Retimed, Covered
  <2>4. CASE b \notin DOMAIN view
    <3>1. poolIndex'[b] = poolIndex[b] /\ ~Held(w, b)
      BY <1>3, <2>4 DEF Retimed
    <3>2. CASE \E v \in Wakes : Held(v, b)
      BY <2>1, <3>1, <3>2, OthersHold DEF Covered
    <3>3. CASE poolIndex[b] # None
      BY <3>1, <3>3 DEF Covered
    <3> QED BY <1>1, <2>2, <3>2, <3>3 DEF Covered
  <2> QED BY <2>3, <2>4
<1>4. CASE Rearm(w)
  <2> DEFINE view == [c \in wake[w].pools |-> pools[c]]
  <2>1. Retimed(view) /\ UNCHANGED pools /\ Creates(w, wake[w].creates) /\ wake[w].at = "post"
    BY <1>0, <1>4, RearmDoes, Frames DEF Rearm
  <2>2. Held(w, b) => b \in DOMAIN view
    BY <2>1 DEF Held
  <2>3. b \in DOMAIN view => view[b] = pools[b]
    OBVIOUS
  <2> HIDE DEF view
  <2> QED BY <1>0, <1>3, <2>1, <2>2, <2>3
<1>5. ASSUME NEW c \in wake[w].creates, Linked(w, c), UNCHANGED pools,
             wake[w].at \in {"list", "link"}
      PROVE  Covered(b)'
  <2> DEFINE view == [x \in {d \in {c} : Live(pools[d])} |-> pools[x]]
  <2>1. Retimed(view)
    BY <1>0, <1>5, LinkedDoes
  <2>2. Creates(w, wake[w].creates \ {c}) /\ wake[w].creates \ {c} \in SUBSET Boundaries
    BY <1>0, <1>5 DEF Linked
  <2>3. Held(w, b) => b = c
    BY <1>0, <1>5 DEF Held, InHand
  <2>4. Live(pools[b])
    BY <1>5
  <2>5. /\ Held(w, b) => b \in DOMAIN view
        /\ b \in DOMAIN view => view[b] = pools[b]
    BY <2>3, <2>4
  <2> HIDE DEF view
  <2> QED BY <1>3, <1>5, <2>1, <2>2, <2>5
<1>6. CASE List(w)
  <2>1. wake[w].at = "list"
    BY <1>6 DEF List
  <2>2. CASE \E c \in wake[w].creates : Linked(w, c) /\ UNCHANGED chain
    BY <1>5, <2>1, <2>2 DEF chain
  <2>3. CASE ~\E c \in wake[w].creates : Linked(w, c) /\ UNCHANGED chain
    <3> PICK c \in wake[w].creates :
          /\ UNCHANGED pools \/ pools' = [pools EXCEPT ![c] = "OPEN"]
          /\ wake' = [wake EXCEPT ![w].at = "link"]
          /\ UNCHANGED timeline
      BY <1>6, <2>3 DEF List, chain
    <3>1. /\ wake'[w].at = "link" /\ wake'[w].creates = wake[w].creates
          /\ wake'[w].pools = wake[w].pools
          /\ \A v \in Wakes : v # w => wake'[v] = wake[v]
          /\ UNCHANGED poolIndex
      BY <1>0 DEF WakeType, timeline
    <3>2. CASE b = c
      BY <3>1, <3>2 DEF Covered, Held
    <3>3. CASE b # c
      <4>1. Live(pools[b])
        BY <3>3 DEF TypeOK
      <4>2. \A v \in Wakes : Held(v, b) => Held(v, b)'
        BY <2>1, <3>1 DEF Held
      <4> QED BY <1>1, <3>1, <4>1, <4>2 DEF Covered
    <3> QED BY <3>2, <3>3
  <2> QED BY <2>2, <2>3
<1>7. CASE Link(w)
  BY <1>5, <1>7, Frames DEF Link
<1> QED BY <1>2, <1>4, <1>6, <1>7 DEF WakeStep

LEMMA HeldStep ==
  ASSUME TypeOK, HandsInv, QuietInv, HeldInv, [Next]_vars
  PROVE  HeldInv'
<1> SUFFICES ASSUME Running', NEW b \in Boundaries, Live(pools'[b])
             PROVE  Covered(b)'
  BY DEF HeldInv, Running, Covered
<1>0. Running /\ faults' = 0
  BY RunningBefore DEF Running
<1>1. Live(pools[b]) => Covered(b)
  BY <1>0 DEF HeldInv, Running, Covered
<1>2. ASSUME UNCHANGED pools, poolIndex'[b] = poolIndex[b], UNCHANGED wake PROVE Covered(b)'
  BY <1>1, <1>2 DEF Covered, Held
<1>3. ~Fault
  BY <1>0 DEF Fault, Running
<1>4. ASSUME NEW t, Fire(t), t \in {s[1] : s \in slots} PROVE Covered(b)'
  <2>1. UNCHANGED pools
    BY <1>4, Frames
  <2> QED BY <1>0, <1>1, <1>4, <2>1, FireHolds
<1>5. ASSUME NEW w \in Wakes, WakeStep(w) PROVE Covered(b)'
  BY <1>0, <1>5, WakeHolds
<1>6. ASSUME NEW s \in Scans, ScanApply(s) PROVE Covered(b)'
  <2> DEFINE view == [c \in {x \in Boundaries : Live(scan[s].view[x])} |-> scan[s].view[c]]
  <2>1. Retimed(view)
    BY <1>6, ScanApplyDoes DEF HandsInv
  <2>2. UNCHANGED <<pools, wake>>
    BY <1>6, Frames
  <2>3. CASE b \in DOMAIN view
    <3>1. Live(view[b])
      BY <2>3
    <3> QED BY <2>1, <2>3, <3>1 DEF Retimed, Covered
  <2>4. CASE b \notin DOMAIN view
    <3>1. poolIndex'[b] = poolIndex[b]
      BY <2>1, <2>4 DEF Retimed
    <3> QED BY <1>2, <2>2, <3>1
  <2> QED BY <2>3, <2>4
<1>7. ASSUME NEW c, SomeoneElse(c) PROVE Covered(b)'
  <2>1. UNCHANGED <<poolIndex, wake>>
    BY <1>7, Frames
  <2>2. Live(pools[b])
    BY <1>7 DEF SomeoneElse
  <2> QED BY <1>1, <2>1, <2>2 DEF Covered, Held
<1>8. ASSUME \/ \E w : WakeThrows(w) \/ \E s : ScanThrows(s) \/ Crash \/ \E c : OutOfBand(c)
             \/ Shutdown \/ Close
      PROVE  FALSE
  BY <1>3, <1>8 DEF WakeThrows, ScanThrows, Crash, OutOfBand, Shutdown, Close, Running
<1>9. ASSUME NEW s, KeeperStart(s) \/ KeeperReconciled(s) \/ ScanList(s)
      PROVE  UNCHANGED <<pools, poolIndex, wake>>
  BY <1>9, Frames
<1>10. ASSUME Sweep \/ WorkerAdvances \/ Boot \/ WindDown \/ Resume \/ Tick
       PROVE  UNCHANGED <<pools, poolIndex, wake>>
  BY <1>10, Frames
<1>11. ASSUME UNCHANGED vars PROVE UNCHANGED <<pools, poolIndex, wake>>
  BY <1>11 DEF vars, chain, timeline
<1> QED
  BY <1>2, <1>4, <1>5, <1>6, <1>7, <1>8, <1>9, <1>10, <1>11 DEF Next, ScanStep, Wakes

Ahead ==
  \/ windingDown \/ cadenceIndex # None \/ Sweeping
  \/ \E w \in Wakes : wake[w].creates # {}

LEMMA FireAhead ==
  ASSUME TypeOK, HandsInv, ~stopped, Ahead, NEW t, Fire(t), t \in {s[1] : s \in slots}
  PROVE  Ahead'
<1>0. wall \in Nat /\ wall <= Horizon /\ Horizon \in Nat /\ Retry \in Nat
  BY ConstantTypes DEF TypeOK
<1> PICK w \in Wakes : FirstIdle(w) /\ wake' = [wake EXCEPT ![w] = Woken(t)]
  BY DEF Fire, Wakes
<1>1. wake'[w] = Woken(t) /\ \A v \in Wakes : v # w => wake'[v] = wake[v]
  BY DEF TypeOK
<1>2. wake[w].creates = {}
  BY NothingOpen DEF FirstIdle, IdleWakes
<1>3. UNCHANGED <<windingDown, scan>>
  BY Frames
<1>4. CASE windingDown \/ Sweeping
  BY <1>3, <1>4 DEF Ahead, Sweeping
<1>5. CASE \E v \in Wakes : wake[v].creates # {}
  BY <1>1, <1>2, <1>5 DEF Ahead
<1>6. CASE cadenceIndex # None
  <2>1. cadenceIndex' = IF \E e \in Creations : <<t, e>> \in slots THEN None ELSE cadenceIndex
    BY DEF Fire, Become, Rung, tl
  <2>2. CASE \E e \in Creations : <<t, e>> \in slots
    <3> PICK e \in Creations : <<t, e>> \in slots
      BY <2>2
    <3>1. PICK b \in Boundaries \cup {Beyond} : e = CreateEntry(b)
      BY EntryFacts
    <3>2. t = createFireTime(b)
      <4>1. <<t, e>>[2] = CreateEntry(b) /\ <<t, e>>[1] = t
        BY <3>1
      <4> QED BY <4>1 DEF HandsInv, IsTimeline, tl
    <3>3. b # Beyond
      BY <1>0, <3>2 DEF createFireTime, Never, Fire, Ready
    <3>4. b \in Woken(t).creates
      BY <3>1, <3>3 DEF Woken
    <3> QED BY <1>1, <3>4 DEF Ahead
  <2> QED BY <1>6, <2>1, <2>2 DEF Ahead
<1> QED BY <1>4, <1>5, <1>6 DEF Ahead

LEMMA WakeAhead ==
  ASSUME TypeOK, HandsInv, Ahead, NEW w \in Wakes, WakeStep(w)
  PROVE  Ahead'
<1>0. /\ wake \in [Wakes -> WakeType] /\ IsTimeline(tl)
      /\ wake[w].creates \in SUBSET Boundaries
  BY DEF TypeOK, HandsInv, WakeType
<1>1. UNCHANGED <<windingDown, scan>>
  BY Frames DEF WakeStep
<1>2. windingDown \/ Sweeping => Ahead'
  BY <1>1 DEF Ahead, Sweeping
<1>3. ASSUME UNCHANGED cadenceIndex,
             \A v \in Wakes : v # w => wake'[v] = wake[v],
             windingDown \/ wake'[w].creates = wake[w].creates
      PROVE  Ahead'
  BY <1>2, <1>3 DEF Ahead
<1>4. CASE Transitions(w)
  <2> PICK now \in Nat :
        /\ Become(removePool(tl, wake[w].pools \ {c \in wake[w].pools : Live(pools[c])}))
        /\ wake' = [wake EXCEPT ![w] = [at |-> "post", now |-> now,
                                        pools |-> {c \in wake[w].pools : Live(pools[c])},
                                        creates |-> wake[w].creates]]
    BY <1>4, TransitionsDo
  <2>1. /\ wake'[w].creates = wake[w].creates
        /\ \A v \in Wakes : v # w => wake'[v] = wake[v]
    BY <1>0
  <2>2. UNCHANGED cadenceIndex
    BY DEF Become, removePool, tl
  <2> QED BY <1>3, <2>1, <2>2
<1>5. CASE Rearm(w)
  <2>1. Creates(w, wake[w].creates) /\ UNCHANGED cadenceIndex
    BY <1>0, <1>5, RearmDoes DEF Rearm
  <2>2. /\ \A v \in Wakes : v # w => wake'[v] = wake[v]
        /\ \/ wake'[w] = Idle /\ (wake[w].creates = {} \/ windingDown)
           \/ wake'[w] = [at |-> "list", now |-> wake[w].now, pools |-> {},
                          creates |-> wake[w].creates]
    BY <1>0, <2>1, CreatesDoes
  <2>3. windingDown \/ wake'[w].creates = wake[w].creates
    BY <2>2, NothingOpen
  <2> QED BY <1>3, <2>1, <2>2, <2>3
<1>6. ASSUME NEW c \in wake[w].creates, Linked(w, c) PROVE Ahead'
  BY <1>0, <1>6, LinkedDoes DEF Ahead
<1>7. CASE List(w)
  <2>1. CASE \E c \in wake[w].creates : Linked(w, c)
    BY <1>6, <2>1
  <2>2. CASE wake' = [wake EXCEPT ![w].at = "link"] /\ UNCHANGED timeline
    <3>1. /\ wake'[w].creates = wake[w].creates
          /\ \A v \in Wakes : v # w => wake'[v] = wake[v]
          /\ UNCHANGED cadenceIndex
      BY <1>0, <2>2 DEF WakeType, timeline
    <3> QED BY <1>3, <3>1
  <2> QED BY <1>7, <2>1, <2>2 DEF List
<1>8. CASE Link(w)
  BY <1>6, <1>8 DEF Link
<1> QED BY <1>4, <1>5, <1>7, <1>8 DEF WakeStep

LEMMA ScanAhead ==
  ASSUME TypeOK, HandsInv, QuietInv, Ahead, NEW s \in Scans, ScanStep(s)
  PROVE  Ahead'
<1>0. scan \in [Scans -> ScanType]
  BY DEF TypeOK
<1>1. CASE ScanApply(s)
  <2>1. windingDown \/ cadenceIndex' # None
    BY <1>1, ScanApplyDoes DEF HandsInv
  <2>2. UNCHANGED windingDown
    BY <1>1, Frames
  <2> QED BY <2>1, <2>2 DEF Ahead
\* Of the sweeps none ends otherwise than by arming or by failing.
<1>2. ASSUME \A r \in Scans : r # s => scan'[r] = scan[r],
             scan[s].boot \/ (scan'[s].at = "apply" /\ ~scan'[s].boot),
             UNCHANGED <<windingDown, cadenceIndex, wake>>
      PROVE  Ahead'
  <2>1. Sweeping => Sweeping'
    BY <1>2, NothingOpen DEF Sweeping
  <2> QED BY <1>2, <2>1 DEF Ahead
<1>3. CASE KeeperStart(s) \/ KeeperReconciled(s)
  <2>1. scan[s].boot /\ UNCHANGED <<windingDown, cadenceIndex, wake>>
    BY <1>3, Frames DEF KeeperStart, KeeperReconciled, QuietInv
  <2>2. \A r \in Scans : r # s => scan'[r] = scan[r]
    BY <1>0, <1>3 DEF KeeperStart, KeeperReconciled
  <2> QED BY <1>2, <2>1, <2>2
<1>4. CASE ScanList(s)
  <2> PICK tip : scan' = [scan EXCEPT ![s] = [at |-> "apply", boot |-> scan[s].boot, now |-> tip,
                                              view |-> pools]]
    BY <1>4 DEF ScanList
  <2>1. /\ \A r \in Scans : r # s => scan'[r] = scan[r]
        /\ scan'[s].at = "apply" /\ scan'[s].boot = scan[s].boot
    BY <1>0
  <2>2. UNCHANGED <<windingDown, cadenceIndex, wake>>
    BY <1>4, Frames
  <2> QED BY <1>2, <2>1, <2>2
<1> QED BY <1>1, <1>3, <1>4 DEF ScanStep

LEMMA AheadStep ==
  ASSUME TypeOK, HandsInv, QuietInv, AheadInv, [Next]_vars
  PROVE  AheadInv'
<1> SUFFICES ASSUME faults' = 0, svc' = "up" PROVE Ahead'
  BY DEF AheadInv, Ahead
<1>0. Running
  BY RunningBefore DEF Running
<1>1. ASSUME svc = "up" PROVE ~stopped /\ Ahead
  BY <1>0, <1>1 DEF AheadInv, Ahead, Running, QuietInv
<1>2. ASSUME svc = "up", UNCHANGED <<windingDown, cadenceIndex, scan, wake>> PROVE Ahead'
  BY <1>1, <1>2 DEF Ahead, Sweeping
<1>3. ~Fault
  BY <1>0 DEF Fault, Running
<1>4. ASSUME NEW t, Fire(t), t \in {s[1] : s \in slots} PROVE Ahead'
  <2>1. svc = "up"
    BY <1>4, Frames
  <2> QED BY <1>1, <1>4, <2>1, FireAhead
<1>5. ASSUME NEW w \in Wakes, WakeStep(w) PROVE Ahead'
  <2>1. svc = "up"
    BY <1>5, Frames DEF WakeStep
  <2> QED BY <1>1, <1>5, <2>1, WakeAhead
<1>6. ASSUME NEW s \in Scans, ScanStep(s) PROVE Ahead'
  <2>1. CASE ScanApply(s)
    <3>1. windingDown \/ cadenceIndex' # None
      BY <2>1, ScanApplyDoes DEF HandsInv
    <3>2. UNCHANGED windingDown
      BY <2>1, Frames
    <3> QED BY <3>1, <3>2 DEF Ahead
  <2>2. CASE ~ScanApply(s)
    <3>1. svc = "up"
      BY <1>6, <2>2, Frames DEF ScanStep
    <3> QED BY <1>1, <1>6, <3>1, ScanAhead
  <2> QED BY <2>1, <2>2
\* A sweep that begins will arm the next creation.
<1>7. ASSUME BeginScan("now", FALSE) PROVE Ahead'
  <2> PICK s \in Scans :
        scan'[s] = [at |-> "now", boot |-> FALSE, now |-> wall, view |-> NoScan.view]
    BY <1>7, BeginScanDoes
  <2>1. scan'[s] # NoScan /\ ~scan'[s].boot
    BY NothingOpen
  <2> QED BY <2>1 DEF Ahead, Sweeping
<1>8. CASE Sweep
  BY <1>7, <1>8 DEF Sweep
<1>9. CASE Resume
  <2>1. svc = "up"
    BY <1>9, Frames
  <2> QED BY <1>1, <1>7, <1>9, <2>1 DEF Resume
<1>10. CASE WindDown
  BY <1>10 DEF WindDown, Ahead
<1>11. ASSUME \/ \E w : WakeThrows(w) \/ \E s : ScanThrows(s) \/ Crash \/ \E c : OutOfBand(c)
              \/ Shutdown \/ Close \/ Boot
       PROVE  FALSE
  BY <1>3, <1>11 DEF WakeThrows, ScanThrows, Crash, OutOfBand, Shutdown, Close, Boot
<1>12. ASSUME WorkerAdvances \/ Tick \/ \E c : SomeoneElse(c)
       PROVE  svc' = svc /\ UNCHANGED <<windingDown, cadenceIndex, scan, wake>>
  BY <1>12, Frames
<1>13. ASSUME UNCHANGED vars
       PROVE  svc' = svc /\ UNCHANGED <<windingDown, cadenceIndex, scan, wake>>
  BY <1>13 DEF vars, service, timeline
<1> QED
  BY <1>2, <1>4, <1>5, <1>6, <1>8, <1>9, <1>10, <1>11, <1>12, <1>13 DEF Next, Wakes

LEMMA NothingHeld == Init => HandsInv /\ HeldInv /\ AheadInv
<1> SUFFICES ASSUME Init PROVE HandsInv /\ HeldInv /\ AheadInv OBVIOUS
<1>1. tl = Empty
  BY DEF Init, tl, Empty
<1>2. \A w \in Wakes : wake[w] = Idle
  BY DEF Init, Wakes
<1>3. HandsInv
  BY <1>1, <1>2, EmptyIsTimeline, NothingOpen DEF HandsInv, InHand
<1>4. HeldInv
  BY DEF Init, HeldInv, Live
<1>5. AheadInv
  BY DEF Init, AheadInv
<1> QED BY <1>3, <1>4, <1>5

(***************************************************************************)
(* As long as nothing throws, every live pool has a timer or is in the     *)
(* hands of a wake that will arm it, and so has the next creation unless   *)
(* the lane winds down (keeper.ts 101-140, 143-217).                       *)
(***************************************************************************)
THEOREM NothingIsLost == Spec => []NothingLost
<1> DEFINE Inv == TypeOK /\ HandsInv /\ QuietInv /\ HeldInv /\ AheadInv
<1>1. Init => Inv
  BY TypeInit, QuietInit, NothingHeld
<1>2. Inv /\ [Next]_vars => Inv'
  BY TypeStep, HandsStep, QuietStep, HeldStep, AheadStep
<1>3. Inv => NothingLost
  BY DEF HeldInv, AheadInv, Held, NothingLost, Wakes
<1> QED BY <1>1, <1>2, <1>3, PTL DEF Spec

-----------------------------------------------------------------------------
(* Layer 6: no pool is armed later than it is due. *)

LEMMA DueOrder ==
  ASSUME NEW b \in Boundaries, NEW status \in Statuses \ {"NONE"}
  PROVE  /\ Due(status, b) \in Nat
         /\ Due(status, b) <= closeDeadline(b)
         /\ closeDeadline(b) \in Nat
         /\ Live(status) => Due(status, b) = nextBoundary(status, b)
         /\ \A later \in Statuses : Rank(status) <= Rank(later) => Due(status, b) <= Due(later, b)
<1>0. b \in Nat
  BY BoundariesOnGrid
<1>1. /\ nextBoundary("OPEN", b) = b + D /\ nextBoundary("LOCKED", b) = b + 2 * D
      /\ nextBoundary("SETTLED", b) = b + 2 * D + Grace
      /\ nextBoundary("TERMINAL", b) = b + 2 * D + CloseGrace
      /\ closeDeadline(b) = b + 2 * D + CloseGrace
  BY DEF nextBoundary, startTime, closeTime, voidTime, closeDeadline
<1>2. /\ Due("OPEN", b) = b + D /\ Due("LOCKED", b) = b + 2 * D
      /\ Due("SETTLED", b) = b + 2 * D + Grace
      /\ Due("TERMINAL", b) = b + 2 * D + CloseGrace
      /\ Due("CLOSED", b) = b + 2 * D + CloseGrace
  BY <1>1 DEF Due
<1>3. /\ Rank("NONE") = 0 /\ Rank("OPEN") = 1 /\ Rank("LOCKED") = 2 /\ Rank("SETTLED") = 3
      /\ Rank("TERMINAL") = 4 /\ Rank("CLOSED") = 5
  BY DEF Rank
<1>4. status \in {"OPEN", "LOCKED", "SETTLED", "TERMINAL", "CLOSED"}
  BY DEF Statuses
<1>5. Live(status) => Due(status, b) = nextBoundary(status, b)
  BY DEF Live, Due
<1>6. /\ Due(status, b) \in Nat /\ Due(status, b) <= closeDeadline(b) /\ closeDeadline(b) \in Nat
  BY <1>0, <1>1, <1>2, <1>4, ConstantTypes
<1>7. ASSUME NEW later \in Statuses, Rank(status) <= Rank(later)
      PROVE  Due(status, b) <= Due(later, b)
  <2>1. later \in {"NONE", "OPEN", "LOCKED", "SETTLED", "TERMINAL", "CLOSED"}
    BY DEF Statuses
  <2> QED BY <1>0, <1>2, <1>3, <1>4, <1>7, <2>1, ConstantTypes
<1> QED BY <1>5, <1>6, <1>7

LEMMA LaterStill ==
  ASSUME NEW t \in Nat, NEW old \in Nat, NEW new \in Nat, NEW now \in Nat, NEW then \in Nat,
         NEW delay \in Nat, now <= then, t <= old \/ t <= now + delay, old <= new
  PROVE  t <= new \/ t <= then + delay
OBVIOUS

InTime(t, b) == t <= Due(pools[b], b) \/ t <= wall + Retry

\* A timer that is in time stays in time while the pool moves on.
LEMMA InTimeMoves ==
  ASSUME TypeOK, LateInv, Moves, wall' \in Nat, wall <= wall',
         NEW b \in Boundaries, NEW t \in Nat, pools[b] # "NONE", InTime(t, b)
  PROVE  pools'[b] # "NONE" /\ InTime(t, b)'
<1>0. /\ wall \in Nat /\ Retry \in Nat /\ pools[b] \in Statuses \ {"NONE"} /\ pools'[b] \in Statuses
  BY ConstantTypes DEF TypeOK, Moves
<1>1. CASE pools'[b] = pools[b]
  <2>1. Due(pools[b], b) \in Nat
    BY <1>0, DueOrder
  <2> QED BY <1>0, <1>1, <2>1 DEF InTime
<1>2. CASE Live(pools[b]) /\ pools'[b] # "NONE" /\ Rank(pools[b]) <= Rank(pools'[b])
  <2>1. /\ Due(pools[b], b) \in Nat /\ Due(pools'[b], b) \in Nat
        /\ Due(pools[b], b) <= Due(pools'[b], b)
    BY <1>0, <1>2, DueOrder
  <2>2. t <= Due(pools[b], b) \/ t <= wall + Retry
    BY DEF InTime
  <2>3. t <= Due(pools'[b], b) \/ t <= wall' + Retry
    BY <1>0, <2>1, <2>2, LaterStill
  <2> QED BY <1>2, <2>3 DEF InTime
<1>3. CASE ~Live(pools[b]) /\ pools'[b] = "OPEN"
  <2>1. pools[b] = "CLOSED"
    BY <1>3 DEF Live
  <2>2. closeDeadline(b) <= wall
    BY <2>1 DEF LateInv, Over
  <2>3. /\ Due(pools[b], b) \in Nat /\ Due(pools[b], b) <= closeDeadline(b)
        /\ closeDeadline(b) \in Nat
    BY <1>0, DueOrder
  <2>4. t <= Due(pools[b], b) \/ t <= wall + Retry
    BY DEF InTime
  <2>5. t <= wall \/ t <= wall' + Retry
    BY <1>0, <2>2, <2>3, <2>4, LaterStill
  <2>6. t <= wall' + Retry
    BY <1>0, <2>5
  <2> QED BY <1>3, <2>6 DEF InTime
<1> QED BY <1>1, <1>2, <1>3 DEF Moves

LEMMA LateKeeps ==
  ASSUME TypeOK, HandsInv, LateInv, Moves, wall' \in Nat, wall <= wall',
         \A b \in Boundaries : poolIndex'[b] # None =>
           \/ poolIndex'[b] = poolIndex[b]
           \/ poolIndex'[b] \in Nat /\ pools[b] # "NONE" /\ InTime(poolIndex'[b], b),
         \A s \in Scans : scan'[s].at = "apply" => scan'[s] = scan[s] \/ scan'[s].view = pools
  PROVE  LateInv'
<1>0. /\ wall \in Nat /\ pools \in [Boundaries -> Statuses]
      /\ \A b \in Boundaries : poolIndex[b] \in Nat \cup {None}
  BY DEF TypeOK, HandsInv, IsTimeline, tl
<1>1. ASSUME NEW b \in Boundaries, Over(b) PROVE Over(b)'
  <2>1. closeDeadline(b) \in Nat
    <3>1. "OPEN" \in Statuses \ {"NONE"}
      BY DEF Statuses
    <3> QED BY <3>1, DueOrder
  <2> QED BY <1>0, <1>1, <2>1 DEF Over
<1>2. ASSUME NEW b \in Boundaries, pools'[b] = "CLOSED" PROVE Over(b)'
  BY <1>1, <1>2 DEF Moves, LateInv
<1>3. ASSUME NEW b \in Boundaries, poolIndex'[b] # None
      PROVE  pools'[b] # "NONE" /\ InTime(poolIndex[b], b)'
  <2>1. poolIndex'[b] \in Nat /\ pools[b] # "NONE" /\ InTime(poolIndex'[b], b)
    BY <1>0, <1>3 DEF LateInv, InTime
  <2> DEFINE t == poolIndex'[b]
  <2>2. t \in Nat /\ InTime(t, b)
    BY <2>1
  <2> HIDE DEF t
  <2>3. pools'[b] # "NONE" /\ (t <= Due(pools'[b], b) \/ t <= wall' + Retry)
    BY <2>1, <2>2, InTimeMoves DEF InTime
  <2> QED BY <2>3 DEF t, InTime
<1>4. ASSUME NEW b \in Boundaries, NEW old \in Statuses, pools[b] # "NONE", Follows(pools[b], old, b)
      PROVE  pools'[b] # "NONE" /\ Follows(pools[b], old, b)'
  <2>1. CASE Over(b)
    BY <1>1, <1>4, <2>1 DEF Follows, Moves
  <2>2. CASE pools'[b] = pools[b]
    BY <1>1, <1>4, <2>2 DEF Follows
  <2>3. CASE Live(pools[b]) /\ pools'[b] # "NONE" /\ Rank(pools[b]) <= Rank(pools'[b])
    <3>1. Rank(old) \in Nat /\ Rank(pools[b]) \in Nat /\ Rank(pools'[b]) \in Nat
      <4>1. \A status \in Statuses : Rank(status) \in Nat
        BY DEF Rank, Statuses
      <4> QED BY <1>0, <4>1 DEF Moves
    <3> QED BY <1>1, <1>4, <2>3, <3>1 DEF Follows
  <2>4. CASE ~Live(pools[b])
    BY <1>4, <2>1, <2>4 DEF Live, LateInv
  <2> QED BY <2>2, <2>3, <2>4 DEF Moves
<1>5. ASSUME NEW b \in Boundaries, NEW s \in Scans, scan'[s].at = "apply", Live(scan'[s].view[b])
      PROVE  pools'[b] # "NONE" /\ Follows(pools[b], scan[s].view[b], b)'
  <2>1. CASE scan'[s] = scan[s]
    <3>1. pools[b] # "NONE" /\ Follows(pools[b], scan[s].view[b], b)
      BY <1>5, <2>1 DEF LateInv
    <3>2. scan[s].view[b] \in Statuses
      BY DEF TypeOK, ScanType
    <3> QED BY <1>4, <2>1, <3>1, <3>2 DEF Follows, Over
  <2>2. CASE scan'[s].view = pools
    <3>1. pools[b] \in Statuses /\ pools[b] # "NONE"
      BY <1>0, <1>5, <2>2 DEF Live
    <3>2. Rank(pools[b]) <= Rank(pools[b])
      BY <3>1 DEF Rank, Statuses
    <3> QED BY <1>4, <2>2, <3>1, <3>2 DEF Follows, Over
  <2> QED BY <1>5, <2>1, <2>2
<1>6. \A b \in Boundaries : poolIndex'[b] # None =>
        pools'[b] # "NONE" /\ (poolIndex'[b] <= Due(pools'[b], b) \/ poolIndex'[b] <= wall' + Retry)
  BY <1>3 DEF InTime
<1>7. /\ \A b \in Boundaries : pools'[b] = "CLOSED" => closeDeadline(b) <= wall'
  BY <1>2 DEF Over
<1> QED BY <1>5, <1>6, <1>7 DEF LateInv, Over, Follows

\* A timer armed from what a handler sees is in time, be its view the pools' or older.
LEMMA RetimedInTime ==
  ASSUME TypeOK, IsTimeline(tl)', LateInv, NEW view, Retimed(view),
         \A b \in DOMAIN view :
           Live(view[b]) => /\ view[b] \in Statuses /\ pools[b] # "NONE"
                            /\ Follows(pools[b], view[b], b)
  PROVE  \A b \in Boundaries : poolIndex'[b] # None =>
           \/ poolIndex'[b] = poolIndex[b]
           \/ poolIndex'[b] \in Nat /\ pools[b] # "NONE" /\ InTime(poolIndex'[b], b)
<1> SUFFICES ASSUME NEW b \in Boundaries, poolIndex'[b] # None, poolIndex'[b] # poolIndex[b]
             PROVE  poolIndex'[b] \in Nat /\ pools[b] # "NONE" /\ InTime(poolIndex'[b], b)
  OBVIOUS
<1>1. poolIndex'[b] \in Nat /\ wall \in Nat /\ Retry \in Nat /\ pools[b] \in Statuses
  BY ConstantTypes DEF IsTimeline, tl, TypeOK
<1>2. b \in DOMAIN view /\ Live(view[b])
      /\ (poolIndex'[b] <= nextBoundary(view[b], b) \/ poolIndex'[b] <= wall + Retry)
  BY DEF Retimed
<1>3. view[b] \in Statuses \ {"NONE"} /\ pools[b] # "NONE" /\ Follows(pools[b], view[b], b)
  BY <1>2 DEF Live
<1>4. /\ Due(view[b], b) = nextBoundary(view[b], b) /\ Due(view[b], b) \in Nat
      /\ Due(view[b], b) <= closeDeadline(b) /\ closeDeadline(b) \in Nat
      /\ Rank(view[b]) <= Rank(pools[b]) => Due(view[b], b) <= Due(pools[b], b)
  BY <1>1, <1>2, <1>3, DueOrder
<1>5. Due(pools[b], b) \in Nat
  BY <1>1, <1>3, DueOrder
<1>6. CASE Rank(view[b]) <= Rank(pools[b])
  BY <1>1, <1>2, <1>3, <1>4, <1>5, <1>6 DEF InTime
<1>7. CASE Over(b)
  BY <1>1, <1>2, <1>3, <1>4, <1>7 DEF InTime, Over
<1> QED BY <1>3, <1>6, <1>7 DEF Follows

LEMMA LateStep ==
  ASSUME TypeOK, HandsInv, QuietInv, LateInv, [Next]_vars
  PROVE  LateInv'
<1>0. /\ Moves /\ wall' \in Nat /\ wall <= wall' /\ IsTimeline(tl) /\ IsTimeline(tl)'
      /\ wake \in [Wakes -> WakeType] /\ scan \in [Scans -> ScanType]
      /\ pools \in [Boundaries -> Statuses]
  BY MovesStep, CountsTypeStep, TimelineStep DEF HandsInv, TypeOK
<1> DEFINE Armed ==
      \A b \in Boundaries : poolIndex'[b] # None =>
        \/ poolIndex'[b] = poolIndex[b]
        \/ poolIndex'[b] \in Nat /\ pools[b] # "NONE" /\ InTime(poolIndex'[b], b)
           Looked ==
      \A s \in Scans : scan'[s].at = "apply" => scan'[s] = scan[s] \/ scan'[s].view = pools
<1>1. ASSUME Armed, Looked PROVE LateInv'
  BY <1>0, <1>1, LateKeeps
<1>2. ASSUME \A b \in Boundaries : poolIndex'[b] = None \/ poolIndex'[b] = poolIndex[b] PROVE Armed
  BY <1>2
<1>3. ASSUME UNCHANGED scan PROVE Looked
  BY <1>3
<1>4. \A status \in Statuses : \A b : Follows(status, status, b)
  BY DEF Follows, Rank, Statuses
<1>5. ASSUME NEW t, Fire(t) PROVE Armed /\ Looked
  <2>1. poolIndex' = Unindexed(tl, {b \in Boundaries : <<t, PoolEntry(b)>> \in slots})
    BY <1>5 DEF Fire, Become, Rung, tl
  <2>2. \A b \in Boundaries : poolIndex'[b] = None \/ poolIndex'[b] = poolIndex[b]
    BY <2>1 DEF Unindexed, tl
  <2>3. UNCHANGED scan
    BY <1>5, Frames
  <2> HIDE DEF Armed, Looked
  <2> QED BY <1>2, <1>3, <2>2, <2>3
<1>6. ASSUME NEW w \in Wakes, WakeStep(w) PROVE Armed /\ Looked
  <2>0. Looked
    <3>1. UNCHANGED scan
      BY <1>6, Frames DEF WakeStep
    <3> QED BY <1>3, <3>1
  <2>1. CASE Transitions(w)
    <3>1. Become(removePool(tl, wake[w].pools \ {b \in wake[w].pools : Live(pools[b])}))
      BY <2>1, TransitionsDo
    <3>2. \A b \in Boundaries : poolIndex'[b] = None \/ poolIndex'[b] = poolIndex[b]
      BY <3>1 DEF Become, removePool, Unindexed, tl
    <3> HIDE DEF Armed, Looked
    <3> QED BY <1>2, <2>0, <3>2
  <2>2. CASE Rearm(w)
    <3>1. Retimed([b \in wake[w].pools |-> pools[b]])
      BY <1>0, <2>2, RearmDoes
    <3>2. wake[w].pools \subseteq Boundaries
      BY <1>0 DEF WakeType
    <3> DEFINE view == [b \in wake[w].pools |-> pools[b]]
    <3>3. \A b \in DOMAIN view :
            Live(view[b]) => view[b] \in Statuses /\ pools[b] # "NONE" /\ Follows(pools[b], view[b], b)
      BY <1>0, <1>4, <3>2 DEF Live
    <3>4. Retimed(view)
      BY <3>1
    <3> HIDE DEF view
    <3>5. Armed
      BY <1>0, <3>3, <3>4, RetimedInTime
    <3> HIDE DEF Armed, Looked
    <3> QED BY <2>0, <3>5
  <2>3. ASSUME NEW c \in wake[w].creates, Linked(w, c) PROVE Armed
    <3> DEFINE view == [x \in {d \in {c} : Live(pools[d])} |-> pools[x]]
    <3>1. Retimed(view)
      BY <1>0, <2>3, LinkedDoes
    <3>2. c \in Boundaries
      BY <1>0 DEF WakeType
    <3>3. \A b \in DOMAIN view :
            Live(view[b]) => view[b] \in Statuses /\ pools[b] # "NONE" /\ Follows(pools[b], view[b], b)
      BY <1>0, <1>4, <3>2 DEF Live
    <3> HIDE DEF view
    <3> QED BY <1>0, <3>1, <3>3, RetimedInTime
  <2>4. CASE List(w)
    <3>1. CASE UNCHANGED timeline
      <4>1. \A b \in Boundaries : poolIndex'[b] = poolIndex[b]
        BY <3>1 DEF timeline
      <4> HIDE DEF Looked
      <4> QED BY <2>0, <4>1
    <3>2. CASE \E c \in wake[w].creates : Linked(w, c)
      <4> HIDE DEF Armed, Looked
      <4> QED BY <2>0, <2>3, <3>2
    <3> QED BY <2>4, <3>1, <3>2 DEF List
  <2>5. CASE Link(w)
    <3>1. \E c \in wake[w].creates : Linked(w, c)
      BY <2>5 DEF Link
    <3> HIDE DEF Armed, Looked
    <3> QED BY <2>0, <2>3, <3>1
  <2> QED BY <1>6, <2>1, <2>2, <2>4, <2>5 DEF WakeStep
<1>7. ASSUME NEW s \in Scans, ScanApply(s) PROVE Armed /\ Looked
  <2> DEFINE view == [b \in {x \in Boundaries : Live(scan[s].view[x])} |-> scan[s].view[b]]
  <2>1. Retimed(view)
    BY <1>0, <1>7, ScanApplyDoes
  <2>2. scan[s].at = "apply" /\ scan' = [scan EXCEPT ![s] = NoScan]
    BY <1>7 DEF ScanApply
  <2>3. scan[s].view \in [Boundaries -> Statuses]
    BY <1>0 DEF ScanType
  <2>4. \A b \in DOMAIN view :
          Live(view[b]) => view[b] \in Statuses /\ pools[b] # "NONE" /\ Follows(pools[b], view[b], b)
    BY <2>2, <2>3 DEF LateInv
  <2> HIDE DEF view
  <2>5. Armed
    BY <1>0, <2>1, <2>4, RetimedInTime
  <2>6. Looked
    BY <1>0, <2>2, NothingOpen
  <2> QED BY <2>5, <2>6
<1>8. ASSUME NEW s \in Scans, KeeperStart(s) \/ KeeperReconciled(s) \/ ScanList(s) \/ ScanThrows(s)
      PROVE  Armed /\ Looked
  <2>1. UNCHANGED poolIndex
    BY <1>8, Frames
  <2>2. CASE KeeperStart(s)
    <3>1. \/ scan' = [scan EXCEPT ![s].at = "reconcile"]
          \/ scan' = [scan EXCEPT ![s] = NoScan]
      BY <2>2 DEF KeeperStart
    <3>2. /\ \A r \in Scans : r # s => scan'[r] = scan[r]
          /\ scan'[s].at # "apply"
      BY <1>0, <3>1, NothingOpen DEF ScanType
    <3> QED BY <2>1, <3>2
  <2>3. CASE KeeperReconciled(s)
    <3>1. scan' = [scan EXCEPT ![s] = IF svc = "closed" THEN NoScan ELSE [scan[s] EXCEPT !.at = "now"]]
      BY <2>3 DEF KeeperReconciled
    <3>2. [scan[s] EXCEPT !.at = "now"].at = "now"
      BY <1>0 DEF ScanType
    <3> QED BY <1>0, <2>1, <3>1, <3>2, NothingOpen
  <2>4. CASE ScanList(s)
    <3> PICK tip : scan' = [scan EXCEPT ![s] = [at |-> "apply", boot |-> scan[s].boot, now |-> tip,
                                                view |-> pools]]
      BY <2>4 DEF ScanList
    <3> QED BY <1>0, <2>1
  <2>5. CASE ScanThrows(s)
    BY <1>0, <2>1, <2>5, NothingOpen DEF ScanThrows
  <2>6. Armed
    BY <2>1
  <2> HIDE DEF Armed
  <2>7. Looked
    BY <1>0, <1>8, <2>2, <2>3, <2>4, <2>5
  <2> QED BY <2>6, <2>7
<1>9. ASSUME Shutdown \/ Crash PROVE Armed /\ Looked
  <2>1. \A b \in Boundaries : poolIndex'[b] = None
    BY <1>9 DEF Shutdown, Crash, Become, Empty
  <2>2. UNCHANGED scan \/ \A s \in Scans : scan'[s] = NoScan
    BY <1>9, Frames DEF Crash
  <2> QED BY <2>1, <2>2, NothingOpen
<1>10. ASSUME BeginScan("now", FALSE) \/ BeginScan("boot", TRUE), UNCHANGED poolIndex
       PROVE  Armed /\ Looked
  <2> PICK s \in Scans, at \in {"now", "boot"}, boot \in BOOLEAN :
        /\ scan'[s] = [at |-> at, boot |-> boot, now |-> wall, view |-> NoScan.view]
        /\ \A r \in Scans : r # s => scan'[r] = scan[r]
    BY <1>10, BeginScanDoes
  <2>1. scan'[s].at # "apply"
    OBVIOUS
  <2> QED BY <1>10, <2>1
<1>11. ASSUME UNCHANGED <<poolIndex, scan>> PROVE Armed /\ Looked
  BY <1>11
<1> HIDE DEF Armed, Looked
<1>12. ASSUME Sweep \/ Boot \/ Resume PROVE Armed /\ Looked
  <2>1. UNCHANGED poolIndex
    BY <1>12, Frames
  <2> QED BY <1>10, <1>11, <1>12, <2>1 DEF Sweep, Boot, Resume
<1>13. ASSUME \/ WindDown \/ WorkerAdvances \/ Close \/ Tick
              \/ \E b : SomeoneElse(b) \/ OutOfBand(b)
              \/ \E w : WakeThrows(w)
       PROVE  UNCHANGED <<poolIndex, scan>>
  BY <1>13, Frames
<1>14. ASSUME UNCHANGED vars PROVE UNCHANGED <<poolIndex, scan>>
  BY <1>14 DEF vars, timeline
<1> QED
  BY <1>1, <1>5, <1>6, <1>7, <1>8, <1>9, <1>11, <1>12, <1>13, <1>14 DEF Next, ScanStep, Wakes

LEMMA LateInit == Init => LateInv
BY NothingOpen DEF Init, LateInv, Empty

(***************************************************************************)
(* However old the state that a handler armed a pool from, the pool is not *)
(* woken later than its next boundary, or one retry slot from now if that  *)
(* has passed (keeper.ts 79-81, 129-140, 173-177, 203-217).                *)
(***************************************************************************)
THEOREM NeverArmedLate == Spec => []NeverLate
<1> DEFINE Inv == TypeOK /\ HandsInv /\ QuietInv /\ LateInv
<1>1. Init => Inv
  BY TypeInit, QuietInit, NothingHeld, LateInit
<1>2. Inv /\ [Next]_vars => Inv'
  BY TypeStep, HandsStep, QuietStep, LateStep
<1>3. Inv => NeverLate
  <2> SUFFICES ASSUME Inv, NEW b \in Boundaries, Live(pools[b]), poolIndex[b] # None
               PROVE  poolIndex[b] <= nextBoundary(pools[b], b) \/ poolIndex[b] <= wall + Retry
    BY DEF NeverLate
  <2>1. Due(pools[b], b) = nextBoundary(pools[b], b)
    BY DEF Due, Live
  <2> QED BY <2>1 DEF LateInv
<1> QED BY <1>1, <1>2, <1>3, PTL DEF Spec

-----------------------------------------------------------------------------
(* Layer 7: the worker never sleeps past a tick that a pool waits for. *)

LEMMA TickTimesGrid ==
  ASSUME NEW b \in Boundaries
  PROVE  /\ b \in Nat /\ First <= b
         /\ OnGrid(startTime(b)) /\ OnGrid(closeTime(b))
         /\ startTime(b) \in Nat /\ closeTime(b) \in Nat /\ voidTime(b) \in Nat
         /\ First < startTime(b) /\ startTime(b) < closeTime(b) /\ closeTime(b) < voidTime(b)
         /\ voidTime(b) = closeTime(b) + Grace
<1> USE ConstantTypes
<1> PICK k \in Nat : b = First + k * D
  BY BoundariesOnGrid DEF OnGrid
<1>1. k * D \in Nat /\ (k + 1) * D = k * D + D /\ (k + 2) * D = k * D + 2 * D
  BY MulMono
<1>2. startTime(b) = First + (k + 1) * D /\ closeTime(b) = First + (k + 2) * D
  BY <1>1 DEF startTime, closeTime
<1>3. OnGrid(startTime(b)) /\ OnGrid(closeTime(b))
  <2>1. k + 1 \in Nat /\ k + 2 \in Nat
    OBVIOUS
  <2> QED BY <1>2, <2>1 DEF OnGrid
<1>4. b \in Nat /\ startTime(b) = b + D /\ closeTime(b) = b + 2 * D /\ voidTime(b) = b + 2 * D + Grace
  BY <1>1 DEF startTime, closeTime, voidTime
<1> QED BY <1>1, <1>3, <1>4

\* Whatever the clock shows, the worker's next tick is not past a time on the grid or
\* a grace after one, if a grace is no longer than a round.
LEMMA NextDueInTime ==
  ASSUME Grace <= D, NEW b \in Boundaries, NEW p \in TickTimes(b), NEW now \in Nat
  PROVE  nextDue(now) <= IF now < p THEN p ELSE boundaryAfter(now)
<1> USE ConstantTypes
<1> DEFINE floor == boundaryAtOrBefore(now)
           next == boundaryAfter(now)
<1>1. floor \in Nat /\ next \in Nat /\ now < next /\ \A g : OnGrid(g) /\ now < g => next <= g
  BY GridAtOrBefore, GridAfter
<1>2. nextDue(now) \in Nat /\ nextDue(now) <= next /\ (now < floor + Grace => nextDue(now) <= floor + Grace)
  BY <1>1 DEF nextDue, Smaller
<1> HIDE DEF next
<1>3. /\ startTime(b) \in Nat /\ closeTime(b) \in Nat /\ voidTime(b) \in Nat
      /\ OnGrid(startTime(b)) /\ OnGrid(closeTime(b))
      /\ closeTime(b) < voidTime(b) /\ voidTime(b) = closeTime(b) + Grace
      /\ First < closeTime(b)
  BY TickTimesGrid
<1>4. CASE ~(now < p)
  BY <1>2, <1>4 DEF next
<1>5. ASSUME NEW g, OnGrid(g), now < g, g \in Nat, g <= p, now < p, p \in Nat PROVE nextDue(now) <= p
  <2>1. next <= g
    BY <1>1, <1>5
  <2> QED BY <1>1, <1>2, <1>5, <2>1
<1>6. CASE now < p /\ p \in {startTime(b), closeTime(b)}
  BY <1>3, <1>5, <1>6
<1>7. CASE now < p /\ p = voidTime(b)
  <2>1. CASE now < closeTime(b)
    BY <1>3, <1>5, <1>7, <2>1
  <2>2. CASE closeTime(b) <= now
    <3>1. closeTime(b) <= floor /\ floor <= now
      BY <1>3, <2>2, GridAtOrBefore
    <3>2. ~(closeTime(b) < floor)
      <4>1. closeTime(b) < floor => closeTime(b) + D <= floor
        BY <1>3, GridAtOrBefore
      <4> QED BY <1>1, <1>3, <1>7, <3>1, <4>1
    <3>3. floor = closeTime(b)
      BY <1>1, <1>3, <3>1, <3>2
    <3> QED BY <1>2, <1>3, <1>7, <3>3
  <2> QED BY <1>3, <2>1, <2>2
<1> QED BY <1>4, <1>6, <1>7 DEF TickTimes

LEMMA TickStep ==
  ASSUME Grace <= D, TypeOK, TickInv, [Next]_vars
  PROVE  TickInv'
<1>0. /\ wall \in Nat /\ wall' \in Nat /\ wall <= wall'
      /\ worker \in [on : BOOLEAN, due : Nat]
  BY CountsTypeStep DEF TypeOK
<1>1. ASSUME NEW b \in Boundaries, NEW p \in TickTimes(b) PROVE p \in Nat /\ First < p
  BY TickTimesGrid, ConstantTypes DEF TickTimes
\* The clock moves under a worker that sleeps.
<1>2. ASSUME UNCHANGED worker PROVE TickInv'
  <2> SUFFICES ASSUME worker.on, NEW b \in Boundaries, NEW p \in TickTimes(b)
               PROVE  worker.due <= IF wall' < p THEN p ELSE boundaryAfter(wall')
    BY <1>2 DEF TickInv
  <2>1. worker.due <= IF wall < p THEN p ELSE boundaryAfter(wall)
    BY DEF TickInv
  <2>2. /\ boundaryAfter(wall) \in Nat /\ boundaryAfter(wall') \in Nat /\ wall' < boundaryAfter(wall')
        /\ boundaryAfter(wall) <= boundaryAfter(wall')
    <3>1. /\ boundaryAfter(wall) \in Nat /\ \A g : OnGrid(g) /\ wall < g => boundaryAfter(wall) <= g
      BY <1>0, GridAfter
    <3>2. boundaryAfter(wall') \in Nat /\ wall' < boundaryAfter(wall') /\ OnGrid(boundaryAfter(wall'))
      BY <1>0, GridAfter
    <3>3. wall < boundaryAfter(wall')
      BY <1>0, <3>2
    <3> QED BY <3>1, <3>2, <3>3
  <2>3. worker.due \in Nat /\ p \in Nat
    BY <1>0, <1>1
  <2> QED BY <1>0, <2>1, <2>2, <2>3
<1>3. ASSUME WorkerAdvances PROVE TickInv'
  <2>1. UNCHANGED wall /\ worker' = [worker EXCEPT !.due = nextDue(wall)]
    BY <1>3, Frames DEF WorkerAdvances
  <2>2. worker'.due = nextDue(wall)
    BY <1>0, <2>1
  <2>3. \A b \in Boundaries : \A p \in TickTimes(b) :
          nextDue(wall) <= IF wall < p THEN p ELSE boundaryAfter(wall)
    BY <1>0, NextDueInTime
  <2> QED BY <2>1, <2>2, <2>3 DEF TickInv
<1>4. ASSUME NEW s, ScanApply(s) PROVE TickInv'
  <2>1. CASE scan[s].boot
    <3>1. worker' = [on |-> TRUE, due |-> boundaryAtOrBefore(wall)] /\ UNCHANGED wall
      BY <1>4, <2>1, Frames DEF ScanApply
    <3>2. /\ boundaryAtOrBefore(wall) \in Nat /\ boundaryAfter(wall) \in Nat
          /\ wall < boundaryAfter(wall)
          /\ IF wall <= First THEN boundaryAtOrBefore(wall) = First
             ELSE boundaryAtOrBefore(wall) <= wall
      BY <1>0, GridAtOrBefore, GridAfter
    <3>3. ASSUME NEW b \in Boundaries, NEW p \in TickTimes(b)
          PROVE  boundaryAtOrBefore(wall) <= IF wall < p THEN p ELSE boundaryAfter(wall)
      <4>1. p \in Nat /\ First < p /\ First \in Nat
        BY <1>1, ConstantTypes
      <4> QED BY <1>0, <3>2, <4>1
    <3> QED BY <3>1, <3>3 DEF TickInv
  <2>2. CASE ~scan[s].boot
    BY <1>2, <1>4, <2>2 DEF ScanApply
  <2> QED BY <2>1, <2>2
<1>5. ASSUME Close \/ Crash PROVE TickInv'
  BY <1>5 DEF Close, Crash, WorkerOff, TickInv
<1>6. ASSUME NEW s, KeeperStart(s) \/ KeeperReconciled(s) \/ ScanList(s) \/ ScanThrows(s)
      PROVE  UNCHANGED worker
  BY <1>6, Frames
<1>7. ASSUME NEW w, WakeStep(w) \/ WakeThrows(w) PROVE UNCHANGED worker
  BY <1>7, Frames DEF WakeStep
<1>8. ASSUME \/ Sweep \/ \E t : Fire(t) \/ \E b : SomeoneElse(b) \/ OutOfBand(b)
             \/ Boot \/ WindDown \/ Resume \/ Shutdown \/ Tick
      PROVE  UNCHANGED worker
  BY <1>8, Frames
<1>9. ASSUME UNCHANGED vars PROVE UNCHANGED worker
  BY <1>9 DEF vars
<1> QED BY <1>2, <1>3, <1>4, <1>5, <1>6, <1>7, <1>8, <1>9 DEF Next, ScanStep

(***************************************************************************)
(* In a lane whose grace is no longer than a round, the worker never       *)
(* sleeps past a tick that a pool waits for, and a tick that was missed is *)
(* made up for at the next boundary (oracle/worker.ts 55-70).              *)
(***************************************************************************)
THEOREM TicksComeInTime == Grace <= D => (Spec => []TicksInTime)
<1> DEFINE Inv == TypeOK /\ TickInv
<1>1. Init => Inv
  BY TypeInit DEF Init, TickInv, WorkerOff
<1>2. ASSUME Grace <= D PROVE Inv /\ [Next]_vars => Inv'
  BY <1>2, TypeStep, TickStep
<1>3. Inv => TicksInTime
  BY DEF TickInv, TicksInTime, TickTimes, nextBoundary
<1> SUFFICES ASSUME Grace <= D PROVE Spec => []TicksInTime
  OBVIOUS
<1> QED BY <1>1, <1>2, <1>3, PTL DEF Spec
=============================================================================
