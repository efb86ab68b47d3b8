----------------------------- MODULE StoreProofs -----------------------------
(***************************************************************************)
(* Lemmas about MetricStore that the proofs about its readers rest on: the *)
(* store only advances, and a scan keeps what it has read.                 *)
(***************************************************************************)
EXTENDS MetricStore, TLAPS

\* new has what old has, as new or newer, but for the keys still waiting.
Kept(old, new, waiting) ==
    \A key \in DOMAIN old : key \in waiting \/ (key \in DOMAIN new /\ new[key].n >= old[key].n)

\* No snapshot is ahead of the poll cycles that were published.
StoreInv ==
    /\ StoreTypeOK
    /\ \A c \in Collectors : \A n \in DOMAIN slots[c] : slots[c][n].n <= cycles[c]

-----------------------------------------------------------------------------
(* Readings *)

LEMMA ValuesAreCycles == \A v \in Values : v.n \in Nat
<1> SUFFICES ASSUME NEW v \in Values PROVE v.n \in Nat
    OBVIOUS
<1>1. PICK c \in Collectors : v.n \in 1 .. MaxCycles[c]
    BY DEF Values
<1>2. MaxCycles[c] \in Nat
    BY StoreAssumption
<1> QED BY <1>1, <1>2

\* A function from keys to values is a reading, and a reading is one.
LEMMA MadeReading ==
    ASSUME NEW ks, ks \subseteq Keys, NEW f \in [ks -> Values]
    PROVE  f \in Readings
BY DEF Readings

LEMMA ReadingFacts ==
    ASSUME NEW r \in Readings
    PROVE  /\ DOMAIN r \subseteq Keys
           /\ r \in [DOMAIN r -> Values]
           /\ \A key \in DOMAIN r : r[key] \in Values /\ r[key].n \in Nat
<1>1. PICK ks \in SUBSET Keys : r \in [ks -> Values]
    BY DEF Readings
<1>2. DOMAIN r = ks
    BY <1>1
<1> QED BY <1>1, <1>2, ValuesAreCycles

LEMMA NothingReadIsReading == NothingRead \in Readings /\ DOMAIN NothingRead = {}
<1>1. NothingRead \in [{} -> Values]
    BY DEF NothingRead
<1> QED BY <1>1, MadeReading DEF NothingRead

\* NotOlder is Kept with nothing waiting.
LEMMA KeptAll == \A old, new : NotOlder(old, new) <=> Kept(old, new, {})
BY DEF NotOlder, Kept

LEMMA KeptTransitive ==
    ASSUME NEW r \in Readings, NEW s \in Readings, NEW t \in Readings, NEW waiting,
           NotOlder(r, s), Kept(s, t, waiting)
    PROVE  Kept(r, t, waiting)
<1> SUFFICES ASSUME NEW key \in DOMAIN r, key \notin waiting
             PROVE  key \in DOMAIN t /\ t[key].n >= r[key].n
    BY DEF Kept
<1>1. key \in DOMAIN s /\ s[key].n >= r[key].n
    BY DEF NotOlder
<1>2. key \in DOMAIN t /\ t[key].n >= s[key].n
    BY <1>1 DEF Kept
<1>3. r[key].n \in Nat /\ s[key].n \in Nat /\ t[key].n \in Nat
    BY <1>1, <1>2, ReadingFacts
<1> QED BY <1>1, <1>2, <1>3

LEMMA NotOlderTransitive ==
    ASSUME NEW r \in Readings, NEW s \in Readings, NEW t \in Readings,
           NotOlder(r, s), NotOlder(s, t)
    PROVE  NotOlder(r, t)
BY KeptTransitive, KeptAll

LEMMA NotOlderReflexive ==
    ASSUME NEW r \in Readings
    PROVE  NotOlder(r, r)
BY ReadingFacts DEF NotOlder

LEMMA NothingIsOldest == \A r : NotOlder(NothingRead, r)
BY NothingReadIsReading DEF NotOlder

-----------------------------------------------------------------------------
(* The store *)

\* What the store's type says of one snapshot.
LEMMA SnapshotFacts ==
    ASSUME StoreTypeOK, NEW c \in Collectors
    PROVE  /\ DOMAIN slots[c] \subseteq Names
           /\ slots[c] \in [DOMAIN slots[c] -> Values]
           /\ \A n \in DOMAIN slots[c] : slots[c][n] \in Values /\ slots[c][n].n \in Nat
           /\ cycles[c] \in Nat
<1>1. slots[c] \in Snapshots /\ cycles[c] \in 0 .. MaxCycles[c]
    BY DEF StoreTypeOK
<1>2. PICK ns \in SUBSET Names : slots[c] \in [ns -> Values]
    BY <1>1 DEF Snapshots
<1>3. DOMAIN slots[c] = ns
    BY <1>2
<1>4. MaxCycles[c] \in Nat
    BY StoreAssumption
<1> QED BY <1>1, <1>2, <1>3, <1>4, ValuesAreCycles

LEMMA StoreInitInv == StoreInit => StoreInv
<1> SUFFICES ASSUME StoreInit PROVE StoreInv
    OBVIOUS
<1>1. EmptySnapshot \in [{} -> Values] /\ DOMAIN EmptySnapshot = {}
    BY DEF EmptySnapshot
<1>2. EmptySnapshot \in Snapshots
    BY <1>1 DEF Snapshots
<1>3. \A c \in Collectors : slots[c] = EmptySnapshot /\ cycles[c] = 0
    BY DEF StoreInit
<1>4. \A c \in Collectors : MaxCycles[c] \in Nat
    BY StoreAssumption
<1>5. StoreTypeOK
    BY <1>2, <1>3, <1>4 DEF StoreTypeOK, StoreInit
<1> QED BY <1>1, <1>3, <1>5 DEF StoreInv

\* A publication that stays in the type keeps the invariant, and the collector's
\* new snapshot has what the old one had, as new or newer.
LEMMA PublishKeepsStore ==
    ASSUME StoreInv, NEW c \in Collectors, NEW ok \in SUBSET Names, Publish(c, ok)
    PROVE  /\ StoreInv'
           /\ \A d \in Collectors : DOMAIN slots[d] \subseteq DOMAIN slots'[d]
           /\ \A d \in Collectors : \A n \in DOMAIN slots[d] : slots'[d][n].n >= slots[d][n].n
<1> DEFINE new == Replacement(c, ok)
<1>1. /\ slots \in [Collectors -> Snapshots]
      /\ slots' = [slots EXCEPT ![c] = new]
      /\ cycles' = [cycles EXCEPT ![c] = cycles[c] + 1]
      /\ cycles[c] < MaxCycles[c]
    BY DEF StoreInv, StoreTypeOK, Publish
<1>2. \A d \in Collectors : d # c => slots'[d] = slots[d]
    BY <1>1
<1>3. slots'[c] = new
    BY <1>1
<1>4. /\ cycles \in [Collectors -> Nat]
      /\ \A d \in Collectors : cycles[d] <= MaxCycles[d]
      /\ \A d \in Collectors : MaxCycles[d] \in Nat
    BY StoreAssumption DEF StoreInv, StoreTypeOK
<1>5. Value(cycles[c] + 1) \in Values /\ Value(cycles[c] + 1).n = cycles[c] + 1
  <2>1. cycles[c] + 1 \in 1 .. MaxCycles[c]
    BY <1>1, <1>4
  <2> QED BY <2>1 DEF Value, Values
<1>6. /\ DOMAIN slots[c] \subseteq Names
      /\ \A n \in DOMAIN slots[c] : slots[c][n] \in Values /\ slots[c][n].n \in Nat
      /\ \A n \in DOMAIN slots[c] : slots[c][n].n <= cycles[c]
    BY SnapshotFacts DEF StoreInv
<1>7. /\ new \in [DOMAIN slots[c] \cup ok -> Values]
      /\ DOMAIN new = DOMAIN slots[c] \cup ok
      /\ \A n \in DOMAIN new : new[n] = IF n \in ok THEN Value(cycles[c] + 1) ELSE slots[c][n]
    BY <1>5, <1>6 DEF Replacement
<1>8. new \in Snapshots
    BY <1>6, <1>7 DEF Snapshots
<1> HIDE DEF new
<1>9. slots' \in [Collectors -> Snapshots]
    BY <1>1, <1>8
<1>10. /\ cycles' \in [Collectors -> Nat]
       /\ \A d \in Collectors : cycles'[d] <= MaxCycles[d]
       /\ \A d \in Collectors : cycles'[d] = IF d = c THEN cycles[c] + 1 ELSE cycles[d]
    BY <1>1, <1>4
<1>11. \A d \in Collectors : DOMAIN slots[d] \subseteq DOMAIN slots'[d]
    BY <1>2, <1>3, <1>7
<1>12. ASSUME NEW d \in Collectors, NEW n \in DOMAIN slots[d]
       PROVE  slots'[d][n].n >= slots[d][n].n
  <2>1. CASE d = c
    BY <2>1, <1>3, <1>4, <1>5, <1>6, <1>7
  <2>2. CASE d # c
    <3>1. slots[d][n].n \in Nat
        BY SnapshotFacts DEF StoreInv
    <3> QED BY <2>2, <3>1, <1>2
  <2> QED BY <2>1, <2>2
<1>13. ASSUME NEW d \in Collectors, NEW n \in DOMAIN slots'[d]
       PROVE  slots'[d][n].n <= cycles'[d]
  <2>1. CASE d = c
    BY <2>1, <1>3, <1>4, <1>5, <1>6, <1>7, <1>10
  <2>2. CASE d # c
    BY <2>2, <1>2, <1>10 DEF StoreInv
  <2> QED BY <2>1, <2>2
<1>14. StoreTypeOK'
    BY <1>9, <1>10 DEF StoreTypeOK
<1> QED BY <1>11, <1>12, <1>13, <1>14 DEF StoreInv

LEMMA EverythingIsReading ==
    ASSUME StoreTypeOK
    PROVE  /\ Everything \in Readings
           /\ \A key \in Keys : key \in DOMAIN Everything <=> key[2] \in DOMAIN slots[key[1]]
           /\ \A key \in DOMAIN Everything : key \in Keys /\ Everything[key] = slots[key[1]][key[2]]
<1> DEFINE ks == {key \in Keys : key[2] \in DOMAIN slots[key[1]]}
<1>1. \A key \in ks : key[1] \in Collectors /\ slots[key[1]][key[2]] \in Values
    BY SnapshotFacts DEF Keys
<1>2. Everything \in [ks -> Values] /\ DOMAIN Everything = ks
    BY <1>1 DEF Everything
<1> QED BY <1>2, MadeReading DEF Everything

\* The same of the next state.
LEMMA EverythingTypePrimed ==
    ASSUME StoreTypeOK'
    PROVE  Everything' \in Readings
<1> DEFINE ks == {key \in Keys : key[2] \in DOMAIN slots'[key[1]]}
<1>1. \A c \in Collectors : slots'[c] \in Snapshots
    BY DEF StoreTypeOK
<1>2. ASSUME NEW key \in ks
      PROVE  slots'[key[1]][key[2]] \in Values
  <2>1. slots'[key[1]] \in Snapshots
    BY <1>1 DEF Keys
  <2>2. PICK ns \in SUBSET Names : slots'[key[1]] \in [ns -> Values]
    BY <2>1 DEF Snapshots
  <2> QED BY <2>2
<1>3. Everything' \in [ks -> Values]
    BY <1>2 DEF Everything
<1> QED BY <1>3, MadeReading

\* The store only advances.
LEMMA PublishAdvances ==
    ASSUME StoreInv, NEW c \in Collectors, NEW ok \in SUBSET Names, Publish(c, ok)
    PROVE  NotOlder(Everything, Everything')
<1>1. StoreTypeOK /\ StoreTypeOK'
    BY PublishKeepsStore DEF StoreInv
<1>2. /\ \A key \in Keys : key \in DOMAIN Everything' <=> key[2] \in DOMAIN slots'[key[1]]
      /\ \A key \in DOMAIN Everything' : key \in Keys /\ Everything'[key] = slots'[key[1]][key[2]]
    BY DEF Everything
<1> SUFFICES ASSUME NEW key \in DOMAIN Everything
             PROVE  key \in DOMAIN Everything' /\ Everything'[key].n >= Everything[key].n
    BY DEF NotOlder
<1>3. /\ key \in Keys
      /\ key[2] \in DOMAIN slots[key[1]]
      /\ Everything[key] = slots[key[1]][key[2]]
    BY <1>1, EverythingIsReading
<1>4. key[1] \in Collectors
    BY <1>3 DEF Keys
<1>5. /\ key[2] \in DOMAIN slots'[key[1]]
      /\ slots'[key[1]][key[2]].n >= slots[key[1]][key[2]].n
    BY <1>3, <1>4, PublishKeepsStore
<1> QED BY <1>2, <1>3, <1>5

-----------------------------------------------------------------------------
(* Scans *)

\* What a scan has read when it has visited a shard: all there is in the shard,
\* and what it had read.
LEMMA VisitFacts ==
    ASSUME StoreTypeOK, NEW seen \in Readings, NEW shard
    PROVE  /\ VisitShard(seen, shard) \in Readings
           /\ DOMAIN seen \subseteq DOMAIN VisitShard(seen, shard)
           /\ \A key \in DOMAIN Everything : ShardOf[key[1]] = shard =>
                 key \in DOMAIN VisitShard(seen, shard) /\ VisitShard(seen, shard)[key] = Everything[key]
           /\ \A key \in DOMAIN VisitShard(seen, shard) :
                 \/ key \in DOMAIN Everything /\ VisitShard(seen, shard)[key] = Everything[key]
                 \/ key \in DOMAIN seen /\ VisitShard(seen, shard)[key] = seen[key]
<1> DEFINE here == {key \in Keys : ShardOf[key[1]] = shard /\ key[2] \in DOMAIN slots[key[1]]}
           visited == VisitShard(seen, shard)
<1>1. /\ DOMAIN visited = DOMAIN seen \cup here
      /\ \A key \in DOMAIN visited :
            visited[key] = IF key \in here THEN slots[key[1]][key[2]] ELSE seen[key]
    BY DEF VisitShard
<1>2. \A key \in here : key \in DOMAIN Everything /\ Everything[key] = slots[key[1]][key[2]]
    BY EverythingIsReading
<1>3. \A key \in DOMAIN Everything : ShardOf[key[1]] = shard => key \in here
    BY EverythingIsReading
<1>4. \A key \in DOMAIN Everything : Everything[key] \in Values
    BY EverythingIsReading, ReadingFacts
<1>5. DOMAIN seen \subseteq Keys /\ \A key \in DOMAIN seen : seen[key] \in Values
    BY ReadingFacts
<1>6. visited \in Readings
  <2>1. \A key \in DOMAIN seen \cup here : visited[key] \in Values
    BY <1>1, <1>2, <1>4, <1>5
  <2>2. visited \in [DOMAIN seen \cup here -> Values]
    BY <2>1 DEF VisitShard
  <2> QED BY <2>2, <1>5, MadeReading
<1> QED BY <1>1, <1>2, <1>3, <1>6

\* A visit brings what waited for this shard, from what was no newer than the
\* store, and loses nothing.
LEMMA VisitKeeps ==
    ASSUME StoreTypeOK, NEW seen \in Readings, NEW old \in Readings, NEW todo, NEW shard,
           NotOlder(old, Everything),
           Kept(old, seen, {key \in Keys : ShardOf[key[1]] \in todo})
    PROVE  Kept(old, VisitShard(seen, shard), {key \in Keys : ShardOf[key[1]] \in todo \ {shard}})
<1> DEFINE visited == VisitShard(seen, shard)
<1> SUFFICES ASSUME NEW key \in DOMAIN old, ~(ShardOf[key[1]] \in todo \ {shard})
             PROVE  key \in DOMAIN visited /\ visited[key].n >= old[key].n
    BY ReadingFacts DEF Kept
<1>1. key \in DOMAIN Everything /\ Everything[key].n >= old[key].n
    BY DEF NotOlder
<1>2. CASE ShardOf[key[1]] = shard
    BY <1>1, <1>2, VisitFacts
<1>3. CASE ShardOf[key[1]] \notin todo
  <2>1. key \in DOMAIN seen /\ seen[key].n >= old[key].n
    BY <1>3 DEF Kept
  <2>2. key \in DOMAIN visited
    BY <2>1, VisitFacts
  <2> QED BY <1>1, <2>1, <2>2, VisitFacts
<1> QED BY <1>2, <1>3

\* What was read is no newer than the store, and stays so after a visit.
LEMMA VisitNotAhead ==
    ASSUME StoreTypeOK, NEW seen \in Readings, NEW shard, NotOlder(seen, Everything)
    PROVE  NotOlder(VisitShard(seen, shard), Everything)
<1>1. \A key \in DOMAIN Everything : Everything[key].n \in Nat
    BY EverythingIsReading, ReadingFacts
<1> QED BY <1>1, VisitFacts DEF NotOlder
=============================================================================
