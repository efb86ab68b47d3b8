--------------------------- MODULE PrometheusProofs ---------------------------
(***************************************************************************)
(* The pages of PrometheusExporter, for every number of collectors, names, *)
(* shards, connections and requests: they are never stale, never go back   *)
(* and never mix two poll cycles of one collector.                         *)
(*                                                                         *)
(* A page is a scan that may have begun many publications ago.  The first  *)
(* invariant follows it: what the store had when the request began is in   *)
(* what was seen or still to be seen.  The second says of what cycle each  *)
(* value is, for the store, the scans and the pages alike.                 *)
(***************************************************************************)
EXTENDS PrometheusExporter, StoreProofs

Unseen(s) == {key \in Keys : ShardOf[key[1]] \in req[s].todo}

Requests == [at : {"idle", "reading"}, todo : SUBSET Shards, seen : Readings]
Pages == [metrics : Readings, count : 0 .. MaxScrapes]

\* What is known of one connection.
FreshInv(s) ==
    /\ atStart[s] \in Readings
    /\ NotOlder(atStart[s], Everything)
    /\ NotOlder(req[s].seen, Everything)
    /\ NotOlder(pages[s].metrics, Everything)
    /\ pages[s].count <= scrapes
    /\ req[s].at = "reading" =>
          /\ Kept(atStart[s], req[s].seen, Unseen(s))
          /\ NotOlder(pages[s].metrics, atStart[s])
          /\ pages[s].count < scrapes

PageInv ==
    /\ StoreInv
    /\ TypeOK
    /\ atStart \in [Scrapers -> Readings]
    /\ \A s \in Scrapers : FreshInv(s)

\* The page a step sends, if it sends one, is what the properties promise.
PageStep(s) ==
    pages'[s] # pages[s] =>
        /\ NotOlder(atStart[s], pages'[s].metrics)
        /\ NotOlder(pages[s].metrics, pages'[s].metrics)
        /\ pages'[s].count > pages[s].count

LEMMA RequestFacts ==
    ASSUME TypeOK, NEW s \in Scrapers
    PROVE  /\ req[s] \in Requests /\ req[s].seen \in Readings /\ req[s].todo \in SUBSET Shards
           /\ pages[s] \in Pages /\ pages[s].metrics \in Readings /\ pages[s].count \in 0 .. MaxScrapes
           /\ scrapes \in Nat /\ MaxScrapes \in Nat
BY ScrapeAssumption DEF TypeOK, Requests, Pages

LEMMA PageInvInit == Init => PageInv
<1> SUFFICES ASSUME Init PROVE PageInv
    OBVIOUS
<1>1. StoreInv
    BY StoreInitInv DEF Init
<1>2. NothingRead \in Readings /\ DOMAIN NothingRead = {}
    BY NothingReadIsReading
<1>3. Idle \in Requests /\ NoPage \in Pages
    BY <1>2, ScrapeAssumption DEF Idle, NoPage, Requests, Pages
<1>4. TypeOK
    BY <1>1, <1>3, ScrapeAssumption DEF Init, TypeOK, StoreInv, Requests, Pages
<1>5. ASSUME NEW s \in Scrapers PROVE FreshInv(s)
  <2>1. req[s] = Idle /\ pages[s] = NoPage /\ atStart[s] = NothingRead /\ scrapes = 0
    BY DEF Init
  <2>2. /\ Idle.at = "idle" /\ Idle.seen = NothingRead
        /\ NoPage.metrics = NothingRead /\ NoPage.count = 0
    BY DEF Idle, NoPage
  <2> QED BY <1>2, <2>1, <2>2, NothingIsOldest DEF FreshInv
<1> QED BY <1>1, <1>2, <1>4, <1>5 DEF PageInv, Init

\* A step that leaves the store alone leaves all of it alone.
LEMMA SameStore ==
    ASSUME UNCHANGED storeVars
    PROVE  Everything' = Everything /\ (StoreInv => StoreInv') /\ (StoreTypeOK => StoreTypeOK')
BY DEF storeVars, Everything, StoreInv, StoreTypeOK

-----------------------------------------------------------------------------
(* Every step keeps it *)

LEMMA CollectKeeps ==
    ASSUME PageInv, NEW c \in Collectors, Collect(c)
    PROVE  PageInv' /\ \A s \in Scrapers : PageStep(s)
<1> USE DEF PageInv
<1>1. PICK ok \in SUBSET Names : Publish(c, ok)
    BY DEF Collect
<1>2. StoreInv' /\ NotOlder(Everything, Everything')
    BY <1>1, PublishKeepsStore, PublishAdvances
<1>3. UNCHANGED <<req, pages, scrapes, serving, atStart>>
    BY DEF Collect, requestVars
<1>4. Everything \in Readings /\ Everything' \in Readings
  <2>1. StoreTypeOK /\ StoreTypeOK'
    BY <1>2 DEF StoreInv
  <2>2. StoreTypeOK => Everything \in Readings
    BY EverythingIsReading
  <2> QED BY <2>1, <2>2, EverythingTypePrimed
<1>5. TypeOK'
    BY <1>2, <1>3 DEF TypeOK, StoreInv
<1>6. ASSUME NEW s \in Scrapers PROVE FreshInv(s)'
  <2>1. FreshInv(s)
    OBVIOUS
  <2>2. /\ NotOlder(atStart[s], Everything') /\ NotOlder(req[s].seen, Everything')
        /\ NotOlder(pages[s].metrics, Everything')
    BY <1>2, <1>4, <2>1, RequestFacts, NotOlderTransitive DEF FreshInv
  <2> QED BY <1>3, <2>1, <2>2 DEF FreshInv, Unseen
<1> QED BY <1>2, <1>3, <1>5, <1>6 DEF PageStep

\* All shards are still to be read, and the old page is no newer than the store.
LEMMA BeginScrapeKeeps ==
    ASSUME PageInv, NEW t \in Scrapers, BeginScrape(t)
    PROVE  PageInv' /\ \A s \in Scrapers : PageStep(s)
<1> USE DEF PageInv
<1>1. Everything' = Everything /\ StoreInv'
    BY SameStore DEF BeginScrape
<1> DEFINE begun == [at |-> "reading", todo |-> Shards, seen |-> NothingRead]
<1>2. /\ req' = [req EXCEPT ![t] = begun] /\ atStart' = [atStart EXCEPT ![t] = Everything]
      /\ scrapes < MaxScrapes /\ scrapes' = scrapes + 1 /\ UNCHANGED <<pages, serving>>
    BY DEF BeginScrape
<1>3. NothingRead \in Readings /\ DOMAIN NothingRead = {} /\ Everything \in Readings
    BY NothingReadIsReading, EverythingIsReading DEF StoreInv
<1>4. begun \in Requests
    BY <1>3 DEF Requests
<1>5. TypeOK'
  <2>1. scrapes' \in 0 .. MaxScrapes
    BY <1>2, ScrapeAssumption DEF TypeOK
  <2>2. req' \in [Scrapers -> Requests]
    BY <1>2, <1>4 DEF TypeOK, Requests
  <2> QED BY <1>1, <1>2, <2>1, <2>2 DEF TypeOK, StoreInv, Requests
<1>6. atStart' \in [Scrapers -> Readings]
    BY <1>2, <1>3
<1>7. FreshInv(t)'
  <2>1. req'[t] = begun /\ atStart'[t] = Everything
    BY <1>2 DEF TypeOK
  <2>2. begun.at = "reading" /\ begun.todo = Shards /\ begun.seen = NothingRead
    OBVIOUS
  <2>3. Unseen(t)' = Keys
    BY <2>1, <2>2 DEF Unseen, Keys, Shards
  <2>4. Kept(Everything, NothingRead, Keys)
    BY <1>3, ReadingFacts DEF Kept
  <2>5. NotOlder(Everything, Everything) /\ NotOlder(NothingRead, Everything)
    BY <1>3, NotOlderReflexive, NothingIsOldest
  <2>6. pages[t].count < scrapes' /\ pages[t].count <= scrapes'
    BY <1>2, RequestFacts DEF FreshInv
  <2> HIDE DEF begun
  <2> QED BY <1>1, <1>2, <1>3, <2>1, <2>2, <2>3, <2>4, <2>5, <2>6 DEF FreshInv
<1>8. ASSUME NEW s \in Scrapers, s # t PROVE FreshInv(s)'
  <2>1. req'[s] = req[s] /\ atStart'[s] = atStart[s] /\ pages'[s] = pages[s]
    BY <1>2, <1>8 DEF TypeOK
  <2>2. pages[s].count <= scrapes => pages[s].count < scrapes' /\ pages[s].count <= scrapes'
    BY <1>2, RequestFacts
  <2> QED BY <1>1, <2>1, <2>2 DEF FreshInv, Unseen
<1> QED BY <1>1, <1>2, <1>5, <1>6, <1>7, <1>8 DEF PageStep

LEMMA ReadShardKeeps ==
    ASSUME PageInv, NEW t \in Scrapers, ReadShard(t)
    PROVE  PageInv' /\ \A s \in Scrapers : PageStep(s)
<1> USE DEF PageInv
<1> DEFINE shard == NextShard(req[t].todo)
           seen == VisitShard(req[t].seen, shard)
<1>1. Everything' = Everything /\ StoreInv'
    BY SameStore DEF ReadShard
<1>2. /\ req' = [req EXCEPT ![t].todo = @ \ {shard}, ![t].seen = seen]
      /\ req[t].at = "reading"
      /\ UNCHANGED <<pages, scrapes, serving, atStart>>
    BY DEF ReadShard, Seen
<1>3. StoreTypeOK /\ req[t] \in Requests
    BY RequestFacts DEF StoreInv
<1>4. seen \in Readings
    BY <1>3, VisitFacts, RequestFacts
<1> HIDE DEF shard, seen
<1>5. /\ req'[t] = [req[t] EXCEPT !.todo = req[t].todo \ {shard}, !.seen = seen]
      /\ \A s \in Scrapers : s # t => req'[s] = req[s]
    BY <1>2 DEF TypeOK
<1>6. /\ req'[t].at = "reading" /\ req'[t].todo = req[t].todo \ {shard} /\ req'[t].seen = seen
      /\ req'[t] \in Requests
  <2>1. req[t].todo \ {shard} \in SUBSET Shards
    BY RequestFacts
  <2>2. /\ req'[t].at = req[t].at /\ req'[t].seen = seen
        /\ req'[t].todo = req[t].todo \ {shard}
    BY <1>3, <1>5 DEF Requests
  <2>3. req'[t] \in Requests
    BY <1>3, <1>4, <1>5, <2>1 DEF Requests
  <2> QED BY <1>2, <2>2, <2>3
<1>7. req' \in [Scrapers -> Requests]
    BY <1>2, <1>6 DEF TypeOK, Requests
<1>8. TypeOK'
    BY <1>1, <1>2, <1>7 DEF TypeOK, StoreInv, Requests
<1>9. FreshInv(t)'
  <2>1. FreshInv(t)
    OBVIOUS
  <2>2. Kept(atStart[t], req[t].seen, {key \in Keys : ShardOf[key[1]] \in req[t].todo})
    BY <1>2, <2>1 DEF FreshInv, Unseen
  <2>3. Kept(atStart[t], seen, {key \in Keys : ShardOf[key[1]] \in req[t].todo \ {shard}})
    <3>1. /\ atStart[t] \in Readings /\ req[t].seen \in Readings
          /\ NotOlder(atStart[t], Everything)
        BY <2>1, RequestFacts DEF FreshInv
    <3>2. Kept(atStart[t], VisitShard(req[t].seen, shard),
               {key \in Keys : ShardOf[key[1]] \in req[t].todo \ {shard}})
      <4>1. PICK old \in Readings, was \in Readings, todo \in {req[t].todo} :
                old = atStart[t] /\ was = req[t].seen
        BY <3>1
      <4>2. Kept(old, was, {key \in Keys : ShardOf[key[1]] \in todo}) /\ NotOlder(old, Everything)
        BY <2>2, <3>1, <4>1
      <4>3. Kept(old, VisitShard(was, shard), {key \in Keys : ShardOf[key[1]] \in todo \ {shard}})
        BY <1>3, <4>2, VisitKeeps
      <4> QED BY <4>1, <4>3
    <3> QED BY <3>2 DEF seen
  <2>4. Unseen(t)' = {key \in Keys : ShardOf[key[1]] \in req[t].todo \ {shard}}
    BY <1>6 DEF Unseen
  <2>5. NotOlder(seen, Everything)
    BY <1>3, <2>1, RequestFacts, VisitNotAhead DEF FreshInv, seen
  <2> QED BY <1>1, <1>2, <1>6, <2>1, <2>3, <2>4, <2>5 DEF FreshInv
<1>10. ASSUME NEW s \in Scrapers, s # t PROVE FreshInv(s)'
    BY <1>1, <1>2, <1>5, <1>10 DEF FreshInv, Unseen
<1> QED BY <1>1, <1>2, <1>8, <1>9, <1>10 DEF PageStep

\* Nothing is left to be read: what was seen has all of the store at the start,
\* and that had all of the page before.
LEMMA RespondKeeps ==
    ASSUME PageInv, NEW t \in Scrapers, Respond(t)
    PROVE  PageInv' /\ \A s \in Scrapers : PageStep(s)
<1> USE DEF PageInv
<1>1. Everything' = Everything /\ StoreInv'
    BY SameStore DEF Respond
<1> DEFINE page == [metrics |-> req[t].seen, count |-> scrapes]
<1>2. /\ pages' = [pages EXCEPT ![t] = page] /\ req' = [req EXCEPT ![t] = Idle]
      /\ req[t].at = "reading" /\ req[t].todo = {}
      /\ UNCHANGED <<scrapes, serving, atStart>>
    BY DEF Respond, ScrapeCount
<1>3. page.metrics = req[t].seen /\ page.count = scrapes /\ page \in Pages
    BY RequestFacts DEF Pages, TypeOK
<1> HIDE DEF page
<1>4. NothingRead \in Readings /\ Idle \in Requests /\ Idle.at = "idle" /\ Idle.seen = NothingRead
    BY NothingReadIsReading DEF Idle, Requests
<1>5. /\ pages'[t] = page /\ req'[t] = Idle
      /\ \A s \in Scrapers : s # t => pages'[s] = pages[s] /\ req'[s] = req[s]
    BY <1>2 DEF TypeOK
<1>6. TypeOK'
  <2>1. pages' \in [Scrapers -> Pages]
    BY <1>2, <1>3 DEF TypeOK, Pages
  <2>2. req' \in [Scrapers -> Requests]
    BY <1>2, <1>4 DEF TypeOK, Requests
  <2> QED BY <1>1, <1>2, <2>1, <2>2 DEF TypeOK, StoreInv, Requests, Pages
<1>7. FreshInv(t)
    OBVIOUS
<1>8. PageStep(t)
  <2>1. Unseen(t) = {}
    BY <1>2 DEF Unseen
  <2>2. NotOlder(atStart[t], req[t].seen)
    BY <1>2, <1>7, <2>1, KeptAll DEF FreshInv
  <2>3. NotOlder(pages[t].metrics, req[t].seen)
    BY <1>2, <1>7, <2>2, RequestFacts, NotOlderTransitive DEF FreshInv
  <2>4. scrapes > pages[t].count
    BY <1>2, <1>7, RequestFacts DEF FreshInv
  <2> QED BY <1>3, <1>5, <2>2, <2>3, <2>4 DEF PageStep
<1>9. FreshInv(t)'
  <2>1. scrapes <= scrapes
    BY RequestFacts
  <2> QED BY <1>1, <1>2, <1>3, <1>4, <1>5, <1>7, <2>1, NothingIsOldest DEF FreshInv
<1>10. ASSUME NEW s \in Scrapers, s # t PROVE FreshInv(s)' /\ PageStep(s)
    BY <1>1, <1>2, <1>5, <1>10 DEF FreshInv, Unseen, PageStep
<1> QED BY <1>1, <1>2, <1>6, <1>8, <1>9, <1>10

LEMMA ServerKeeps ==
    ASSUME PageInv, Cancel \/ ServeReturns \/ UNCHANGED vars
    PROVE  PageInv' /\ \A s \in Scrapers : PageStep(s)
<1> USE DEF PageInv
<1>1. /\ UNCHANGED storeVars /\ UNCHANGED <<req, pages, scrapes, atStart>>
      /\ serving' \in {"up", "draining", "returned"}
    BY DEF Cancel, ServeReturns, vars, requestVars, TypeOK
<1>2. Everything' = Everything /\ StoreInv'
    BY <1>1, SameStore
<1>3. TypeOK'
    BY <1>1, <1>2 DEF TypeOK, StoreInv
<1>4. \A s \in Scrapers : FreshInv(s)' /\ PageStep(s)
    BY <1>1, <1>2 DEF FreshInv, Unseen, PageStep
<1> QED BY <1>1, <1>2, <1>3, <1>4

LEMMA PageInvStep ==
    ASSUME PageInv, [Next]_vars
    PROVE  PageInv' /\ \A s \in Scrapers : PageStep(s)
BY CollectKeeps, BeginScrapeKeeps, ReadShardKeeps, RespondKeeps, ServerKeeps DEF Next, Handler

LEMMA PageInvHolds == Spec => []PageInv
BY PageInvInit, PageInvStep, PTL DEF Spec

\* Requests, pages and the store keep their types.
THEOREM PageTypeCorrect == Spec => []TypeOK
<1>1. PageInv => TypeOK
    BY DEF PageInv
<1> QED BY <1>1, PageInvHolds, PTL

\* A page has all the store had when its request began, or newer.
THEOREM PagesFreshHolds == Spec => PagesFresh
<1>1. PageInv /\ [Next]_vars
        => [\A s \in Scrapers : pages'[s] # pages[s] => NotOlder(atStart[s], pages'[s].metrics)]_vars
    BY PageInvStep DEF PageStep
<1> QED BY <1>1, PageInvHolds, PTL DEF Spec, PagesFresh

\* No client sees a metric vanish or go back from one page to the next.
THEOREM PagesAdvanceHolds == Spec => PagesAdvance
<1>1. PageInv /\ [Next]_vars
        => [\A s \in Scrapers : pages'[s] # pages[s]
              => NotOlder(pages[s].metrics, pages'[s].metrics) /\ pages'[s].count > pages[s].count]_vars
    BY PageInvStep DEF PageStep
<1> QED BY <1>1, PageInvHolds, PTL DEF Spec, PagesAdvance
-----------------------------------------------------------------------------
(* No page mixes two poll cycles *)

\* Cycle j is the last of collector c's first k cycles that read n.
Latest(c, k, n, j) ==
    j \in 1 .. k /\ n \in reads[c][j] /\ \A i \in j + 1 .. k : n \notin reads[c][i]

\* f has the names c read in its first k cycles, each as it was read last.
Shows(f, c, k) ==
    /\ \A n : n \in DOMAIN f <=> \E j \in 1 .. k : n \in reads[c][j]
    /\ \A n \in DOMAIN f : \E j : Latest(c, k, n, j) /\ f[n] = Value(j)

Untorn(f, c) == \E k \in 0 .. cycles[c] : Shows(f, c, k)

CycleInv ==
    /\ reads \in [Collectors -> Seq(SUBSET Names)]
    /\ \A c \in Collectors : Len(reads[c]) = cycles[c] /\ Shows(slots[c], c, cycles[c])
    /\ \A s \in Scrapers, c \in Collectors :
          Untorn(SliceOf(req[s].seen, c), c) /\ Untorn(SliceOf(pages[s].metrics, c), c)

\* There is one latest cycle, so the snapshot Shows speaks of is SnapshotAfter.
LEMMA ShownIsSnapshot ==
    ASSUME NEW c, NEW k \in Nat, NEW f, f = [n \in DOMAIN f |-> f[n]], Shows(f, c, k)
    PROVE  f = SnapshotAfter(c, k)
<1> DEFINE shown == UNION {reads[c][j] : j \in 1 .. k}
           latest(n) == CHOOSE j \in 1 .. k : n \in reads[c][j] /\ \A i \in j + 1 .. k : n \notin reads[c][i]
<1>1. DOMAIN f = shown
    BY DEF Shows
<1>2. ASSUME NEW n \in DOMAIN f PROVE f[n] = Value(latest(n))
  <2>1. PICK j : Latest(c, k, n, j) /\ f[n] = Value(j)
    BY DEF Shows
  <2>2. \A i \in 1 .. k : (n \in reads[c][i] /\ \A h \in i + 1 .. k : n \notin reads[c][h]) => i = j
    <3> SUFFICES ASSUME NEW i \in 1 .. k, n \in reads[c][i], \A h \in i + 1 .. k : n \notin reads[c][h]
                 PROVE  i = j
        OBVIOUS
    <3>1. j \in 1 .. k /\ n \in reads[c][j] /\ \A h \in j + 1 .. k : n \notin reads[c][h]
        BY <2>1 DEF Latest
    <3>2. ~(i < j) /\ ~(j < i)
        BY <3>1
    <3> QED BY <3>1, <3>2
  <2>3. j \in 1 .. k /\ n \in reads[c][j] /\ \A i \in j + 1 .. k : n \notin reads[c][i]
    BY <2>1 DEF Latest
  <2>4. latest(n) = j
    BY <2>2, <2>3
  <2> QED BY <2>1, <2>4
<1>3. f = [n \in shown |-> Value(latest(n))]
    BY <1>1, <1>2
<1> QED BY <1>3 DEF SnapshotAfter

LEMMA SliceFacts ==
    ASSUME NEW r \in Readings, NEW c \in Collectors
    PROVE  /\ SliceOf(r, c) = [n \in DOMAIN SliceOf(r, c) |-> SliceOf(r, c)[n]]
           /\ \A n : n \in DOMAIN SliceOf(r, c) <=> <<c, n>> \in DOMAIN r
           /\ \A n \in DOMAIN SliceOf(r, c) : SliceOf(r, c)[n] = r[<<c, n>>]
<1>1. \A n : <<c, n>> \in DOMAIN r => n \in Names
    BY ReadingFacts DEF Keys
<1> QED BY <1>1 DEF SliceOf

\* Only the names and the values count.
LEMMA ShowsSame ==
    ASSUME NEW f, NEW g, NEW c, NEW k, Shows(f, c, k),
           \A n : n \in DOMAIN f <=> n \in DOMAIN g,
           \A n \in DOMAIN f : g[n] = f[n]
    PROVE  Shows(g, c, k)
BY DEF Shows

LEMMA CycleInvInit == Init => CycleInv
<1> SUFFICES ASSUME Init PROVE CycleInv
    OBVIOUS
<1>1. /\ reads \in [Collectors -> Seq(SUBSET Names)]
      /\ \A c \in Collectors : /\ Len(reads[c]) = 0 /\ cycles[c] = 0
                               /\ slots[c] = EmptySnapshot
    BY DEF Init, StoreInit
<1>2. NothingRead \in Readings /\ DOMAIN NothingRead = {} /\ DOMAIN EmptySnapshot = {}
    BY NothingReadIsReading DEF EmptySnapshot
<1>3. \A f, c : DOMAIN f = {} => Shows(f, c, 0)
    BY DEF Shows
<1>4. \A c \in Collectors : DOMAIN SliceOf(NothingRead, c) = {}
    BY <1>2 DEF SliceOf
<1>5. \A s \in Scrapers : req[s].seen = NothingRead /\ pages[s].metrics = NothingRead
    BY DEF Init, Idle, NoPage
<1>6. \A c \in Collectors : Untorn(SliceOf(NothingRead, c), c) /\ Shows(slots[c], c, cycles[c])
    BY <1>1, <1>2, <1>3, <1>4 DEF Untorn
<1> QED BY <1>1, <1>5, <1>6 DEF CycleInv

\* The cycles that were shown before are shown as they were; the new one shows
\* the snapshot that replaced the old.
LEMMA CollectKeepsCycles ==
    ASSUME PageInv, CycleInv, NEW c \in Collectors, Collect(c)
    PROVE  CycleInv'
<1>1. PICK ok \in SUBSET Names : Publish(c, ok) /\ reads' = [reads EXCEPT ![c] = Append(@, ok)]
    BY DEF Collect
<1>2. /\ slots \in [Collectors -> Snapshots] /\ cycles \in [Collectors -> Nat]
      /\ reads \in [Collectors -> Seq(SUBSET Names)]
      /\ \A d \in Collectors : Len(reads[d]) = cycles[d]
    BY DEF PageInv, StoreInv, StoreTypeOK, CycleInv
<1>3. /\ slots' = [slots EXCEPT ![c] = Replacement(c, ok)]
      /\ cycles' = [cycles EXCEPT ![c] = cycles[c] + 1]
      /\ reads' = [reads EXCEPT ![c] = Append(reads[c], ok)]
      /\ UNCHANGED <<req, pages>>
    BY <1>1 DEF Publish, Collect, requestVars
<1>4. /\ reads' \in [Collectors -> Seq(SUBSET Names)]
      /\ \A d \in Collectors : Len(reads'[d]) = cycles'[d]
      /\ \A d \in Collectors : cycles[d] \in Nat /\ cycles'[d] \in Nat /\ cycles[d] <= cycles'[d]
      /\ cycles'[c] = cycles[c] + 1
      /\ \A d \in Collectors : \A j \in 1 .. cycles[d] : reads'[d][j] = reads[d][j]
      /\ reads'[c][cycles[c] + 1] = ok
  <2>1. /\ \A d \in Collectors : d # c => reads'[d] = reads[d] /\ cycles'[d] = cycles[d]
        /\ reads'[c] = Append(reads[c], ok) /\ cycles'[c] = cycles[c] + 1
    BY <1>2, <1>3
  <2> QED BY <1>2, <1>3, <2>1
<1>5. ASSUME NEW f, NEW d \in Collectors, NEW k \in 0 .. cycles[d], Shows(f, d, k)
      PROVE  Shows(f, d, k)'
  <2>1. \A j \in 1 .. k : reads'[d][j] = reads[d][j]
    BY <1>4
  <2>2. ASSUME NEW n, NEW j, Latest(d, k, n, j)
        PROVE  j \in 1 .. k /\ n \in reads'[d][j] /\ \A i \in j + 1 .. k : n \notin reads'[d][i]
    <3>1. k \in Nat
        BY <1>4
    <3>2. j \in 1 .. k /\ n \in reads[d][j] /\ \A i \in j + 1 .. k : n \notin reads[d][i]
        BY <2>2 DEF Latest
    <3>3. \A i \in j + 1 .. k : i \in 1 .. k
        BY <3>1, <3>2
    <3> QED BY <2>1, <3>2, <3>3
  <2>3. /\ \A n : n \in DOMAIN f <=> \E j \in 1 .. k : n \in reads'[d][j]
        /\ \A n \in DOMAIN f : \E j : Latest(d, k, n, j)' /\ f[n] = Value(j)
    BY <1>5, <2>1, <2>2 DEF Shows, Latest
  <2> QED BY <2>3 DEF Shows
<1>6. ASSUME NEW f, NEW d \in Collectors, Untorn(f, d)
      PROVE  Untorn(f, d)'
  <2>1. PICK k \in 0 .. cycles[d] : Shows(f, d, k)
    BY <1>6 DEF Untorn
  <2>2. k \in 0 .. cycles'[d]
    BY <1>4
  <2>3. Shows(f, d, k)'
    BY <1>5, <2>1
  <2> QED BY <2>2, <2>3 DEF Untorn
<1>7. Shows(slots[c], c, cycles[c])
    BY DEF CycleInv
<1>8. Shows(slots[c], c, cycles[c])'
  <2> DEFINE k == cycles[c]
             new == Replacement(c, ok)
  <2>1. /\ slots'[c] = new /\ DOMAIN new = DOMAIN slots[c] \cup ok
        /\ \A n \in DOMAIN new : new[n] = IF n \in ok THEN Value(k + 1) ELSE slots[c][n]
        /\ k \in Nat
    BY <1>2, <1>3 DEF Replacement
  <2>2. \A j \in 1 .. k + 1 : reads'[c][j] = IF j = k + 1 THEN ok ELSE reads[c][j]
    BY <1>4, <2>1
  <2> HIDE DEF new, k
  <2>3. \A n : n \in DOMAIN new <=> \E j \in 1 .. k + 1 : n \in reads'[c][j]
    BY <1>7, <2>1, <2>2 DEF Shows, k
  <2>4. ASSUME NEW n \in DOMAIN new
        PROVE  \E j : /\ j \in 1 .. k + 1 /\ n \in reads'[c][j]
                      /\ \A i \in j + 1 .. k + 1 : n \notin reads'[c][i]
                      /\ new[n] = Value(j)
    <3>1. CASE n \in ok
      <4>1. new[n] = Value(k + 1) /\ k + 1 \in 1 .. k + 1 /\ n \in reads'[c][k + 1]
        BY <2>1, <2>2, <3>1
      <4>2. \A i \in (k + 1) + 1 .. k + 1 : n \notin reads'[c][i]
        BY <2>1
      <4> QED BY <4>1, <4>2
    <3>2. CASE n \notin ok
      <4>1. n \in DOMAIN slots[c] /\ new[n] = slots[c][n]
        BY <2>1, <3>2
      <4>2. PICK j : Latest(c, k, n, j) /\ slots[c][n] = Value(j)
        BY <1>7, <4>1 DEF Shows, k
      <4>3. j \in 1 .. k /\ n \in reads[c][j] /\ \A i \in j + 1 .. k : n \notin reads[c][i]
        BY <4>2 DEF Latest
      <4>4. j \in 1 .. k + 1 /\ n \in reads'[c][j]
        BY <2>1, <2>2, <4>3
      <4>5. \A i \in j + 1 .. k + 1 : n \notin reads'[c][i]
        BY <2>1, <2>2, <3>2, <4>3
      <4> QED BY <4>1, <4>2, <4>4, <4>5
    <3> QED BY <3>1, <3>2
  <2>5. cycles'[c] = k + 1
    BY <1>4 DEF k
  <2>6. \A n : n \in DOMAIN slots'[c] <=> \E j \in 1 .. cycles'[c] : n \in reads'[c][j]
    BY <2>1, <2>3, <2>5
  <2>7. ASSUME NEW n \in DOMAIN slots'[c]
        PROVE  \E j : Latest(c, cycles[c], n, j)' /\ slots'[c][n] = Value(j)
    <3>1. n \in DOMAIN new /\ slots'[c][n] = new[n]
        BY <2>1
    <3>2. PICK j : /\ j \in 1 .. k + 1 /\ n \in reads'[c][j]
                   /\ \A i \in j + 1 .. k + 1 : n \notin reads'[c][i]
                   /\ new[n] = Value(j)
        BY <2>4, <3>1
    <3>3. Latest(c, cycles[c], n, j)'
        BY <2>5, <3>2 DEF Latest
    <3> QED BY <3>1, <3>2, <3>3
  <2> QED BY <2>6, <2>7 DEF Shows
<1>9. ASSUME NEW d \in Collectors, d # c
      PROVE  Shows(slots[d], d, cycles[d])'
  <2>1. slots'[d] = slots[d] /\ cycles'[d] = cycles[d] /\ cycles[d] \in 0 .. cycles[d]
    BY <1>2, <1>3, <1>9
  <2>2. Shows(slots[d], d, cycles[d])
    BY DEF CycleInv
  <2>3. PICK f, k : f = slots[d] /\ k = cycles[d]
    OBVIOUS
  <2>4. Shows(f, d, k)'
    BY <1>5, <2>1, <2>2, <2>3
  <2> QED BY <2>1, <2>3, <2>4 DEF Shows, Latest
<1>10. ASSUME NEW s \in Scrapers, NEW d \in Collectors
       PROVE  Untorn(SliceOf(req[s].seen, d), d)' /\ Untorn(SliceOf(pages[s].metrics, d), d)'
  <2>1. PICK f, g : f = SliceOf(req[s].seen, d) /\ g = SliceOf(pages[s].metrics, d)
    OBVIOUS
  <2>2. Untorn(f, d)' /\ Untorn(g, d)'
    BY <1>6, <2>1 DEF CycleInv
  <2>3. f = SliceOf(req'[s].seen, d) /\ g = SliceOf(pages'[s].metrics, d)
    BY <1>3, <2>1
  <2> QED BY <2>2, <2>3 DEF Untorn, Shows, Latest
<1> QED BY <1>4, <1>8, <1>9, <1>10 DEF CycleInv

LEMMA NothingUntorn ==
    ASSUME StoreTypeOK, NEW c \in Collectors
    PROVE  Untorn(SliceOf(NothingRead, c), c)
<1>1. DOMAIN SliceOf(NothingRead, c) = {}
    BY NothingReadIsReading DEF SliceOf
<1>2. Shows(SliceOf(NothingRead, c), c, 0)
    BY <1>1 DEF Shows
<1>3. 0 \in 0 .. cycles[c]
    BY SnapshotFacts
<1> QED BY <1>2, <1>3 DEF Untorn

\* A visit takes a collector's part from the store, or leaves it as it was.
LEMMA VisitUntorn ==
    ASSUME StoreTypeOK, NEW seen \in Readings, NEW shard, NotOlder(seen, Everything),
           NEW c \in Collectors, Untorn(SliceOf(seen, c), c), Shows(slots[c], c, cycles[c])
    PROVE  Untorn(SliceOf(VisitShard(seen, shard), c), c)
<1> DEFINE here == {key \in Keys : ShardOf[key[1]] = shard /\ key[2] \in DOMAIN slots[key[1]]}
           visited == VisitShard(seen, shard)
           f == SliceOf(visited, c)
<1>1. /\ visited \in Readings
      /\ DOMAIN visited = DOMAIN seen \cup here
      /\ \A key \in DOMAIN visited :
            visited[key] = IF key \in here THEN slots[key[1]][key[2]] ELSE seen[key]
  <2>1. visited \in Readings
    BY VisitFacts
  <2> QED BY <2>1 DEF VisitShard
<1>2. /\ DOMAIN slots[c] \subseteq Names
      /\ \A n : n \in DOMAIN f <=> <<c, n>> \in DOMAIN visited
      /\ \A n \in DOMAIN f : f[n] = visited[<<c, n>>]
    BY <1>1, SnapshotFacts, SliceFacts
<1>3. \A n : <<c, n>> \in here <=> ShardOf[c] = shard /\ n \in DOMAIN slots[c]
    BY <1>2 DEF Keys
<1> HIDE DEF here, visited, f
<1>4. CASE ShardOf[c] = shard
  <2>1. \A n : <<c, n>> \in DOMAIN seen => n \in DOMAIN slots[c]
    BY EverythingIsReading DEF NotOlder
  <2>2. \A n : n \in DOMAIN f <=> n \in DOMAIN slots[c]
    BY <1>1, <1>2, <1>3, <1>4, <2>1
  <2>3. \A n \in DOMAIN slots[c] : f[n] = slots[c][n]
    BY <1>1, <1>2, <1>3, <1>4, <2>2
  <2>4. Shows(f, c, cycles[c])
    BY <2>2, <2>3 DEF Shows
  <2>5. cycles[c] \in 0 .. cycles[c]
    BY SnapshotFacts
  <2> QED BY <2>4, <2>5 DEF Untorn, f, visited
<1>5. CASE ShardOf[c] # shard
  <2>1. PICK k \in 0 .. cycles[c] : Shows(SliceOf(seen, c), c, k)
    BY DEF Untorn
  <2> DEFINE g == SliceOf(seen, c)
  <2>2. /\ \A n : n \in DOMAIN g <=> <<c, n>> \in DOMAIN seen
        /\ \A n \in DOMAIN g : g[n] = seen[<<c, n>>]
    BY SliceFacts
  <2>3. \A n : n \in DOMAIN f <=> n \in DOMAIN g
    BY <1>1, <1>2, <1>3, <1>5, <2>2
  <2>4. \A n \in DOMAIN g : f[n] = g[n]
    BY <1>1, <1>2, <1>3, <1>5, <2>2, <2>3
  <2>5. Shows(f, c, k)
    BY <2>1, <2>3, <2>4 DEF Shows
  <2> QED BY <2>1, <2>5 DEF Untorn, f, visited
<1> QED BY <1>4, <1>5

\* The steps of the server and its handlers leave the store and its history.
LEMMA HandlersKeepCycles ==
    ASSUME PageInv, CycleInv, [Next]_vars, \A c \in Collectors : ~Collect(c)
    PROVE  CycleInv'
<1>1. UNCHANGED <<storeVars, reads>>
    BY DEF Next, BeginScrape, Handler, ReadShard, Respond, Cancel, ServeReturns, vars
<1>2. \A f, c, k : Shows(f, c, k)' <=> Shows(f, c, k)
    BY <1>1 DEF Shows, Latest
<1>3. \A f, c : Untorn(f, c)' <=> Untorn(f, c)
    BY <1>1 DEF Untorn, Shows, Latest, storeVars
<1>4. /\ StoreTypeOK
      /\ \A s \in Scrapers, c \in Collectors :
            Untorn(SliceOf(req[s].seen, c), c) /\ Untorn(SliceOf(pages[s].metrics, c), c)
    BY DEF PageInv, StoreInv, CycleInv
<1>5. ASSUME NEW s \in Scrapers, NEW c \in Collectors
      PROVE  Untorn(SliceOf(req'[s].seen, c), c) /\ Untorn(SliceOf(pages'[s].metrics, c), c)
  <2>1. CASE UNCHANGED <<req, pages>>
    BY <1>4, <2>1
  <2>2. ASSUME NEW t \in Scrapers, BeginScrape(t)
        PROVE  Untorn(SliceOf(req'[s].seen, c), c) /\ Untorn(SliceOf(pages'[s].metrics, c), c)
    <3>1. pages'[s] = pages[s] /\ (req'[s] = req[s] \/ req'[s].seen = NothingRead)
        BY <2>2 DEF BeginScrape, PageInv, TypeOK
    <3> QED BY <1>4, <3>1, NothingUntorn
  <2>3. ASSUME NEW t \in Scrapers, ReadShard(t)
        PROVE  Untorn(SliceOf(req'[s].seen, c), c) /\ Untorn(SliceOf(pages'[s].metrics, c), c)
    <3> DEFINE shard == NextShard(req[t].todo)
    <3>1. /\ req' = [req EXCEPT ![t].todo = @ \ {shard}, ![t].seen = VisitShard(req[t].seen, shard)]
          /\ UNCHANGED pages
        BY <2>3 DEF ReadShard, Seen
    <3> HIDE DEF shard
    <3>2. req'[s] = req[s] \/ (s = t /\ req'[s].seen = VisitShard(req[s].seen, shard))
      <4>1. req[t] \in Requests
        BY RequestFacts DEF PageInv
      <4> QED BY <3>1, <4>1 DEF PageInv, TypeOK, Requests
    <3>3. req[s].seen \in Readings /\ NotOlder(req[s].seen, Everything)
        BY RequestFacts DEF PageInv, FreshInv
    <3>4. Shows(slots[c], c, cycles[c])
        BY DEF CycleInv
    <3>5. Untorn(SliceOf(VisitShard(req[s].seen, shard), c), c)
        BY <1>4, <3>3, <3>4, VisitUntorn
    <3> QED BY <1>4, <3>1, <3>2, <3>5
  <2>4. ASSUME NEW t \in Scrapers, Respond(t)
        PROVE  Untorn(SliceOf(req'[s].seen, c), c) /\ Untorn(SliceOf(pages'[s].metrics, c), c)
    <3>1. /\ req'[s] = req[s] \/ req'[s].seen = NothingRead
          /\ pages'[s] = pages[s] \/ pages'[s].metrics = req[s].seen
        BY <2>4 DEF Respond, PageInv, TypeOK, Idle
    <3> QED BY <1>4, <3>1, NothingUntorn
  <2>5. \/ UNCHANGED <<req, pages>>
        \/ \E t \in Scrapers : BeginScrape(t) \/ ReadShard(t) \/ Respond(t)
    BY DEF Next, Handler, Cancel, ServeReturns, vars, requestVars
  <2> QED BY <2>1, <2>2, <2>3, <2>4, <2>5
<1>6. \A s \in Scrapers, c \in Collectors :
         Untorn(SliceOf(req[s].seen, c), c)' /\ Untorn(SliceOf(pages[s].metrics, c), c)'
  <2>1. \A s \in Scrapers, c \in Collectors :
           Untorn(SliceOf(req'[s].seen, c), c) /\ Untorn(SliceOf(pages'[s].metrics, c), c)
    BY <1>5
  <2> QED BY <1>1, <2>1 DEF Untorn, Shows, Latest, storeVars
<1>7. /\ reads' \in [Collectors -> Seq(SUBSET Names)]
      /\ \A c \in Collectors : Len(reads'[c]) = cycles'[c] /\ Shows(slots[c], c, cycles[c])'
    BY <1>1 DEF CycleInv, storeVars, Shows, Latest
<1> QED BY <1>6, <1>7 DEF CycleInv

LEMMA CyclesHold == Spec => [](PageInv /\ CycleInv)
<1>1. PageInv /\ CycleInv /\ [Next]_vars => CycleInv'
    BY CollectKeepsCycles, HandlersKeepCycles
<1> QED BY <1>1, PageInvHolds, CycleInvInit, PTL DEF Spec

\* What a page shows of a collector is what the collector showed after one of
\* its cycles.
THEOREM PagesUntornHolds == Spec => []PagesUntorn
<1>1. ASSUME PageInv, CycleInv PROVE PagesUntorn
  <2> SUFFICES ASSUME NEW s \in Scrapers, NEW c \in Collectors
               PROVE  \E k \in 0 .. Len(reads[c]) : SliceOf(pages[s].metrics, c) = SnapshotAfter(c, k)
    BY DEF PagesUntorn
  <2>1. PICK f : f = SliceOf(pages[s].metrics, c)
    OBVIOUS
  <2>2. PICK k \in 0 .. cycles[c] : Shows(f, c, k)
    BY <1>1, <2>1 DEF CycleInv, Untorn
  <2>3. cycles[c] \in Nat /\ Len(reads[c]) = cycles[c] /\ pages[s].metrics \in Readings
    BY <1>1, SnapshotFacts, RequestFacts DEF PageInv, StoreInv, CycleInv
  <2>4. f = [n \in DOMAIN f |-> f[n]]
    BY <2>1, <2>3, SliceFacts
  <2>5. f = SnapshotAfter(c, k)
    BY <2>2, <2>3, <2>4, ShownIsSnapshot
  <2> QED BY <2>1, <2>2, <2>3, <2>5
<1>2. PageInv /\ CycleInv => PagesUntorn
    BY <1>1
<1> QED BY <1>2, CyclesHold, PTL
=============================================================================
