------------------------- MODULE PrometheusExporter -------------------------
(***************************************************************************)
(* serve and metrics_handler (src/exporter/prometheus/mod.rs) on top of    *)
(* MetricStore.  Requests are handled concurrently; each counts itself,    *)
(* reads the store shard by shard, then appends the internal metrics, the  *)
(* scrape counter among them.  After the token is cancelled the server     *)
(* accepts nothing more and serve returns when the last request is done.   *)
(* The text format is left out.                                            *)
(***************************************************************************)
EXTENDS MetricStore, Sequences

CONSTANTS
    Scrapers,    \* connections; one request at a time on each
    MaxScrapes   \* bound of the model: requests explored

ASSUME ScrapeAssumption == MaxScrapes \in Nat

VARIABLES
    req,        \* scraper -> [at, todo, seen]: the request being handled
    pages,      \* scraper -> [metrics, count]: the last response it was sent
    scrapes,    \* prometheus_scrapes_total
    serving,    \* "up", "draining" after the cancel, "returned"
    atStart,    \* history: scraper -> the whole store when its request began
    reads       \* history: collector -> the names each of its cycles has read

requestVars == <<req, pages, scrapes, serving, atStart>>
vars == <<storeVars, requestVars, reads>>

Idle == [at |-> "idle", todo |-> {}, seen |-> NothingRead]
NoPage == [metrics |-> NothingRead, count |-> 0]

Init ==
    /\ StoreInit
    /\ req = [s \in Scrapers |-> Idle]
    /\ pages = [s \in Scrapers |-> NoPage]
    /\ scrapes = 0
    /\ serving = "up"
    /\ atStart = [s \in Scrapers |-> NothingRead]
    /\ reads = [c \in Collectors |-> <<>>]

\* A collector completes a poll cycle.
Collect(c) ==
    /\ \E ok \in SUBSET Names \ {{}} :
          /\ Publish(c, ok)
          /\ reads' = [reads EXCEPT ![c] = Append(@, ok)]
    /\ UNCHANGED requestVars

Accepting == serving = "up"

\* A request arrives; it counts itself before it looks at the store.
BeginScrape(s) ==
    /\ Accepting
    /\ req[s] = Idle
    /\ scrapes < MaxScrapes
    /\ scrapes' = scrapes + 1
    /\ req' = [req EXCEPT ![s] = [at |-> "reading", todo |-> Shards, seen |-> NothingRead]]
    /\ atStart' = [atStart EXCEPT ![s] = Everything]
    /\ UNCHANGED <<storeVars, pages, serving, reads>>

\* Mutant of Seen: what the last page had is taken for read.
SeenBefore(s, shard) ==
    LET new == VisitShard(req[s].seen, shard)
        old == pages[s].metrics
    IN  [key \in DOMAIN new \cup DOMAIN old |-> IF key \in DOMAIN old THEN old[key] ELSE new[key]]

Seen(s, shard) == VisitShard(req[s].seen, shard)

ReadShard(s) ==
    /\ req[s].at = "reading"
    /\ req[s].todo # {}
    /\ LET shard == NextShard(req[s].todo)
       IN  req' = [req EXCEPT ![s].todo = @ \ {shard}, ![s].seen = Seen(s, shard)]
    /\ UNCHANGED <<storeVars, pages, scrapes, serving, atStart, reads>>

\* Mutant of ScrapeCount: the counter is not bumped for the request itself.
ScrapeCountBefore == scrapes - 1

\* prometheus_scrapes_total as render_prometheus loads it.
ScrapeCount == scrapes

\* The internal metrics are appended and the response is sent.
Respond(s) ==
    /\ req[s].at = "reading"
    /\ req[s].todo = {}
    /\ pages' = [pages EXCEPT ![s] = [metrics |-> req[s].seen, count |-> ScrapeCount]]
    /\ req' = [req EXCEPT ![s] = Idle]
    /\ UNCHANGED <<storeVars, scrapes, serving, atStart, reads>>

Cancel ==
    /\ serving = "up"
    /\ serving' = "draining"
    /\ UNCHANGED <<storeVars, req, pages, scrapes, atStart, reads>>

\* Mutant of Drained: connections kept alive after a response are waited for.
DrainedAndClosed == \A s \in Scrapers : req[s] = Idle /\ pages[s] = NoPage

\* The graceful shutdown waits for the requests being handled only.
Drained == \A s \in Scrapers : req[s] = Idle

ServeReturns ==
    /\ serving = "draining"
    /\ Drained
    /\ serving' = "returned"
    /\ UNCHANGED <<storeVars, req, pages, scrapes, atStart, reads>>

Handler(s) == ReadShard(s) \/ Respond(s)

Next ==
    \/ \E c \in Collectors : Collect(c)
    \/ \E s \in Scrapers : BeginScrape(s) \/ Handler(s)
    \/ Cancel
    \/ ServeReturns

Spec == Init /\ [][Next]_vars

\* Handlers and the server task are scheduled; nothing makes clients, the
\* collectors or the operator act.
FairSpec ==
    /\ Spec
    /\ \A s \in Scrapers : WF_vars(Handler(s))
    /\ WF_vars(ServeReturns)

-----------------------------------------------------------------------------
(* Properties *)

\* Requests under way and pages answered are made of what the store can hold.
TypeOK ==
    /\ StoreTypeOK
    /\ req \in [Scrapers -> [at : {"idle", "reading"}, todo : SUBSET Shards, seen : Readings]]
    /\ pages \in [Scrapers -> [metrics : Readings, count : 0 .. MaxScrapes]]
    /\ scrapes \in 0 .. MaxScrapes
    /\ serving \in {"up", "draining", "returned"}

\* What collector c shows after k cycles: each name it has read by then, with
\* the last cycle that read it.
SnapshotAfter(c, k) ==
    [n \in UNION {reads[c][j] : j \in 1 .. k} |->
        Value(CHOOSE j \in 1 .. k : n \in reads[c][j] /\ \A i \in j + 1 .. k : n \notin reads[c][i])]

\* However requests and publications interleave, what a page shows of one
\* collector is all of what it showed after one of its cycles: publish replaces
\* the whole snapshot with one insert, so no page mixes two poll cycles.
PagesUntorn ==
    \A s \in Scrapers, c \in Collectors :
        \E k \in 0 .. Len(reads[c]) : SliceOf(pages[s].metrics, c) = SnapshotAfter(c, k)

\* A page is never older than the store was when its request began, in any
\* collector's part, though the parts are read one shard after the other.
PagesFresh ==
    [][\A s \in Scrapers : pages'[s] # pages[s] => NotOlder(atStart[s], pages'[s].metrics)]_vars

\* Responses to one client never go back: no metric vanishes or falls back to
\* an older cycle, and the scrape counter grows with every page.
PagesAdvance ==
    [][\A s \in Scrapers : pages'[s] # pages[s]
          => NotOlder(pages[s].metrics, pages'[s].metrics) /\ pages'[s].count > pages[s].count]_vars

\* A cancelled server returns: it waits for the requests being handled, which
\* end, and for no others.
CancelReturns == serving = "draining" ~> serving = "returned"
=============================================================================
