------------------------------ MODULE Collector ------------------------------
(***************************************************************************)
(* One collector task (src/collector.rs, run_collector) with the reader,   *)
(* the writer and the slot of the MetricStore it owns.  A step is the code *)
(* between two awaits; the label in pc names the await the task is in:     *)
(*                                                                         *)
(*   Connect, InitWrites, ConnectBackoff        the initial connect loop   *)
(*   Poll                                       the top of the poll loop   *)
(*   PrePoll, Read, Publish, Sleep              the parts of a poll cycle  *)
(*   ReconnectBackoff, Reconnect, ReconnectInit reconnect_with_init_writes *)
(*   Done                                       the task has returned      *)
(*                                                                         *)
(* Publish is no await: the task runs on a multi-threaded runtime, so the  *)
(* exporters may look at the counters and at the store between the two.    *)
(*                                                                         *)
(* A value read from the device is abstracted to the number of the poll    *)
(* cycle that read it, which is what "stale" and "latest" are about.       *)
(* Timestamps, poll durations, labels and logging are left out.            *)
(***************************************************************************)
EXTENDS Integers, FiniteSets

CONSTANTS
    Metrics,         \* names of the configured metrics
    ErrName,         \* metric name -> name of its error counter ("<name>_errors")
    HasInitWrites,   \* there is a writer and init_writes is not empty
    HasPrePoll,      \* there is a writer and pre_poll is not empty
    DetectsLoss,     \* may is_connected() turn false when a read finds the session
                     \*    dead: {TRUE}, {FALSE} (all readers there are), or BOOLEAN
    IoCounts,        \* the io_count values a read may report
    InitialBackoff,  \* INITIAL_BACKOFF, in seconds
    MaxBackoff,      \* MAX_BACKOFF, in seconds
    MaxPolls         \* bound of the model: poll cycles explored

ASSUME ErrNameAssumption ==
    /\ IsFiniteSet(Metrics)
    /\ DOMAIN ErrName = Metrics
    /\ \A m1, m2 \in Metrics : ErrName[m1] = ErrName[m2] => m1 = m2

ASSUME ConfigAssumption ==
    /\ HasInitWrites \in BOOLEAN
    /\ HasPrePoll \in BOOLEAN
    /\ DetectsLoss \subseteq BOOLEAN
    /\ IoCounts \subseteq Nat

ASSUME BoundsAssumption ==
    /\ InitialBackoff \in Nat \ {0}
    /\ MaxBackoff \in Nat
    /\ InitialBackoff <= MaxBackoff
    /\ MaxPolls \in Nat

VARIABLES
    pc,                \* where the task is, see above
    session,           \* the reader's transport: "none", "live" or "dead"
    initialised,       \* history: init_writes succeeded on this session
    backoff,           \* current backoff, in seconds
    prePollFailures,   \* pre_poll_consecutive_failures
    localCache,        \* local_cache, while a poll cycle is being completed
    prevCache,         \* prev_cache
    errorCounts,       \* error_counts; 0 stands for an absent entry
    lastGood,          \* history: the last completed cycle that read the metric
    store,             \* this collector's snapshot in the MetricStore
    stats,             \* this collector's CollectorStats
    shutdown,          \* the value of the engine's watch channel
    cancel             \* the CancellationToken handed to read()

taskVars == <<pc, session, initialised, backoff, prePollFailures>>
dataVars == <<localCache, prevCache, errorCounts, lastGood, store>>
vars == <<taskVars, dataVars, stats, shutdown, cancel>>

-----------------------------------------------------------------------------
(* Data *)

ErrNames == {ErrName[m] : m \in Metrics}
Names == Metrics \cup ErrNames

\* No configured metric has the name of another metric's error counter.
NoCollision == ErrNames \cap Metrics = {}

\* A MetricValue: a device value by its poll cycle, or an error count.
MetricValue == [src : {"device", "errors"}, n : Nat]
Reading(cycle) == [src |-> "device", n |-> cycle]
ErrorCount(count) == [src |-> "errors", n |-> count]

IsCache(c) == DOMAIN c \subseteq Names /\ c \in [DOMAIN c -> MetricValue]
EmptyCache == [n \in {} |-> Reading(0)]

CollectorStats ==
    [polls_total : Nat, polls_success : Nat, polls_error : Nat,
     read_requests : Nat, read_errors : Nat]

\* Metrics that have an entry in error_counts.
Failing == {m \in Metrics : errorCounts[m] > 0}

\* Mutant of Carried: failed metrics are not carried forward.
CarriedNothing == localCache

\* This cycle's readings, and the previous values of all other names.
Carried ==
    [n \in DOMAIN localCache \cup DOMAIN prevCache |->
        IF n \in DOMAIN localCache THEN localCache[n] ELSE prevCache[n]]

\* The count published under the error-counter name n.
CountFor(n) == ErrorCount(errorCounts[CHOOSE m \in Failing : ErrName[m] = n])

\* Mutant of Merged: an error counter is inserted once and then only carried.
MergedOnce ==
    [n \in DOMAIN Carried \cup {ErrName[m] : m \in Failing} |->
        IF n \in DOMAIN Carried THEN Carried[n] ELSE CountFor(n)]

\* What a completed cycle publishes: on top of the carried values, the error
\* count of each failing metric, whatever was there under that name.
Merged ==
    [n \in DOMAIN Carried \cup {ErrName[m] : m \in Failing} |->
        IF \E m \in Failing : ErrName[m] = n THEN CountFor(n) ELSE Carried[n]]

\* Mutant of NextBackoff: the cap is forgotten.
NextBackoffUncapped == backoff * 2

NextBackoff == IF backoff * 2 < MaxBackoff THEN backoff * 2 ELSE MaxBackoff

\* Mutant of StopRequested: only the select! branches look at the channel.
StopNeverRequested == FALSE

\* *shutdown_rx.borrow(), looked at where the loop does not sleep.
StopRequested == shutdown

PCs == {"Connect", "InitWrites", "ConnectBackoff", "Poll", "PrePoll", "Read",
        "Publish", "Sleep", "ReconnectBackoff", "Reconnect", "ReconnectInit",
        "Done"}

Init ==
    /\ pc = "Connect"
    /\ session = "none"
    /\ initialised = FALSE
    /\ backoff = InitialBackoff
    /\ prePollFailures = 0
    /\ localCache = EmptyCache
    /\ prevCache = EmptyCache
    /\ errorCounts = [m \in Metrics |-> 0]
    /\ lastGood = [m \in Metrics |-> 0]
    /\ store = EmptyCache
    /\ stats = [polls_total |-> 0, polls_success |-> 0, polls_error |-> 0,
                read_requests |-> 0, read_errors |-> 0]
    /\ shutdown = FALSE
    /\ cancel = FALSE

-----------------------------------------------------------------------------
(* Environment *)

\* CollectorEngine::shutdown sends true on the watch channel.
SignalShutdown ==
    /\ ~shutdown
    /\ shutdown' = TRUE
    /\ UNCHANGED <<taskVars, dataVars, stats, cancel>>

\* The peer or the link goes away.  The reader cannot know until it next reads.
LinkLost ==
    /\ session = "live"
    /\ session' = "dead"
    /\ UNCHANGED <<pc, initialised, backoff, prePollFailures, dataVars, stats,
                   shutdown, cancel>>

-----------------------------------------------------------------------------
(* Returning: every exit cancels the token and leaves the reader disconnected *)

Exit ==
    /\ pc' = "Done"
    /\ cancel' = TRUE
    /\ session' = "none"

\* A select! between a sleep and shutdown_rx.changed() takes the second
\* branch.  A sleep that ends in the same instant is a sleep that ended just
\* before the signal: the actions named ...Elapsed require ~shutdown.
ShutdownDuringSleep ==
    /\ pc \in {"ConnectBackoff", "ReconnectBackoff", "Sleep"}
    /\ shutdown
    /\ Exit
    /\ UNCHANGED <<initialised, backoff, prePollFailures, dataVars, stats, shutdown>>

-----------------------------------------------------------------------------
(* Connecting, the first time and again *)

\* Mutant of AfterConnect: init_writes run at start only, not after a reconnect.
AfterConnectInitOnce(initPc) ==
    IF HasInitWrites /\ initPc = "InitWrites" THEN initPc ELSE "Poll"

AfterConnect(initPc) == IF HasInitWrites THEN initPc ELSE "Poll"

\* Mutant of BackoffAfterConnect: the backoff is not reset.
BackoffAfterConnectKept == backoff

BackoffAfterConnect == InitialBackoff

\* connect() succeeded; without init_writes the device is ready at once.
Connected(initPc) ==
    /\ session' = "live"
    /\ initialised' = ~HasInitWrites
    /\ backoff' = BackoffAfterConnect
    /\ pc' = AfterConnect(initPc)
    /\ UNCHANGED <<dataVars, stats, shutdown, cancel>>

ConnectOk ==
    /\ pc = "Connect"
    /\ Connected("InitWrites")
    /\ UNCHANGED prePollFailures

ConnectFails ==
    /\ pc = "Connect"
    /\ pc' = "ConnectBackoff"
    /\ UNCHANGED <<session, initialised, backoff, prePollFailures, dataVars,
                   stats, shutdown, cancel>>

\* execute_writes(init_writes) succeeded, at start or after a reconnect.
InitWritesOk ==
    /\ pc \in {"InitWrites", "ReconnectInit"}
    /\ initialised' = TRUE
    /\ pc' = "Poll"
    /\ UNCHANGED <<session, backoff, prePollFailures, dataVars, stats, shutdown, cancel>>

\* ... or failed: both loops disconnect the reader and back off.
InitWritesFail ==
    /\ \/ pc = "InitWrites" /\ pc' = "ConnectBackoff"
       \/ pc = "ReconnectInit" /\ pc' = "ReconnectBackoff"
    /\ session' = "none"
    /\ UNCHANGED <<initialised, backoff, prePollFailures, dataVars, stats, shutdown, cancel>>

BackoffElapsed ==
    /\ ~shutdown
    /\ \/ pc = "ConnectBackoff" /\ pc' = "Connect"
       \/ pc = "ReconnectBackoff" /\ pc' = "Reconnect"
    /\ backoff' = NextBackoff
    /\ UNCHANGED <<session, initialised, prePollFailures, dataVars, stats, shutdown, cancel>>

\* Entry of reconnect_with_init_writes: disconnect, then sleep.
EnterReconnect ==
    /\ pc' = "ReconnectBackoff"
    /\ session' = "none"

ReconnectOk ==
    /\ pc = "Reconnect"
    /\ Connected("ReconnectInit")
    /\ prePollFailures' = 0

ReconnectFails ==
    /\ pc = "Reconnect"
    /\ EnterReconnect
    /\ UNCHANGED <<initialised, backoff, prePollFailures, dataVars, stats, shutdown, cancel>>

-----------------------------------------------------------------------------
(* The poll cycle *)

\* The top of the loop: the cycle is counted before shutdown is looked at.
StartPoll ==
    /\ pc = "Poll"
    /\ ~StopRequested
    /\ stats.polls_total < MaxPolls
    /\ stats' = [stats EXCEPT !.polls_total = @ + 1]
    /\ pc' = IF HasPrePoll THEN "PrePoll" ELSE "Read"
    /\ UNCHANGED <<session, initialised, backoff, prePollFailures, dataVars, shutdown, cancel>>

StartPollShutdown ==
    /\ pc = "Poll"
    /\ StopRequested
    /\ stats' = [stats EXCEPT !.polls_total = @ + 1]
    /\ Exit
    /\ UNCHANGED <<initialised, backoff, prePollFailures, dataVars, shutdown>>

PrePollOk ==
    /\ pc = "PrePoll"
    /\ prePollFailures' = 0
    /\ pc' = "Read"
    /\ UNCHANGED <<session, initialised, backoff, dataVars, stats, shutdown, cancel>>

\* Mutant of PrePollGivesUp: one failure too late.
PrePollGivesUpLate == prePollFailures + 1 > 3

PrePollGivesUp == prePollFailures + 1 >= 3

\* Mutant of CountSkipped: the cycle that ends in a reconnect is not counted.
CountSkippedBelowThreshold ==
    IF PrePollGivesUp THEN stats ELSE [stats EXCEPT !.polls_error = @ + 1]

CountSkipped == [stats EXCEPT !.polls_error = @ + 1]

\* The cycle is an error; the third failure in a row reconnects, an earlier one
\* sleeps what is left of the interval or starts the next cycle at once.
PrePollFails ==
    /\ pc = "PrePoll"
    /\ prePollFailures' = prePollFailures + 1
    /\ stats' = CountSkipped
    /\ IF PrePollGivesUp
       THEN EnterReconnect
       ELSE pc' \in {"Sleep", "Poll"} /\ UNCHANGED session
    /\ UNCHANGED <<initialised, backoff, dataVars, shutdown, cancel>>

\* The counters after a read of io bus calls and failed error results.
CountRead(io, failed, success) ==
    [polls_total |-> stats.polls_total,
     polls_success |-> stats.polls_success + (IF success THEN 1 ELSE 0),
     polls_error |-> stats.polls_error + (IF success THEN 0 ELSE 1),
     read_requests |-> stats.read_requests + io,
     read_errors |-> stats.read_errors + failed]

\* read() returned and the first failed result found the reader disconnected:
\* one read error is counted and all results of the cycle are dropped.
ReadFindsLoss ==
    /\ pc = "Read"
    /\ TRUE \in DetectsLoss
    /\ session = "dead"
    /\ \E io \in IoCounts : stats' = CountRead(io, 1, FALSE)
    /\ EnterReconnect
    /\ UNCHANGED <<initialised, backoff, prePollFailures, dataVars, shutdown, cancel>>

\* The metrics a read may yield while the reader keeps saying it is connected:
\* any on a live session, none on a dead one.
ReadYields(ok) == session = "dead" => FALSE \in DetectsLoss /\ ok = {}

\* read() returned and the reader still says it is connected.  ok is the set of
\* metrics that were read; each of the others counts as a read error.
ReadCompletes(ok) ==
    /\ pc = "Read"
    /\ ReadYields(ok)
    /\ \E io \in IoCounts :
          stats' = CountRead(io, Cardinality(Metrics \ ok), ok = Metrics)
    /\ localCache' = [m \in ok |-> Reading(stats.polls_total)]
    /\ errorCounts' = [m \in Metrics |-> IF m \in ok THEN errorCounts[m] ELSE errorCounts[m] + 1]
    /\ lastGood' = [m \in Metrics |-> IF m \in ok THEN stats.polls_total ELSE lastGood[m]]
    /\ backoff' = InitialBackoff
    /\ pc' = "Publish"
    /\ UNCHANGED <<session, initialised, prePollFailures, prevCache, store, shutdown, cancel>>

\* Merge, store.publish, prev_cache = local_cache; then sleep what is left of
\* the interval, or, when nothing is left, look at shutdown and go on.
Publish ==
    /\ pc = "Publish"
    /\ store' = Merged
    /\ prevCache' = Merged
    /\ localCache' = EmptyCache
    /\ \/ pc' = "Sleep" /\ UNCHANGED <<session, cancel>>
       \/ ~StopRequested /\ pc' = "Poll" /\ UNCHANGED <<session, cancel>>
       \/ StopRequested /\ Exit
    /\ UNCHANGED <<initialised, backoff, prePollFailures, errorCounts, lastGood,
                   stats, shutdown>>

SleepElapsed ==
    /\ pc = "Sleep"
    /\ ~shutdown
    /\ pc' = "Poll"
    /\ UNCHANGED <<session, initialised, backoff, prePollFailures, dataVars, stats,
                   shutdown, cancel>>

-----------------------------------------------------------------------------

Task ==
    \/ ConnectOk \/ ConnectFails
    \/ InitWritesOk \/ InitWritesFail
    \/ BackoffElapsed
    \/ ReconnectOk \/ ReconnectFails
    \/ StartPoll \/ StartPollShutdown
    \/ PrePollOk \/ PrePollFails
    \/ ReadFindsLoss \/ (\E ok \in SUBSET Metrics : ReadCompletes(ok))
    \/ Publish \/ SleepElapsed
    \/ ShutdownDuringSleep

\* The task has returned; the model stops here.
Returned == pc = "Done" /\ UNCHANGED vars

Next == Task \/ SignalShutdown \/ LinkLost \/ Returned

Spec == Init /\ [][Next]_vars

\* The runtime keeps scheduling the task and every await ends: sleeps elapse
\* and bus calls return, with whatever result.  Nothing makes the operator stop
\* the process or the link fail.
FairSpec == Spec /\ WF_vars(Task)

-----------------------------------------------------------------------------
(* Properties *)

\* Backoff and failure count stay in their ranges, and what is cached, published
\* and counted is what MetricValue and CollectorStats can hold.
TypeOK ==
    /\ pc \in PCs
    /\ session \in {"none", "live", "dead"}
    /\ initialised \in BOOLEAN
    /\ backoff \in InitialBackoff .. MaxBackoff
    /\ prePollFailures \in 0 .. 3
    /\ IsCache(localCache)
    /\ IsCache(prevCache)
    /\ errorCounts \in [Metrics -> Nat]
    /\ lastGood \in [Metrics -> Nat]
    /\ IsCache(store)
    /\ stats \in CollectorStats
    /\ shutdown \in BOOLEAN
    /\ cancel \in BOOLEAN

\* No poll cycle touches a device that init_writes has not set up on the
\* current session: initial connect, reconnect after a lost link, after three
\* pre_poll failures and after a failed init_writes all lead through it.
InitBeforePoll ==
    pc \in {"Poll", "PrePoll", "Read", "Publish", "Sleep"} =>
        initialised /\ session # "none"

\* The self-observability counters add up: a counted cycle is a success, an
\* error, still under way, or the one that shutdown cut off.
PollAccounting ==
    LET open == stats.polls_total - stats.polls_success - stats.polls_error
    IN  /\ pc \in {"PrePoll", "Read"} => open = 1
        /\ pc = "Done" => open \in {0, 1}
        /\ pc \notin {"PrePoll", "Read", "Done"} => open = 0

\* Exactly three consecutive pre_poll failures force a reconnect, and no cycle
\* starts until a connect has cleared them.
PrePollThreshold ==
    prePollFailures = 3 => pc \in {"ReconnectBackoff", "Reconnect", "Done"}

\* Outside the publishing step every metric is in the store with the value of
\* the last completed cycle that read it: partial failures keep the old value,
\* aborted cycles leave no trace, and no metric is lost.
ReadingsAreLatest ==
    pc # "Publish" =>
        \A m \in Metrics :
            IF lastGood[m] = 0
            THEN m \notin DOMAIN store
            ELSE m \in DOMAIN store /\ store[m] = Reading(lastGood[m])

\* The published error counter of a metric is exactly the number of completed
\* cycles that failed to read it.
ErrorCountersPublished ==
    pc # "Publish" =>
        \A m \in Failing :
            /\ ErrName[m] \in DOMAIN store
            /\ store[ErrName[m]] = ErrorCount(errorCounts[m])

\* The token passed to read() is cancelled only by the task itself on its way
\* out, so a running read never sees it cancelled; and a task that has
\* returned holds no connection.
CancelOnlyAtExit ==
    /\ cancel <=> pc = "Done"
    /\ pc = "Done" => shutdown /\ session = "none"

\* Whatever failing connects and init_writes lie behind it, while the collector
\* polls the next reconnect starts from the initial backoff.
BackoffFreshWhilePolling ==
    pc \in {"Poll", "PrePoll", "Read", "Publish", "Sleep"} => backoff = InitialBackoff

\* A cycle whose read ran on a dead session is not completed and published: it
\* is aborted and the collector reconnects.
LostLinkAborts == [][pc = "Read" /\ pc' = "Publish" => session # "dead"]_vars

(* The collector keeps the promise its consumers rely on. *)
Feed == INSTANCE MetricFeed WITH snapshot <- store, open <- pc # "Done"

\* Whatever the bus, the writer and the shutdown do, the sequence of snapshots
\* this collector publishes is one MetricFeed allows.
FeedRefined == Feed!Spec

\* The task always returns once shutdown is signalled, from wherever it is.
ShutdownTerminates == shutdown ~> pc = "Done"
=============================================================================
