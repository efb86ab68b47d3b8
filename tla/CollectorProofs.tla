-------------------------- MODULE CollectorProofs --------------------------
(***************************************************************************)
(* Theorems about Collector for every set of metrics, every configuration  *)
(* and every bound.  The control invariant is proved first; the data       *)
(* invariant, which needs distinct names, and the refinement of MetricFeed *)
(* rest on it.                                                             *)
(***************************************************************************)
EXTENDS Collector, FiniteSetTheorems, TLAPS

-----------------------------------------------------------------------------
(* Control *)

\* While init_writes run the reader has a session and the backoff is fresh.
InitWritesOnSession ==
    pc \in {"InitWrites", "ReconnectInit"} =>
        session # "none" /\ backoff = InitialBackoff

ControlInv ==
    /\ TypeOK
    /\ InitWritesOnSession
    /\ InitBeforePoll
    /\ PollAccounting
    /\ PrePollThreshold
    /\ CancelOnlyAtExit
    /\ BackoffFreshWhilePolling

\* NextBackoff stays between the initial and the largest backoff.
LEMMA NextBackoffInRange ==
    ASSUME backoff \in InitialBackoff .. MaxBackoff
    PROVE  NextBackoff \in InitialBackoff .. MaxBackoff
BY BoundsAssumption DEF NextBackoff

\* What is published is a cache again.
LEMMA MergedIsCache ==
    ASSUME TypeOK
    PROVE  IsCache(Merged)
<1> USE DEF TypeOK, IsCache
<1>1. DOMAIN Carried \subseteq Names /\ \A n \in DOMAIN Carried : Carried[n] \in MetricValue
    BY DEF Carried
<1>2. ASSUME NEW m \in Failing PROVE ErrName[m] \in Names
    BY DEF Failing, Names, ErrNames
<1>3. DOMAIN Merged = DOMAIN Carried \cup {ErrName[m] : m \in Failing}
    BY DEF Merged
<1>4. ASSUME NEW n, \E m \in Failing : ErrName[m] = n PROVE CountFor(n) \in MetricValue
    <2>1. (CHOOSE m \in Failing : ErrName[m] = n) \in Metrics
        BY <1>4 DEF Failing
    <2>2. QED BY <2>1 DEF CountFor, ErrorCount, MetricValue
<1>5. ASSUME NEW n \in DOMAIN Merged PROVE Merged[n] \in MetricValue
    <2>1. CASE \E m \in Failing : ErrName[m] = n
        BY <2>1, <1>3, <1>4 DEF Merged
    <2>2. CASE ~ \E m \in Failing : ErrName[m] = n
        BY <2>2, <1>1, <1>3 DEF Merged
    <2>3. QED BY <2>1, <2>2
<1>6. Merged = [n \in DOMAIN Merged |-> Merged[n]]
    BY DEF Merged
<1>7. QED BY <1>1, <1>2, <1>3, <1>5, <1>6

\* Counting a read closes one cycle and leaves counters.
LEMMA CountReadCloses ==
    ASSUME stats \in CollectorStats, NEW io \in Nat, NEW failed \in Nat, NEW success \in BOOLEAN
    PROVE  /\ CountRead(io, failed, success) \in CollectorStats
           /\ CountRead(io, failed, success).polls_total = stats.polls_total
           /\ CountRead(io, failed, success).polls_success + CountRead(io, failed, success).polls_error
                = stats.polls_success + stats.polls_error + 1
<1>1. CASE success
    BY <1>1 DEF CountRead, CollectorStats
<1>2. CASE ~success
    BY <1>2 DEF CountRead, CollectorStats
<1>3. QED BY <1>1, <1>2

\* The task starts with everything in order.
LEMMA ControlInit == Init => ControlInv
<1> SUFFICES ASSUME Init PROVE ControlInv
    OBVIOUS
<1>1. IsCache(localCache) /\ IsCache(prevCache) /\ IsCache(store)
    BY DEF Init, IsCache, EmptyCache, Reading, MetricValue, Names
<1>2. stats \in CollectorStats
    BY DEF Init, CollectorStats
<1>3. backoff \in InitialBackoff .. MaxBackoff
    BY BoundsAssumption DEF Init
<1>4. errorCounts \in [Metrics -> Nat] /\ lastGood \in [Metrics -> Nat]
    BY DEF Init
<1>5. /\ pc \in PCs
      /\ session \in {"none", "live", "dead"}
      /\ prePollFailures \in 0 .. 3
    BY DEF Init, PCs
<1>6. initialised \in BOOLEAN /\ shutdown \in BOOLEAN /\ cancel \in BOOLEAN
    BY Zenon DEF Init
<1>7. TypeOK
    BY <1>1, <1>2, <1>3, <1>4, <1>5, <1>6 DEF TypeOK
<1>8. QED
    BY <1>7 DEF Init, ControlInv, InitWritesOnSession, InitBeforePoll, PollAccounting,
        PrePollThreshold, CancelOnlyAtExit, BackoffFreshWhilePolling

\* Each of its steps keeps the control invariant.
LEMMA ControlStep == ControlInv /\ [Next]_vars => ControlInv'
<1> SUFFICES ASSUME ControlInv, [Next]_vars PROVE ControlInv'
    OBVIOUS
<1> USE DEF ControlInv, TypeOK, InitWritesOnSession, InitBeforePoll, PollAccounting, PrePollThreshold,
        CancelOnlyAtExit, BackoffFreshWhilePolling, PCs, CollectorStats, vars, taskVars, dataVars
<1>1. CASE SignalShutdown
    BY <1>1 DEF SignalShutdown
<1>2. CASE LinkLost
    BY <1>2 DEF LinkLost
<1>3. CASE ShutdownDuringSleep
    BY <1>3 DEF ShutdownDuringSleep, Exit
<1>4. CASE ConnectOk
    <2>1. pc' = AfterConnect("InitWrites") /\ session' = "live" /\ backoff' = InitialBackoff
        BY <1>4 DEF ConnectOk, Connected, BackoffAfterConnect
    <2>2. initialised' = ~HasInitWrites /\ initialised' \in BOOLEAN
        BY <1>4, ConfigAssumption DEF ConnectOk, Connected
    <2>3. CASE HasInitWrites
        BY <1>4, <2>1, <2>2, <2>3, BoundsAssumption DEF ConnectOk, Connected, AfterConnect
    <2>4. CASE ~HasInitWrites
        <3>1. initialised' /\ pc' = "Poll"
            BY <2>1, <2>2, <2>4 DEF AfterConnect
        <3>2. QED
            BY <1>4, <2>1, <2>2, <3>1, BoundsAssumption DEF ConnectOk, Connected
    <2>5. QED BY <2>3, <2>4
<1>5. CASE ConnectFails
    BY <1>5 DEF ConnectFails
<1>6. CASE InitWritesOk
    BY <1>6 DEF InitWritesOk
<1>7. CASE InitWritesFail
    BY <1>7 DEF InitWritesFail
<1>8. CASE BackoffElapsed
    BY <1>8, NextBackoffInRange DEF BackoffElapsed
<1>9. CASE ReconnectOk
    <2>1. pc' = AfterConnect("ReconnectInit") /\ session' = "live" /\ backoff' = InitialBackoff
        BY <1>9 DEF ReconnectOk, Connected, BackoffAfterConnect
    <2>2. initialised' = ~HasInitWrites /\ initialised' \in BOOLEAN
        BY <1>9, ConfigAssumption DEF ReconnectOk, Connected
    <2>3. CASE HasInitWrites
        BY <1>9, <2>1, <2>2, <2>3, BoundsAssumption DEF ReconnectOk, Connected, AfterConnect
    <2>4. CASE ~HasInitWrites
        <3>1. initialised' /\ pc' = "Poll"
            BY <2>1, <2>2, <2>4 DEF AfterConnect
        <3>2. QED
            BY <1>9, <2>1, <2>2, <3>1, BoundsAssumption DEF ReconnectOk, Connected
    <2>5. QED BY <2>3, <2>4
<1>10. CASE ReconnectFails
    BY <1>10 DEF ReconnectFails, EnterReconnect
<1>11. CASE StartPoll
    BY <1>11 DEF StartPoll, StopRequested
<1>12. CASE StartPollShutdown
    BY <1>12 DEF StartPollShutdown, StopRequested, Exit
<1>13. CASE PrePollOk
    BY <1>13 DEF PrePollOk
<1>14. CASE PrePollFails
    BY <1>14 DEF PrePollFails, PrePollGivesUp, CountSkipped, EnterReconnect
<1>15. CASE ReadFindsLoss
    <2>1. PICK io \in IoCounts : stats' = CountRead(io, 1, FALSE)
        BY <1>15 DEF ReadFindsLoss
    <2>2. io \in Nat
        BY ConfigAssumption
    <2>3. /\ stats' \in CollectorStats
          /\ stats'.polls_total = stats.polls_total
          /\ stats'.polls_success + stats'.polls_error = stats.polls_success + stats.polls_error + 1
        BY <2>1, <2>2, CountReadCloses
    <2>4. pc = "Read" /\ pc' = "ReconnectBackoff" /\ session' = "none"
        BY <1>15 DEF ReadFindsLoss, EnterReconnect
    <2>5. /\ UNCHANGED <<initialised, backoff, prePollFailures, shutdown, cancel>>
          /\ UNCHANGED dataVars
        BY <1>15 DEF ReadFindsLoss
    <2>6. QED BY <2>3, <2>4, <2>5
<1>16. CASE Publish
    <2>1. IsCache(store') /\ IsCache(prevCache')
        BY <1>16, MergedIsCache DEF Publish
    <2>2. IsCache(localCache')
        BY <1>16 DEF Publish, EmptyCache, IsCache
    <2>3. \/ pc' \in {"Sleep", "Poll"} /\ UNCHANGED <<session, cancel>>
          \/ shutdown /\ Exit
        BY <1>16 DEF Publish, StopRequested
    <2>4. /\ pc = "Publish"
          /\ UNCHANGED <<initialised, backoff, prePollFailures, errorCounts, lastGood, stats, shutdown>>
        BY <1>16 DEF Publish
    <2>5. CASE pc' \in {"Sleep", "Poll"} /\ UNCHANGED <<session, cancel>>
        BY <2>1, <2>2, <2>4, <2>5
    <2>6. CASE shutdown /\ Exit
        BY <2>1, <2>2, <2>4, <2>6 DEF Exit
    <2>7. QED BY <2>3, <2>5, <2>6
<1>17. CASE SleepElapsed
    BY <1>17 DEF SleepElapsed
<1>20. CASE UNCHANGED vars
    BY <1>20
<1>21. ASSUME NEW ok \in SUBSET Metrics, ReadCompletes(ok) PROVE ControlInv'
    <2>1. Cardinality(Metrics \ ok) \in Nat
        BY ErrNameAssumption, FS_Subset, FS_CardinalityType
    <2>2. IsCache(localCache')
        BY <1>21 DEF ReadCompletes, IsCache, Reading, MetricValue, Names
    <2>3. PICK io \in IoCounts : stats' = CountRead(io, Cardinality(Metrics \ ok), ok = Metrics)
        BY <1>21 DEF ReadCompletes
    <2>a. io \in Nat /\ (ok = Metrics) \in BOOLEAN
        BY ConfigAssumption
    <2>4. /\ stats' \in CollectorStats
          /\ stats'.polls_total = stats.polls_total
          /\ stats'.polls_success + stats'.polls_error = stats.polls_success + stats.polls_error + 1
        BY <2>1, <2>3, <2>a, CountReadCloses
    <2>5. errorCounts' \in [Metrics -> Nat] /\ lastGood' \in [Metrics -> Nat]
        BY <1>21 DEF ReadCompletes
    <2>6. QED BY <1>21, <2>2, <2>4, <2>5, BoundsAssumption DEF ReadCompletes
<1>22. QED
    BY <1>1, <1>2, <1>3, <1>4, <1>5, <1>6, <1>7, <1>8, <1>9, <1>10, <1>11, <1>12, <1>13, <1>14, <1>15, <1>16, <1>17, <1>20, <1>21 DEF Next, Task, Returned

\* The control invariant holds in every reachable state.
THEOREM ControlCorrect == Spec => []ControlInv
BY ControlInit, ControlStep, PTL DEF Spec

\* Type correctness.
THEOREM TypeCorrect == Spec => []TypeOK
BY ControlCorrect, PTL DEF ControlInv

\* No cycle runs on a device that init_writes has not set up.
THEOREM InitBeforePollHolds == Spec => []InitBeforePoll
BY ControlCorrect, PTL DEF ControlInv

\* Every counted cycle is a success, an error, under way or cut off by shutdown.
THEOREM PollAccountingHolds == Spec => []PollAccounting
BY ControlCorrect, PTL DEF ControlInv

\* Three pre_poll failures in a row always end in a reconnect.
THEOREM PrePollThresholdHolds == Spec => []PrePollThreshold
BY ControlCorrect, PTL DEF ControlInv

\* read() never sees its token cancelled, and an exit disconnects the reader.
THEOREM CancelOnlyAtExitHolds == Spec => []CancelOnlyAtExit
BY ControlCorrect, PTL DEF ControlInv

\* Whatever failing connects and init_writes lie behind it, while the collector
\* polls the next reconnect starts from the initial backoff.
THEOREM BackoffFreshHolds == Spec => []BackoffFreshWhilePolling
BY ControlCorrect, PTL DEF ControlInv

-----------------------------------------------------------------------------
(* Data, for configurations whose names do not collide *)

\* The store has the metric with its latest good value, or not at all.
Stored(m) ==
    IF lastGood[m] = 0
    THEN m \notin DOMAIN store
    ELSE m \in DOMAIN store /\ store[m] = Reading(lastGood[m])

\* Before the merge, this cycle's readings are in local_cache and nowhere else.
LocalReadings ==
    /\ DOMAIN localCache \subseteq Metrics
    /\ pc = "Publish" =>
          \A m \in Metrics :
              IF m \in DOMAIN localCache
              THEN lastGood[m] > 0 /\ localCache[m] = Reading(lastGood[m])
              ELSE Stored(m)

\* Nothing in the store is newer than what was read or counted.
StoreNotAhead ==
    \A m \in Metrics :
        /\ lastGood[m] <= stats.polls_total
        /\ m \in DOMAIN store =>
               store[m].src = "device" /\ store[m].n <= lastGood[m]
        /\ ErrName[m] \in DOMAIN store =>
               store[ErrName[m]].src = "errors" /\ store[ErrName[m]].n <= errorCounts[m]

DataInv ==
    /\ prevCache = store
    /\ LocalReadings
    /\ StoreNotAhead
    /\ ReadingsAreLatest
    /\ ErrorCountersPublished

\* The merge does not touch a metric's own value.
LEMMA MergedReading ==
    ASSUME NoCollision, NEW m \in Metrics
    PROVE  /\ m \in DOMAIN Merged <=> m \in DOMAIN localCache \cup DOMAIN prevCache
           /\ m \in DOMAIN localCache => Merged[m] = localCache[m]
           /\ m \notin DOMAIN localCache /\ m \in DOMAIN prevCache => Merged[m] = prevCache[m]
<1>1. ~ \E k \in Failing : ErrName[k] = m
    BY DEF NoCollision, ErrNames, Failing
<1>2. DOMAIN Carried = DOMAIN localCache \cup DOMAIN prevCache
    BY DEF Carried
<1>3. DOMAIN Merged = DOMAIN Carried \cup {ErrName[k] : k \in Failing}
    BY DEF Merged
<1>4. m \in DOMAIN Carried => Merged[m] = Carried[m]
    BY <1>1, <1>3 DEF Merged
<1>5. QED BY <1>1, <1>2, <1>3, <1>4 DEF Carried

\* The merge publishes the count of every failing metric under its own name.
LEMMA MergedCount ==
    ASSUME NEW m \in Failing
    PROVE  /\ ErrName[m] \in DOMAIN Merged
           /\ Merged[ErrName[m]] = ErrorCount(errorCounts[m])
<1>1. ErrName[m] \in DOMAIN Merged
    BY DEF Merged
<1>2. (CHOOSE k \in Failing : ErrName[k] = ErrName[m]) = m
    BY ErrNameAssumption DEF Failing
<1>3. Merged[ErrName[m]] = CountFor(ErrName[m])
    BY <1>1 DEF Merged
<1>4. QED BY <1>1, <1>2, <1>3 DEF CountFor

\* ... and carries the counter names of the others.
LEMMA MergedNoCount ==
    ASSUME NoCollision, DOMAIN localCache \subseteq Metrics,
           NEW m \in Metrics, m \notin Failing
    PROVE  /\ ErrName[m] \in DOMAIN Merged <=> ErrName[m] \in DOMAIN prevCache
           /\ ErrName[m] \in DOMAIN prevCache => Merged[ErrName[m]] = prevCache[ErrName[m]]
<1>1. ~ \E k \in Failing : ErrName[k] = ErrName[m]
    BY ErrNameAssumption DEF Failing
<1>2. ErrName[m] \notin DOMAIN localCache
    BY DEF NoCollision, ErrNames
<1>3. DOMAIN Carried = DOMAIN localCache \cup DOMAIN prevCache
    BY DEF Carried
<1>4. DOMAIN Merged = DOMAIN Carried \cup {ErrName[k] : k \in Failing}
    BY DEF Merged
<1>5. ErrName[m] \in DOMAIN Carried => Merged[ErrName[m]] = Carried[ErrName[m]]
    BY <1>1, <1>4 DEF Merged
<1>6. QED BY <1>1, <1>2, <1>3, <1>4, <1>5 DEF Carried

\* With nothing read yet the caches agree.
LEMMA DataInit == Init => DataInv
BY DEF Init, DataInv, LocalReadings, StoreNotAhead, ReadingsAreLatest,
       ErrorCountersPublished, EmptyCache, Failing

\* A step that leaves the data alone, outside the publishing step, keeps DataInv.
LEMMA QuietStep ==
    ASSUME ControlInv, ControlInv', DataInv, UNCHANGED dataVars,
           \/ pc # "Publish" /\ pc' # "Publish"
           \/ pc' = pc,
           stats'.polls_total >= stats.polls_total
    PROVE  DataInv'
<1> USE DEF dataVars
<1>1. LocalReadings'
    BY DEF DataInv, LocalReadings, Stored
<1>2. StoreNotAhead'
    BY DEF DataInv, StoreNotAhead, ControlInv, TypeOK, CollectorStats
<1>3. ReadingsAreLatest'
    BY DEF DataInv, ReadingsAreLatest
<1>4. ErrorCountersPublished'
    BY DEF DataInv, ErrorCountersPublished, Failing
<1>5. QED BY <1>1, <1>2, <1>3, <1>4 DEF DataInv

\* A completed read fills local_cache with readings of the current cycle.
LEMMA ReadCompletesData ==
    ASSUME ControlInv, DataInv, NEW ok \in SUBSET Metrics, ReadCompletes(ok)
    PROVE  DataInv'
<1> USE DEF ControlInv, TypeOK, CollectorStats
<1>1. /\ localCache' = [m \in ok |-> Reading(stats.polls_total)]
      /\ errorCounts' = [m \in Metrics |-> IF m \in ok THEN errorCounts[m] ELSE errorCounts[m] + 1]
      /\ lastGood' = [m \in Metrics |-> IF m \in ok THEN stats.polls_total ELSE lastGood[m]]
      /\ UNCHANGED <<prevCache, store>>
      /\ pc = "Read" /\ pc' = "Publish"
    BY DEF ReadCompletes
<1>2. stats'.polls_total = stats.polls_total
    BY DEF ReadCompletes, CountRead
<1>3. stats.polls_total > 0
    BY <1>1 DEF PollAccounting
<1>4. LocalReadings'
    BY <1>1, <1>3 DEF DataInv, LocalReadings, Stored, ReadingsAreLatest
<1>5. StoreNotAhead'
    <2> SUFFICES ASSUME NEW m \in Metrics
                 PROVE  /\ lastGood'[m] <= stats.polls_total /\ lastGood'[m] >= lastGood[m]
                        /\ errorCounts'[m] >= errorCounts[m]
                        /\ lastGood'[m] \in Nat /\ errorCounts'[m] \in Nat
        BY <1>1, <1>2 DEF DataInv, StoreNotAhead, IsCache, MetricValue
    <2>1. lastGood[m] <= stats.polls_total /\ lastGood[m] \in Nat /\ errorCounts[m] \in Nat
        BY DEF DataInv, StoreNotAhead
    <2>2. QED BY <1>1, <2>1
<1>6. QED BY <1>1, <1>4, <1>5 DEF DataInv, ReadingsAreLatest, ErrorCountersPublished

\* Merging a cycle into the caches and publishing it makes them agree again.
LEMMA PublishData ==
    ASSUME NoCollision, ControlInv, DataInv, Publish
    PROVE  DataInv'
<1> USE DEF ControlInv, TypeOK, CollectorStats
<1>1. /\ store' = Merged /\ prevCache' = Merged /\ localCache' = EmptyCache
      /\ UNCHANGED <<errorCounts, lastGood, stats>>
      /\ pc = "Publish" /\ pc' # "Publish"
    BY DEF Publish, Exit
<1>2. ASSUME NEW m \in Metrics PROVE Stored(m)'
    <2>1. IF m \in DOMAIN localCache
          THEN lastGood[m] > 0 /\ localCache[m] = Reading(lastGood[m])
          ELSE Stored(m)
        BY <1>1 DEF DataInv, LocalReadings
    <2>2. CASE m \in DOMAIN localCache
        BY <1>1, <2>1, <2>2, MergedReading DEF Stored
    <2>3. CASE m \notin DOMAIN localCache
        BY <1>1, <2>1, <2>3, MergedReading DEF Stored, DataInv
    <2>4. QED BY <2>2, <2>3
<1>3. LocalReadings'
    BY <1>1 DEF LocalReadings, EmptyCache
<1>4. ASSUME NEW m \in Metrics, ErrName[m] \in DOMAIN Merged
      PROVE  Merged[ErrName[m]].src = "errors" /\ Merged[ErrName[m]].n <= errorCounts[m]
    <2>1. CASE m \in Failing
        <3>1. Merged[ErrName[m]] = ErrorCount(errorCounts[m])
            BY <2>1, MergedCount
        <3>2. errorCounts[m] \in Nat
            OBVIOUS
        <3>3. QED BY <3>1, <3>2 DEF ErrorCount
    <2>2. CASE m \notin Failing
        BY <1>4, <2>2, MergedNoCount DEF DataInv, StoreNotAhead, LocalReadings
    <2>3. QED BY <2>1, <2>2
<1>5. ASSUME NEW m \in Metrics, m \in DOMAIN Merged
      PROVE  Merged[m].src = "device" /\ Merged[m].n <= lastGood[m]
    <2>1. Stored(m)'
        BY <1>2
    <2>2. Merged[m] = Reading(lastGood[m])
        BY <1>1, <1>5, <2>1 DEF Stored
    <2>3. lastGood[m] \in Nat
        OBVIOUS
    <2>4. QED BY <2>2, <2>3 DEF Reading
<1>6. StoreNotAhead'
    BY <1>1, <1>4, <1>5 DEF DataInv, StoreNotAhead
<1>7. ReadingsAreLatest'
    BY <1>2 DEF Stored, ReadingsAreLatest
<1>8. ErrorCountersPublished'
    BY <1>1, MergedCount DEF ErrorCountersPublished, Failing
<1>9. QED BY <1>1, <1>3, <1>6, <1>7, <1>8 DEF DataInv

\* Each step keeps the data invariant.
LEMMA DataStep ==
    ASSUME NoCollision
    PROVE  ControlInv /\ DataInv /\ [Next]_vars => DataInv'
<1> SUFFICES ASSUME ControlInv, DataInv, [Next]_vars PROVE DataInv'
    OBVIOUS
<1>1. ControlInv'
    BY ControlStep
<1>2. CASE Publish
    BY <1>2, PublishData
<1>3. ASSUME NEW ok \in SUBSET Metrics, ReadCompletes(ok) PROVE DataInv'
    BY <1>3, ReadCompletesData
<1>4. stats.polls_total \in Nat
    BY DEF ControlInv, TypeOK, CollectorStats
<1>5. CASE SignalShutdown \/ LinkLost \/ UNCHANGED vars
    BY <1>1, <1>4, <1>5, QuietStep DEF SignalShutdown, LinkLost, vars, taskVars, dataVars
<1>6. CASE StartPoll \/ StartPollShutdown
    <2>1. stats'.polls_total = stats.polls_total + 1
        BY <1>6 DEF StartPoll, StartPollShutdown, ControlInv, TypeOK, CollectorStats
    <2>2. UNCHANGED dataVars /\ pc # "Publish" /\ pc' # "Publish"
        BY <1>6 DEF StartPoll, StartPollShutdown, Exit
    <2>3. QED BY <1>1, <1>4, <2>1, <2>2, QuietStep
<1>7. CASE PrePollFails \/ ReadFindsLoss
    <2>1. stats'.polls_total = stats.polls_total
        <3>1. CASE PrePollFails
            BY <3>1 DEF PrePollFails, CountSkipped, ControlInv, TypeOK, CollectorStats
        <3>2. CASE ReadFindsLoss
            BY <3>2 DEF ReadFindsLoss, CountRead, ControlInv, TypeOK, CollectorStats
        <3>3. QED BY <1>7, <3>1, <3>2
    <2>2. UNCHANGED dataVars /\ pc # "Publish" /\ pc' # "Publish"
        BY <1>7 DEF PrePollFails, ReadFindsLoss, EnterReconnect
    <2>3. QED BY <1>1, <1>4, <2>1, <2>2, QuietStep
<1>8. CASE \/ ConnectOk \/ ConnectFails \/ InitWritesOk \/ InitWritesFail \/ BackoffElapsed
           \/ ReconnectOk \/ ReconnectFails \/ PrePollOk \/ SleepElapsed \/ ShutdownDuringSleep
    <2>1. UNCHANGED dataVars /\ UNCHANGED stats /\ pc # "Publish" /\ pc' # "Publish"
        BY <1>8 DEF ConnectOk, ConnectFails, InitWritesOk, InitWritesFail, BackoffElapsed,
            ReconnectOk, ReconnectFails, PrePollOk, SleepElapsed, ShutdownDuringSleep,
            Connected, AfterConnect, EnterReconnect, Exit
    <2>2. QED BY <1>1, <1>4, <2>1, QuietStep
<1>9. QED BY <1>2, <1>3, <1>5, <1>6, <1>7, <1>8 DEF Next, Task, Returned

\* The data invariant holds in every reachable state.
THEOREM DataCorrect ==
    ASSUME NoCollision
    PROVE  Spec => []DataInv
<1>1. ControlInv /\ DataInv /\ [Next]_vars => DataInv'
    BY DataStep
<1>2. QED BY <1>1, DataInit, ControlCorrect, PTL DEF Spec

\* Every metric is published with the value of the last completed cycle that read it.
THEOREM ReadingsAreLatestHolds ==
    ASSUME NoCollision
    PROVE  Spec => []ReadingsAreLatest
BY DataCorrect, PTL DEF DataInv

\* Every error counter is published with the number of failed reads.
THEOREM ErrorCountersPublishedHolds ==
    ASSUME NoCollision
    PROVE  Spec => []ErrorCountersPublished
BY DataCorrect, PTL DEF DataInv

-----------------------------------------------------------------------------
(* Refinement of MetricFeed *)

\* The merge says nothing older than the store about any name in it.
LEMMA MergedAdvances ==
    ASSUME NoCollision, ControlInv, DataInv, pc = "Publish"
    PROVE  Feed!Advances(store, Merged)
<1> SUFFICES ASSUME NEW n \in DOMAIN store
             PROVE  n \in DOMAIN Merged /\ Merged[n].src = store[n].src /\ Merged[n].n >= store[n].n
    BY DEF Feed!Advances
<1>1. store[n] \in MetricValue /\ n \in Names
    BY DEF ControlInv, TypeOK, IsCache
<1>2. prevCache = store /\ DOMAIN localCache \subseteq Metrics
    BY DEF DataInv, LocalReadings
<1>3. CASE n \in Metrics
    <2>1. n \in DOMAIN Merged
        BY <1>2, <1>3, MergedReading
    <2>2. CASE n \in DOMAIN localCache
        <3>1. Merged[n] = Reading(lastGood[n])
            BY <1>3, <2>2, MergedReading DEF DataInv, LocalReadings
        <3>2. store[n].src = "device" /\ store[n].n <= lastGood[n]
            BY <1>3 DEF DataInv, StoreNotAhead
        <3>3. lastGood[n] \in Nat
            BY <1>3 DEF ControlInv, TypeOK
        <3>4. QED BY <1>1, <2>1, <3>1, <3>2, <3>3 DEF Reading, MetricValue
    <2>3. CASE n \notin DOMAIN localCache
        BY <1>1, <1>2, <1>3, <2>1, <2>3, MergedReading DEF MetricValue
    <2>4. QED BY <2>2, <2>3
<1>4. ASSUME NEW m \in Metrics, n = ErrName[m]
      PROVE  n \in DOMAIN Merged /\ Merged[n].src = store[n].src /\ Merged[n].n >= store[n].n
    <2>1. store[n].src = "errors" /\ store[n].n <= errorCounts[m] /\ errorCounts[m] \in Nat
        BY <1>4 DEF DataInv, StoreNotAhead, ControlInv, TypeOK
    <2>2. CASE m \in Failing
        <3>1. n \in DOMAIN Merged /\ Merged[n] = ErrorCount(errorCounts[m])
            BY <1>4, <2>2, MergedCount
        <3>2. QED BY <1>1, <2>1, <3>1 DEF ErrorCount, MetricValue
    <2>3. CASE m \notin Failing
        <3>1. ErrName[m] \in DOMAIN prevCache /\ prevCache[ErrName[m]] = store[n]
            BY <1>2, <1>4
        <3>2. ErrName[m] \in DOMAIN Merged /\ Merged[ErrName[m]] = prevCache[ErrName[m]]
            BY <1>2, <2>3, <3>1, MergedNoCount
        <3>3. QED BY <1>1, <1>4, <3>1, <3>2 DEF MetricValue
    <2>4. QED BY <2>2, <2>3
<1>5. QED BY <1>1, <1>3, <1>4 DEF Names, ErrNames

\* Every step of the task is a step of the feed or leaves it alone.
LEMMA FeedStep ==
    ASSUME NoCollision
    PROVE  ControlInv /\ DataInv /\ [Next]_vars => [Feed!Next]_(Feed!vars)
<1> SUFFICES ASSUME ControlInv, DataInv, [Next]_vars PROVE [Feed!Next]_(Feed!vars)
    OBVIOUS
<1> USE DEF Feed!Next, Feed!vars
<1>1. CASE Publish
    <2>1. store' = Merged /\ pc = "Publish"
        BY <1>1 DEF Publish
    <2>2. Feed!Advances(store, store')
        BY <2>1, MergedAdvances
    <2>3. QED BY <2>1, <2>2 DEF Feed!Replace
<1>2. CASE Returned \/ UNCHANGED vars
    BY <1>2 DEF Returned, vars, taskVars, dataVars
<1>3. CASE ~Publish /\ ~Returned /\ Next
    <2>1. UNCHANGED store /\ (pc = "Done" => pc' = "Done")
        <3>1. ASSUME NEW ok \in SUBSET Metrics, ReadCompletes(ok)
              PROVE  UNCHANGED store /\ (pc = "Done" => pc' = "Done")
            BY <3>1 DEF ReadCompletes
        <3>2. QED
            BY <1>3, <3>1 DEF Next, Task, SignalShutdown, LinkLost, ConnectOk, ConnectFails,
                InitWritesOk, InitWritesFail, BackoffElapsed, ReconnectOk, ReconnectFails, StartPoll,
                StartPollShutdown, PrePollOk, PrePollFails, ReadFindsLoss, SleepElapsed,
                ShutdownDuringSleep, Connected, EnterReconnect, Exit, dataVars, taskVars
    <2>2. QED BY <2>1 DEF Feed!Close
<1>4. QED BY <1>1, <1>2, <1>3

\* The collector implements the feed its consumers rely on.
THEOREM FeedRefinement ==
    ASSUME NoCollision
    PROVE  Spec => FeedRefined
<1>1. Init => Feed!Init
    BY DEF Init, Feed!Init, EmptyCache
<1>2. ControlInv /\ DataInv /\ [Next]_vars => [Feed!Next]_(Feed!vars)
    BY FeedStep
<1>3. QED BY <1>1, <1>2, ControlCorrect, DataCorrect, PTL DEF Spec, FeedRefined, Feed!Spec
=============================================================================
