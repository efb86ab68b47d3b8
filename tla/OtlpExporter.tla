---------------------------- MODULE OtlpExporter ----------------------------
(***************************************************************************)
(* run (src/exporter/otlp/mod.rs) on top of MetricStore: the push loop,    *)
(* the observable instruments it registers, the shared values their        *)
(* callbacks read, and the SDK's PeriodicReader thread.  The loop is at    *)
(* one of these points:                                                    *)
(*                                                                         *)
(*   Start      about to build the meter provider                          *)
(*   Select     in the select! between cancel and the tick                 *)
(*   Scan       in store.all_metrics_flat()                                *)
(*   Register   about to register instruments for new names                *)
(*   Share      about to replace the shared values                         *)
(*   Shutdown   in provider.shutdown()                                     *)
(*   Returned   run has returned                                           *)
(*                                                                         *)
(* The SDK is external: it collects on a schedule of its own, one callback *)
(* after the other, each under its own read lock, sends the batch or fails *)
(* to, and on shutdown collects and sends once more before it stops.  The  *)
(* counters of the exporter itself and their second meter are left out.    *)
(***************************************************************************)
EXTENDS MetricStore

VARIABLES
    pc,           \* where the loop is
    final,        \* the cancel was seen: this is the final update
    todo,         \* shards the running scan has not read
    metrics,      \* what the running or last scan has read
    registered,   \* names that have an instrument
    shared,       \* the values the callbacks read
    sdk,          \* "idle", "collecting", "sending" or "stopped"
    callbacks,    \* instruments the running collection has not called
    batch,        \* what the running collection has observed
    exported,     \* the last batch the receiver got
    cancel,       \* the exporters' CancellationToken
    atCancel,     \* history: the whole store when the token was cancelled
    flushed       \* history: the batch collected on shutdown was sent

loopVars == <<pc, final, todo, metrics, registered, shared>>
sdkVars == <<sdk, callbacks, batch, exported, flushed>>
otlpVars == <<loopVars, sdkVars, cancel, atCancel>>
vars == <<storeVars, otlpVars>>

OtlpInit ==
    /\ pc = "Start"
    /\ final = FALSE
    /\ todo = {}
    /\ metrics = NothingRead
    /\ registered = {}
    /\ shared = NothingRead
    /\ sdk = "stopped"
    /\ callbacks = {}
    /\ batch = NothingRead
    /\ exported = NothingRead
    /\ cancel = FALSE
    /\ atCancel = NothingRead
    /\ flushed = FALSE

Init == StoreInit /\ OtlpInit

-----------------------------------------------------------------------------
(* The push loop *)

\* The provider is built and its thread runs; or there is no endpoint or no
\* provider, and the exporter is gone for good while the daemon goes on.
Setup ==
    /\ pc = "Start"
    /\ \/ pc' = "Select" /\ sdk' = "idle"
       \/ pc' = "Returned" /\ UNCHANGED sdk
    /\ UNCHANGED <<storeVars, final, todo, metrics, registered, shared, callbacks,
                   batch, exported, flushed, cancel, atCancel>>

\* One branch of the select! began an update, the cancelled one the last.
BeginUpdate(isFinal) ==
    /\ pc = "Select"
    /\ pc' = "Scan"
    /\ final' = isFinal
    /\ todo' = Shards
    /\ metrics' = NothingRead
    /\ UNCHANGED <<storeVars, registered, shared, sdkVars, cancel, atCancel>>

\* When both branches are ready the choice between them is random.
Tick == BeginUpdate(FALSE)

Cancelled == cancel

SeeCancel == Cancelled /\ BeginUpdate(TRUE)

\* Mutant of Scanned: the final update takes what the last tick has shared.
ScannedBeforeFinal(shard) == IF final THEN shared ELSE VisitShard(metrics, shard)

Scanned(shard) == VisitShard(metrics, shard)

ScanShard ==
    /\ pc = "Scan"
    /\ LET shard == NextShard(todo) IN
          /\ metrics' = Scanned(shard)
          /\ todo' = todo \ {shard}
    /\ pc' = IF todo' = {} THEN "Register" ELSE "Scan"
    /\ UNCHANGED <<storeVars, final, registered, shared, sdkVars, cancel, atCancel>>

\* Mutant of NewlyNamed: the names are taken from what is shared already.
NewlyNamedLate == {key[2] : key \in DOMAIN shared}

\* Names the scan has seen; an instrument serves every collector's metric of
\* its name.
NewlyNamed == {key[2] : key \in DOMAIN metrics}

Register ==
    /\ pc = "Register"
    /\ registered' = registered \cup NewlyNamed
    /\ pc' = "Share"
    /\ UNCHANGED <<storeVars, final, todo, metrics, shared, sdkVars, cancel, atCancel>>

\* *guard = metrics, under the write lock.
Share ==
    /\ pc = "Share"
    /\ shared' = metrics
    /\ pc' = IF final THEN "Shutdown" ELSE "Select"
    /\ UNCHANGED <<storeVars, final, todo, metrics, registered, sdkVars, cancel, atCancel>>

\* provider.shutdown() returns when the SDK's thread has stopped, or gives up
\* on it with an error that is only logged.
ShutdownReturns ==
    /\ pc = "Shutdown"
    /\ pc' = "Returned"
    /\ UNCHANGED <<storeVars, final, todo, metrics, registered, shared, sdkVars,
                   cancel, atCancel>>

-----------------------------------------------------------------------------
(* The SDK's thread *)

\* The interval is over, or, for the last time, the provider is shut down.
BeginCollect ==
    /\ sdk = "idle"
    /\ \/ sdk' = "collecting"
       \/ pc \in {"Shutdown", "Returned"} /\ sdk' = "flushing"
    /\ callbacks' = registered
    /\ batch' = NothingRead
    /\ UNCHANGED <<storeVars, loopVars, exported, flushed, cancel, atCancel>>

\* Mutant of Observed: a name's callback reports one collector's value only.
ObservedOne(name) ==
    LET keys == {key \in DOMAIN shared : key[2] = name}
    IN  IF keys = {} THEN {}
        ELSE {CHOOSE key \in keys : \A k \in keys : shared[k].n <= shared[key].n}

\* The callback observes every shared value that has the instrument's name.
Observed(name) == {key \in DOMAIN shared : key[2] = name}

Callback(name) ==
    /\ sdk \in {"collecting", "flushing"}
    /\ name \in callbacks
    /\ callbacks' = callbacks \ {name}
    /\ batch' = [key \in DOMAIN batch \cup Observed(name) |->
                    IF key \in DOMAIN batch THEN batch[key] ELSE shared[key]]
    /\ UNCHANGED <<storeVars, loopVars, sdk, exported, flushed, cancel, atCancel>>

\* Sent or not, the batch is gone: values are absolute, so the next collection
\* makes up for it, except after the last one.
EndCollect ==
    /\ sdk \in {"collecting", "flushing"}
    /\ callbacks = {}
    /\ \E sent \in BOOLEAN :
          /\ exported' = IF sent THEN batch ELSE exported
          /\ flushed' = (sent /\ sdk = "flushing")
    /\ sdk' = IF sdk = "flushing" THEN "stopped" ELSE "idle"
    /\ batch' = NothingRead
    /\ UNCHANGED <<storeVars, loopVars, callbacks, cancel, atCancel>>

-----------------------------------------------------------------------------
(* Environment *)

Collect(c) ==
    /\ \E ok \in SUBSET Names \ {{}} : Publish(c, ok)
    /\ UNCHANGED otlpVars

\* run_command cancels the exporters.
Cancel ==
    /\ ~cancel
    /\ cancel' = TRUE
    /\ atCancel' = Everything
    /\ UNCHANGED <<storeVars, loopVars, sdkVars>>

Loop == Setup \/ Tick \/ SeeCancel \/ ScanShard \/ Register \/ Share \/ ShutdownReturns

Sdk == BeginCollect \/ (\E name \in Names : Callback(name)) \/ EndCollect

Next ==
    \/ Loop
    \/ Sdk
    \/ \E c \in Collectors : Collect(c)
    \/ Cancel

Spec == Init /\ [][Next]_vars

-----------------------------------------------------------------------------
(* Properties *)

OtlpTypeOK ==
    /\ pc \in {"Start", "Select", "Scan", "Register", "Share", "Shutdown", "Returned"}
    /\ final \in BOOLEAN
    /\ todo \in SUBSET Shards
    /\ {metrics, shared, batch, exported, atCancel} \subseteq Readings
    /\ registered \in SUBSET Names
    /\ sdk \in {"idle", "collecting", "flushing", "stopped"}
    /\ callbacks \in SUBSET Names
    /\ cancel \in BOOLEAN /\ flushed \in BOOLEAN

\* The store, the values shared and exported, and the loop have their types.
TypeOK == StoreTypeOK /\ OtlpTypeOK

\* Whatever is shared has an instrument whose callback will observe it, also
\* when its name first appeared long after the exporter started.
SharedHaveInstruments == {key[2] : key \in DOMAIN shared} \subseteq registered

\* What the receiver is sent never goes back: no metric of an earlier batch is
\* missing from a later one or older in it, though registering, sharing and
\* collecting interleave and each callback reads the shared values on its own.
ExportsAdvance == [][NotOlder(exported, exported')]_vars

\* When the final batch got through, the receiver has every value the store had
\* when the exporters were cancelled, or a newer one.
FinalFlushComplete == flushed => NotOlder(atCancel, exported)
=============================================================================
