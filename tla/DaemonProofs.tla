---------------------------- MODULE DaemonProofs ----------------------------
(***************************************************************************)
(* Theorems about the OTLP exporter and the daemon around it, for any      *)
(* collectors, names, shards and bounds.  The invariant follows a value on *)
(* its way: the store is never behind a scan, a scan never behind what is  *)
(* shared, what is shared never behind a batch, and a batch, once its      *)
(* callbacks are through, never behind the one before.  The snapshot taken *)
(* at the cancel goes the same way in the final update and the flush.      *)
(***************************************************************************)
EXTENDS Daemon, StoreProofs

-----------------------------------------------------------------------------
(* The inductive invariant of the exporter *)

NamesOf(reading) == {key[2] : key \in DOMAIN reading}

\* What the running scan and the running collection have yet to come to.
Unscanned == {key \in Keys : ShardOf[key[1]] \in todo}
Uncalled == {key \in Keys : key[2] \in callbacks}

Updating == pc \in {"Scan", "Register", "Share"}
Observing == sdk \in {"collecting", "flushing"}

ScanInv ==
    /\ NotOlder(metrics, Everything)
    /\ NotOlder(shared, Everything)
    /\ NotOlder(atCancel, Everything)
    /\ Updating => Kept(shared, metrics, Unscanned)
    /\ pc \in {"Register", "Share"} => todo = {}

FinalInv ==
    /\ final => cancel
    /\ pc \in {"Start", "Select"} => ~final
    /\ pc = "Start" => sdk = "stopped"
    /\ pc = "Shutdown" => final
    /\ pc = "Returned" /\ ~final => sdk = "stopped"
    /\ final /\ Updating => Kept(atCancel, metrics, Unscanned)
    /\ final /\ pc \in {"Shutdown", "Returned"} => NotOlder(atCancel, shared)

ExportInv ==
    /\ SharedHaveInstruments
    /\ pc = "Share" => NamesOf(metrics) \subseteq registered
    /\ NotOlder(exported, shared)
    /\ NotOlder(batch, shared)
    /\ \A key \in DOMAIN batch : key[2] \notin callbacks
    /\ Observing => Kept(exported, batch, Uncalled)
    /\ sdk = "flushing" => final /\ pc \in {"Shutdown", "Returned"} /\ Kept(atCancel, batch, Uncalled)
    /\ flushed => sdk = "stopped" /\ final /\ NotOlder(atCancel, exported)

IInv == StoreInv /\ OtlpTypeOK /\ ScanInv /\ FinalInv /\ ExportInv

LEMMA ReadingTypes ==
    ASSUME OtlpTypeOK
    PROVE  /\ metrics \in Readings /\ shared \in Readings /\ batch \in Readings
           /\ exported \in Readings /\ atCancel \in Readings
BY DEF OtlpTypeOK

LEMMA IInvInit == Init => IInv
<1> SUFFICES ASSUME Init PROVE IInv
    OBVIOUS
<1>1. StoreInv
    BY StoreInitInv DEF Init
<1>2. NothingRead \in Readings /\ DOMAIN NothingRead = {}
    BY NothingReadIsReading
<1>3. OtlpTypeOK
    BY <1>2 DEF Init, OtlpInit, OtlpTypeOK
<1>4. ScanInv
    BY NothingIsOldest DEF Init, OtlpInit, ScanInv, Updating
<1>5. FinalInv
    BY DEF Init, OtlpInit, FinalInv, Updating
<1>6. ExportInv
    BY <1>2, NothingIsOldest DEF Init, OtlpInit, ExportInv, SharedHaveInstruments, Observing
<1> QED BY <1>1, <1>3, <1>4, <1>5, <1>6 DEF IInv

\* A step that leaves the store alone leaves all of it alone.
LEMMA SameStore ==
    ASSUME UNCHANGED storeVars
    PROVE  Everything' = Everything /\ (StoreInv => StoreInv')
BY DEF storeVars, Everything, StoreInv, StoreTypeOK

-----------------------------------------------------------------------------
(* The push loop keeps the invariant *)

LEMMA SetupKeeps ==
    ASSUME IInv, Setup
    PROVE  IInv'
<1> USE DEF IInv
<1>1. Everything' = Everything /\ StoreInv'
    BY SameStore DEF Setup
<1>2. OtlpTypeOK'
    BY DEF Setup, OtlpTypeOK
<1>3. ScanInv'
    BY <1>1 DEF Setup, ScanInv, Updating, Unscanned
<1>4. FinalInv'
    BY DEF Setup, FinalInv, Updating, Unscanned
<1>5. ExportInv'
    BY DEF Setup, ExportInv, FinalInv, SharedHaveInstruments, NamesOf, Observing, Uncalled
<1> QED BY <1>1, <1>2, <1>3, <1>4, <1>5

\* Everything is still to be scanned, so nothing can be missing yet.
LEMMA BeginUpdateKeeps ==
    ASSUME IInv, Tick \/ SeeCancel
    PROVE  IInv'
<1> USE DEF IInv
<1>0. /\ pc = "Select" /\ pc' = "Scan" /\ todo' = Shards /\ metrics' = NothingRead
      /\ final' \in BOOLEAN /\ (final' => cancel)
      /\ UNCHANGED <<storeVars, registered, shared, cancel, atCancel>>
      /\ UNCHANGED <<sdk, callbacks, batch, exported, flushed>>
    BY DEF Tick, SeeCancel, Cancelled, BeginUpdate, sdkVars
<1>1. Everything' = Everything /\ StoreInv'
    BY <1>0, SameStore
<1>2. NothingRead \in Readings /\ DOMAIN NothingRead = {}
    BY NothingReadIsReading
<1>3. OtlpTypeOK'
    BY <1>0, <1>2 DEF OtlpTypeOK
<1>4. Unscanned' = Keys
    BY <1>0 DEF Unscanned, Keys, Shards
<1>5. Kept(shared, metrics', Keys) /\ Kept(atCancel, metrics', Keys)
    BY ReadingTypes, ReadingFacts DEF Kept
<1>6. ScanInv'
    BY <1>0, <1>1, <1>4, <1>5, NothingIsOldest DEF ScanInv, Updating
<1>7. FinalInv'
    BY <1>0, <1>4, <1>5 DEF FinalInv, Updating
<1>8. ExportInv'
    BY <1>0 DEF ExportInv, FinalInv, SharedHaveInstruments, NamesOf, Observing, Uncalled
<1> QED BY <1>1, <1>3, <1>6, <1>7, <1>8

LEMMA ScanShardKeeps ==
    ASSUME IInv, ScanShard
    PROVE  IInv'
<1> USE DEF IInv
<1> DEFINE shard == NextShard(todo)
<1>1. Everything' = Everything /\ StoreInv' /\ StoreTypeOK
    BY SameStore DEF ScanShard, StoreInv
<1>2. /\ pc = "Scan" /\ pc' \in {"Scan", "Register"}
      /\ metrics' = VisitShard(metrics, shard)
      /\ todo' = todo \ {shard}
      /\ pc' = "Register" => todo' = {}
      /\ UNCHANGED <<final, registered, shared, sdkVars, cancel, atCancel>>
    BY DEF ScanShard, Scanned
<1>3. metrics \in Readings /\ shared \in Readings /\ atCancel \in Readings
    BY ReadingTypes
<1> HIDE DEF shard
<1>4. metrics' \in Readings
    BY <1>1, <1>2, <1>3, VisitFacts
<1>5. OtlpTypeOK'
    BY <1>2, <1>4 DEF OtlpTypeOK, sdkVars
<1>6. Unscanned' = {key \in Keys : ShardOf[key[1]] \in todo \ {shard}}
    BY <1>2 DEF Unscanned
<1>7. Kept(shared, metrics', Unscanned')
  <2>1. /\ Kept(shared, metrics, {key \in Keys : ShardOf[key[1]] \in todo})
        /\ NotOlder(shared, Everything)
    BY <1>2 DEF ScanInv, Updating, Unscanned
  <2>2. Kept(shared, VisitShard(metrics, shard), {key \in Keys : ShardOf[key[1]] \in todo \ {shard}})
    BY <1>1, <1>3, <2>1, VisitKeeps
  <2> QED BY <1>2, <1>6, <2>2
<1>8. final => Kept(atCancel, metrics', Unscanned')
  <2> SUFFICES ASSUME final PROVE Kept(atCancel, metrics', Unscanned')
    OBVIOUS
  <2>1. /\ Kept(atCancel, metrics, {key \in Keys : ShardOf[key[1]] \in todo})
        /\ NotOlder(atCancel, Everything)
    BY <1>2 DEF ScanInv, FinalInv, Updating, Unscanned
  <2>2. Kept(atCancel, VisitShard(metrics, shard), {key \in Keys : ShardOf[key[1]] \in todo \ {shard}})
    BY <1>1, <1>3, <2>1, VisitKeeps
  <2> QED BY <1>2, <1>6, <2>2
<1>9. NotOlder(metrics', Everything)
    BY <1>1, <1>2, <1>3, VisitNotAhead DEF ScanInv
<1>10. ScanInv'
    BY <1>1, <1>2, <1>7, <1>9 DEF ScanInv, Updating
<1>11. FinalInv'
    BY <1>2, <1>8 DEF FinalInv, Updating, sdkVars
<1>12. ExportInv'
    BY <1>2 DEF ExportInv, SharedHaveInstruments, Observing, Uncalled, sdkVars
<1> QED BY <1>1, <1>5, <1>10, <1>11, <1>12

LEMMA RegisterKeeps ==
    ASSUME IInv, Register
    PROVE  IInv'
<1> USE DEF IInv
<1>1. Everything' = Everything /\ StoreInv'
    BY SameStore DEF Register
<1>2. NamesOf(metrics) \subseteq Names /\ NamesOf(metrics) = NewlyNamed
    BY ReadingTypes, ReadingFacts DEF NamesOf, NewlyNamed, Keys
<1>3. OtlpTypeOK'
    BY <1>2 DEF Register, OtlpTypeOK, sdkVars
<1>4. ScanInv'
    BY <1>1 DEF Register, ScanInv, Updating, Unscanned
<1>5. FinalInv'
    BY DEF Register, FinalInv, Updating, Unscanned, sdkVars
<1>6. ExportInv'
    BY <1>2 DEF Register, ExportInv, SharedHaveInstruments, NamesOf, Observing, Uncalled, sdkVars
<1> QED BY <1>1, <1>3, <1>4, <1>5, <1>6

\* The scan is complete: what it has is no older than what was shared.
LEMMA ShareKeeps ==
    ASSUME IInv, Share
    PROVE  IInv'
<1> USE DEF IInv
<1>1. Everything' = Everything /\ StoreInv'
    BY SameStore DEF Share
<1>2. /\ pc = "Share" /\ pc' = (IF final THEN "Shutdown" ELSE "Select")
      /\ shared' = metrics
      /\ UNCHANGED <<final, todo, metrics, registered, sdk, callbacks, batch, exported, flushed,
                     cancel, atCancel>>
    BY DEF Share, sdkVars
<1>3. /\ metrics \in Readings /\ shared \in Readings /\ atCancel \in Readings
      /\ batch \in Readings /\ exported \in Readings
    BY ReadingTypes
<1>4. Unscanned = {}
    BY <1>2 DEF ScanInv, Unscanned
<1>5. NotOlder(shared, metrics)
    BY <1>2, <1>4, KeptAll DEF ScanInv, Updating
<1>6. final => NotOlder(atCancel, metrics)
    BY <1>2, <1>4, KeptAll DEF FinalInv, Updating
<1>7. NotOlder(exported, metrics) /\ NotOlder(batch, metrics)
    BY <1>3, <1>5, NotOlderTransitive DEF ExportInv
<1>8. OtlpTypeOK'
    BY <1>2 DEF OtlpTypeOK
<1>9. ScanInv'
    BY <1>1, <1>2 DEF ScanInv, Updating
<1>10. FinalInv'
    BY <1>2, <1>6 DEF FinalInv, Updating
<1>11. ExportInv'
    BY <1>2, <1>7 DEF ExportInv, SharedHaveInstruments, NamesOf, Observing, Uncalled
<1> QED BY <1>1, <1>8, <1>9, <1>10, <1>11

LEMMA ShutdownReturnsKeeps ==
    ASSUME IInv, ShutdownReturns
    PROVE  IInv'
<1> USE DEF IInv
<1>1. Everything' = Everything /\ StoreInv'
    BY SameStore DEF ShutdownReturns
<1>2. OtlpTypeOK'
    BY DEF ShutdownReturns, OtlpTypeOK, sdkVars
<1>3. ScanInv'
    BY <1>1 DEF ShutdownReturns, ScanInv, Updating, Unscanned
<1>4. FinalInv'
    BY DEF ShutdownReturns, FinalInv, Updating, Unscanned, sdkVars
<1>5. ExportInv'
    BY DEF ShutdownReturns, ExportInv, SharedHaveInstruments, NamesOf, Observing, Uncalled, sdkVars
<1> QED BY <1>1, <1>2, <1>3, <1>4, <1>5

-----------------------------------------------------------------------------
(* The reader thread keeps the invariant *)

\* Each name that was ever sent has an instrument, so its callback is to come.
LEMMA BeginCollectKeeps ==
    ASSUME IInv, BeginCollect
    PROVE  IInv'
<1> USE DEF IInv
<1>1. Everything' = Everything /\ StoreInv'
    BY SameStore DEF BeginCollect
<1>2. /\ sdk = "idle"
      /\ sdk' \in {"collecting", "flushing"}
      /\ sdk' = "flushing" => pc \in {"Shutdown", "Returned"}
      /\ callbacks' = registered /\ batch' = NothingRead
      /\ UNCHANGED <<pc, final, todo, metrics, registered, shared, exported, flushed, cancel, atCancel>>
    BY DEF BeginCollect, loopVars
<1>3. /\ NothingRead \in Readings /\ DOMAIN NothingRead = {}
      /\ NotOlder(NothingRead, shared)
    BY NothingReadIsReading, NothingIsOldest
<1>4. OtlpTypeOK'
    BY <1>2, <1>3 DEF OtlpTypeOK
<1>5. ScanInv'
    BY <1>1, <1>2 DEF ScanInv, Updating, Unscanned
<1>6. FinalInv'
    BY <1>2 DEF FinalInv, Updating, Unscanned
<1>7. \A r \in Readings : NotOlder(r, shared) => DOMAIN r \subseteq Uncalled'
  <2> SUFFICES ASSUME NEW r \in Readings, NotOlder(r, shared), NEW key \in DOMAIN r
               PROVE  key \in Uncalled'
    OBVIOUS
  <2>1. key \in DOMAIN shared /\ key \in Keys
    BY ReadingFacts DEF NotOlder
  <2>2. key[2] \in registered
    BY <2>1 DEF ExportInv, SharedHaveInstruments
  <2> QED BY <1>2, <2>1, <2>2 DEF Uncalled
<1>8. Kept(exported, batch', Uncalled')
    BY <1>7, ReadingTypes DEF ExportInv, Kept
<1>9. sdk' = "flushing" => final /\ Kept(atCancel, batch', Uncalled')
    BY <1>2, <1>7, ReadingTypes DEF FinalInv, Kept
<1>10. ExportInv'
    BY <1>2, <1>3, <1>8, <1>9 DEF ExportInv, SharedHaveInstruments, NamesOf, Observing
<1> QED BY <1>1, <1>4, <1>5, <1>6, <1>10

\* A callback brings what waited for it, from shared values that are no older.
LEMMA ObservedKept ==
    ASSUME IInv, NEW name \in Names, Callback(name), NEW old \in Readings,
           NotOlder(old, shared), Kept(old, batch, Uncalled)
    PROVE  Kept(old, batch', Uncalled')
<1> USE DEF IInv
<1> SUFFICES ASSUME NEW key \in DOMAIN old, key \notin Uncalled'
             PROVE  key \in DOMAIN batch' /\ batch'[key].n >= old[key].n
    BY DEF Kept
<1>1. /\ callbacks' = callbacks \ {name}
      /\ batch' = [k \in DOMAIN batch \cup {k \in DOMAIN shared : k[2] = name} |->
                      IF k \in DOMAIN batch THEN batch[k] ELSE shared[k]]
    BY DEF Callback, Observed
<1>2. key \in Keys /\ key \in DOMAIN shared /\ shared[key].n >= old[key].n
    BY ReadingFacts DEF NotOlder
<1>3. CASE key \in Uncalled
  <2>1. key[2] = name /\ name \in callbacks
    BY <1>1, <1>2, <1>3 DEF Uncalled
  <2>2. key \notin DOMAIN batch
    BY <2>1 DEF ExportInv
  <2> QED BY <1>1, <1>2, <2>1, <2>2
<1>4. CASE key \notin Uncalled
    BY <1>1, <1>4 DEF Kept
<1> QED BY <1>3, <1>4

LEMMA CallbackKeeps ==
    ASSUME IInv, NEW name \in Names, Callback(name)
    PROVE  IInv'
<1> USE DEF IInv
<1>1. Everything' = Everything /\ StoreInv'
    BY SameStore DEF Callback
<1>2. /\ sdk \in {"collecting", "flushing"} /\ name \in callbacks
      /\ callbacks' = callbacks \ {name}
      /\ batch' = [k \in DOMAIN batch \cup {k \in DOMAIN shared : k[2] = name} |->
                      IF k \in DOMAIN batch THEN batch[k] ELSE shared[k]]
      /\ UNCHANGED <<pc, final, todo, metrics, registered, shared, sdk, exported, flushed, cancel, atCancel>>
    BY DEF Callback, Observed, loopVars
<1>3. batch \in Readings /\ shared \in Readings /\ exported \in Readings /\ atCancel \in Readings
    BY ReadingTypes
<1>4. DOMAIN batch' \subseteq DOMAIN shared
    BY <1>2 DEF ExportInv, NotOlder
<1>5. batch' \in Readings
  <2> DEFINE ks == DOMAIN batch \cup {k \in DOMAIN shared : k[2] = name}
  <2>1. ks \subseteq Keys
    BY <1>3, ReadingFacts
  <2>2. batch' \in [ks -> Values]
    BY <1>2, <1>3, ReadingFacts
  <2> QED BY <2>1, <2>2, MadeReading
<1>6. OtlpTypeOK'
    BY <1>2, <1>5 DEF OtlpTypeOK
<1>7. ScanInv'
    BY <1>1, <1>2 DEF ScanInv, Updating, Unscanned
<1>8. FinalInv'
    BY <1>2 DEF FinalInv, Updating, Unscanned
<1>9. NotOlder(batch', shared)
  <2>1. \A k \in DOMAIN shared : shared[k].n \in Nat
    BY <1>3, ReadingFacts
  <2> QED BY <1>2, <1>4, <2>1 DEF ExportInv, NotOlder
<1>10. \A key \in DOMAIN batch' : key[2] \notin callbacks'
    BY <1>2 DEF ExportInv
<1>11. Kept(exported, batch', Uncalled')
    BY <1>2, <1>3, ObservedKept DEF ExportInv, Observing
<1>12. sdk = "flushing" => Kept(atCancel, batch', Uncalled')
  <2>1. sdk = "flushing" => NotOlder(atCancel, shared)
    BY DEF ExportInv, FinalInv
  <2> QED BY <1>3, <2>1, ObservedKept DEF ExportInv
<1>13. ExportInv'
    BY <1>2, <1>9, <1>10, <1>11, <1>12 DEF ExportInv, SharedHaveInstruments, NamesOf, Observing
<1> QED BY <1>1, <1>6, <1>7, <1>8, <1>13

\* All callbacks are through: the batch has all the last one had, and on the
\* flush all the store had at the cancel.
LEMMA CompleteBatch ==
    ASSUME IInv, EndCollect
    PROVE  /\ NotOlder(exported, batch)
           /\ sdk = "flushing" => NotOlder(atCancel, batch)
<1>1. Uncalled = {} /\ Observing
    BY DEF EndCollect, Uncalled, Observing
<1> QED BY <1>1, KeptAll DEF IInv, ExportInv

LEMMA EndCollectKeeps ==
    ASSUME IInv, EndCollect
    PROVE  IInv' /\ NotOlder(exported, exported')
<1> USE DEF IInv
<1>1. Everything' = Everything /\ StoreInv'
    BY SameStore DEF EndCollect
<1>2. PICK sent \in BOOLEAN :
          /\ exported' = IF sent THEN batch ELSE exported
          /\ flushed' = (sent /\ sdk = "flushing")
    BY DEF EndCollect
<1>3. /\ sdk \in {"collecting", "flushing"}
      /\ sdk' = IF sdk = "flushing" THEN "stopped" ELSE "idle"
      /\ batch' = NothingRead
      /\ UNCHANGED <<pc, final, todo, metrics, registered, shared, callbacks, cancel, atCancel>>
    BY DEF EndCollect, loopVars
<1>4. /\ NothingRead \in Readings /\ DOMAIN NothingRead = {}
      /\ NotOlder(NothingRead, shared)
    BY NothingReadIsReading, NothingIsOldest
<1>5. exported \in Readings /\ batch \in Readings
    BY ReadingTypes
<1>6. NotOlder(exported, exported')
    BY <1>2, <1>5, CompleteBatch, NotOlderReflexive
<1>7. OtlpTypeOK'
    BY <1>2, <1>3, <1>4 DEF OtlpTypeOK
<1>8. ScanInv'
    BY <1>1, <1>3 DEF ScanInv, Updating, Unscanned
<1>9. FinalInv'
    BY <1>3 DEF FinalInv, ExportInv, Updating, Unscanned
<1>10. NotOlder(exported', shared)
    BY <1>2 DEF ExportInv
<1>11. flushed' => sdk' = "stopped" /\ final /\ NotOlder(atCancel, exported')
    BY <1>2, <1>3, CompleteBatch DEF ExportInv
<1>12. ExportInv'
    BY <1>3, <1>4, <1>10, <1>11 DEF ExportInv, SharedHaveInstruments, NamesOf, Observing
<1> QED BY <1>1, <1>6, <1>7, <1>8, <1>9, <1>12

-----------------------------------------------------------------------------
(* The environment keeps it *)

LEMMA CollectKeeps ==
    ASSUME IInv, NEW c \in Collectors, Collect(c)
    PROVE  IInv'
<1> USE DEF IInv
<1>1. PICK ok \in SUBSET Names : Publish(c, ok)
    BY DEF Collect
<1>2. StoreInv' /\ NotOlder(Everything, Everything')
    BY <1>1, PublishKeepsStore, PublishAdvances
<1>3. /\ UNCHANGED <<pc, final, todo, metrics, registered, shared>>
      /\ UNCHANGED <<sdk, callbacks, batch, exported, flushed, cancel, atCancel>>
    BY DEF Collect, otlpVars, loopVars, sdkVars
<1>4. Everything \in Readings /\ Everything' \in Readings
  <2>1. StoreTypeOK /\ StoreTypeOK'
    BY <1>2 DEF StoreInv
  <2>2. StoreTypeOK => Everything \in Readings
    BY EverythingIsReading
  <2> QED BY <2>1, <2>2, EverythingTypePrimed
<1>5. OtlpTypeOK'
    BY <1>3 DEF OtlpTypeOK
<1>6. ScanInv'
  <2>1. /\ NotOlder(metrics, Everything') /\ NotOlder(shared, Everything')
        /\ NotOlder(atCancel, Everything')
    BY <1>2, <1>4, ReadingTypes, NotOlderTransitive DEF ScanInv
  <2> QED BY <1>3, <2>1 DEF ScanInv, Updating, Unscanned
<1>7. FinalInv'
    BY <1>3 DEF FinalInv, Updating, Unscanned
<1>8. ExportInv'
    BY <1>3 DEF ExportInv, SharedHaveInstruments, NamesOf, Observing, Uncalled
<1> QED BY <1>2, <1>5, <1>6, <1>7, <1>8

LEMMA CancelKeeps ==
    ASSUME IInv, Cancel
    PROVE  IInv'
<1> USE DEF IInv
<1>1. Everything' = Everything /\ StoreInv'
    BY SameStore DEF Cancel
<1>2. /\ ~cancel /\ cancel' = TRUE /\ atCancel' = Everything
      /\ UNCHANGED <<pc, final, todo, metrics, registered, shared>>
      /\ UNCHANGED <<sdk, callbacks, batch, exported, flushed>>
    BY DEF Cancel, loopVars, sdkVars
<1>3. ~final /\ sdk # "flushing" /\ ~flushed
    BY <1>2 DEF FinalInv, ExportInv
<1>4. Everything \in Readings
    BY EverythingIsReading DEF StoreInv
<1>5. OtlpTypeOK'
    BY <1>2, <1>4 DEF OtlpTypeOK
<1>6. ScanInv'
    BY <1>1, <1>2, <1>4, NotOlderReflexive DEF ScanInv, Updating, Unscanned
<1>7. FinalInv'
    BY <1>2, <1>3 DEF FinalInv, Updating, Unscanned
<1>8. ExportInv'
    BY <1>2, <1>3 DEF ExportInv, SharedHaveInstruments, NamesOf, Observing, Uncalled
<1> QED BY <1>1, <1>5, <1>6, <1>7, <1>8

-----------------------------------------------------------------------------
(* Every step of the exporter *)

LEMMA OtlpStepKeeps ==
    ASSUME IInv, Next
    PROVE  IInv' /\ NotOlder(exported, exported')
<1>1. exported \in Readings
    BY ReadingTypes DEF IInv
<1>2. NotOlder(exported, exported)
    BY <1>1, NotOlderReflexive
<1>3. CASE Loop
  <2>1. UNCHANGED exported
    BY <1>3 DEF Loop, Setup, Tick, SeeCancel, BeginUpdate, ScanShard, Register, Share, ShutdownReturns, sdkVars
  <2>2. IInv'
    BY <1>3, SetupKeeps, BeginUpdateKeeps, ScanShardKeeps, RegisterKeeps, ShareKeeps, ShutdownReturnsKeeps DEF Loop
  <2> QED BY <1>2, <2>1, <2>2
<1>4. CASE BeginCollect
  <2>1. UNCHANGED exported
    BY <1>4 DEF BeginCollect
  <2> QED BY <1>2, <1>4, <2>1, BeginCollectKeeps
<1>5. CASE \E name \in Names : Callback(name)
  <2>1. UNCHANGED exported
    BY <1>5 DEF Callback
  <2> QED BY <1>2, <1>5, <2>1, CallbackKeeps
<1>6. CASE EndCollect
    BY <1>6, EndCollectKeeps
<1>7. CASE \E c \in Collectors : Collect(c)
  <2>1. UNCHANGED exported
    BY <1>7 DEF Collect, otlpVars, sdkVars
  <2> QED BY <1>2, <1>7, <2>1, CollectKeeps
<1>8. CASE Cancel
  <2>1. UNCHANGED exported
    BY <1>8 DEF Cancel, sdkVars
  <2> QED BY <1>2, <1>8, <2>1, CancelKeeps
<1> QED BY <1>3, <1>4, <1>5, <1>6, <1>7, <1>8 DEF Next, Sdk

LEMMA OtlpStutterKeeps ==
    ASSUME IInv, UNCHANGED vars
    PROVE  IInv' /\ NotOlder(exported, exported')
<1> USE DEF IInv, vars, otlpVars, loopVars, sdkVars
<1>1. Everything' = Everything /\ StoreInv'
    BY SameStore
<1>2. OtlpTypeOK' /\ ScanInv' /\ FinalInv'
    BY <1>1 DEF OtlpTypeOK, ScanInv, FinalInv, Updating, Unscanned
<1>3. ExportInv'
    BY DEF ExportInv, SharedHaveInstruments, NamesOf, Observing, Uncalled
<1>4. NotOlder(exported, exported')
    BY ReadingTypes, NotOlderReflexive
<1> QED BY <1>1, <1>2, <1>3, <1>4
-----------------------------------------------------------------------------
(* The exporter, under every schedule of its environment *)

LEMMA IInvHolds == Spec => []IInv
<1>1. IInv /\ [Next]_vars => IInv'
    BY OtlpStepKeeps, OtlpStutterKeeps
<1> QED BY IInvInit, <1>1, PTL DEF Spec

LEMMA IInvImplies ==
    ASSUME IInv
    PROVE  TypeOK /\ SharedHaveInstruments /\ FinalFlushComplete
BY DEF IInv, StoreInv, TypeOK, ExportInv, FinalFlushComplete

\* The store, the scan, the shared values and the batches keep their types.
THEOREM OtlpTypeCorrect == Spec => []TypeOK
<1>1. IInv => TypeOK
    BY IInvImplies
<1> QED BY <1>1, IInvHolds, PTL

\* No value is shared before the instrument that reports it is registered.
THEOREM SharedHaveInstrumentsHolds == Spec => []SharedHaveInstruments
<1>1. IInv => SharedHaveInstruments
    BY IInvImplies
<1> QED BY <1>1, IInvHolds, PTL

\* A final batch that got through has all the store had at the cancel.
THEOREM FinalFlushCompleteHolds == Spec => []FinalFlushComplete
<1>1. IInv => FinalFlushComplete
    BY IInvImplies
<1> QED BY <1>1, IInvHolds, PTL

\* The receiver never loses a metric and never sees one go back.
THEOREM ExportsAdvanceHolds == Spec => ExportsAdvance
<1>1. IInv /\ [Next]_vars => [NotOlder(exported, exported')]_vars
    BY OtlpStepKeeps, OtlpStutterKeeps
<1> QED BY <1>1, IInvHolds, PTL DEF Spec, ExportsAdvance

-----------------------------------------------------------------------------
(* The daemon *)

\* What the daemon does is, to the exporter, a step of its own or of its
\* environment.
LEMMA DaemonStepsAreOtlpSteps == DaemonNext => [Next]_vars
<1> SUFFICES ASSUME DaemonNext PROVE Next \/ UNCHANGED vars
    OBVIOUS
<1>1. CASE Main
    BY <1>1 DEF Main, ReceiveSignal, StopCollectors, CollectorsJoined, JoinTimesOut, Return, Exit, Next
<1>2. ASSUME NEW c \in Collectors, CollectorStep(c)
      PROVE  Next \/ UNCHANGED vars
  <2>1. FinishCycle(c) => Collect(c)
    BY DEF FinishCycle, Collect
  <2> QED BY <1>2, <2>1 DEF CollectorStep, BeginIo, AbortCycle, CollectorReturns, Next
<1>3. ASSUME NEW t \in Others, OtherReturns(t)
      PROVE  UNCHANGED vars
    BY <1>3 DEF OtherReturns
<1>4. CASE OtlpTask \/ OtlpThread
    BY <1>4 DEF OtlpTask, OtlpThread, Next
<1>5. ASSUME NEW c \in Collectors, JobEnds(c)
      PROVE  UNCHANGED vars
    BY <1>5 DEF JobEnds
<1> QED BY <1>1, <1>2, <1>3, <1>4, <1>5 DEF DaemonNext

\* The daemon implements the exporter's specification, in which collectors
\* publish and the cancel comes whenever they like.
THEOREM DaemonImplementsOtlp == DaemonSpec => Spec
<1>1. DaemonInit => Init
    BY DEF DaemonInit
<1>2. [DaemonNext]_allVars => [Next]_vars
    BY DaemonStepsAreOtlpSteps DEF allVars
<1> QED BY <1>1, <1>2, PTL DEF DaemonSpec, Spec

DaemonInv ==
    /\ IInv
    /\ DaemonTypeOK
    /\ ~Running => pc = "Returned"

LEMMA DaemonInvInit == DaemonInit => DaemonInv
<1> SUFFICES ASSUME DaemonInit PROVE DaemonInv
    OBVIOUS
<1>1. IInv
    BY IInvInit DEF DaemonInit
<1>2. DaemonTypeOK
    BY <1>1, IInvImplies DEF DaemonInit, DaemonTypeOK, Lives
<1> QED BY <1>1, <1>2 DEF DaemonInit, DaemonInv, Running

LEMMA DaemonInvStep == DaemonInv /\ [DaemonNext]_allVars => DaemonInv'
<1> SUFFICES ASSUME DaemonInv, [DaemonNext]_allVars PROVE DaemonInv'
    OBVIOUS
<1>1. [Next]_vars
    BY DaemonStepsAreOtlpSteps DEF allVars
<1>2. IInv'
    BY <1>1, OtlpStepKeeps, OtlpStutterKeeps DEF DaemonInv
<1>3. TypeOK'
    BY <1>2 DEF IInv, StoreInv, TypeOK
<1> DEFINE MainTypeOK ==
               /\ main \in {"Serving", "Cancelled", "Joining", "Awaiting", "Returned", "Exited"}
               /\ life \in [Collectors -> Lives]
               /\ stop \in BOOLEAN /\ graceful \in BOOLEAN
               /\ others \in [Others -> {"up", "returned"}]
               /\ ~Running => pc = "Returned"
<1>4. MainTypeOK
    BY DEF DaemonInv, DaemonTypeOK
<1> SUFFICES MainTypeOK'
    BY <1>2, <1>3 DEF DaemonInv, DaemonTypeOK
<1>5. CASE Main
  <2>1. life' \in [Collectors -> Lives]
    BY <1>4, <1>5 DEF Main, ReceiveSignal, StopCollectors, CollectorsJoined, JoinTimesOut, Return, Exit
  <2> QED BY <1>4, <1>5, <2>1 DEF Main, ReceiveSignal, StopCollectors, CollectorsJoined, JoinTimesOut,
            TimesOut, Return, Exit, ExportersDone, Running, vars, otlpVars, loopVars, Cancel
<1>6. ASSUME NEW c \in Collectors, CollectorStep(c), Running
      PROVE  MainTypeOK'
  <2>1. life' \in [Collectors -> Lives]
    BY <1>4, <1>6 DEF CollectorStep, BeginIo, FinishCycle, AbortCycle, CollectorReturns, Lives
  <2> QED BY <1>4, <1>6, <2>1 DEF CollectorStep, BeginIo, FinishCycle, AbortCycle, CollectorReturns,
            mainVars, Running
<1>7. ASSUME NEW t \in Others, OtherReturns(t), Running
      PROVE  MainTypeOK'
    BY <1>4, <1>7 DEF OtherReturns, mainVars, Running
<1>8. CASE OtlpTask /\ Running
    BY <1>4, <1>8 DEF OtlpTask, daemonVars, mainVars, Running
<1>9. CASE OtlpThread
  <2>1. pc = "Returned" => pc' = "Returned"
    BY <1>9 DEF OtlpThread, Sdk, BeginCollect, Callback, EndCollect, loopVars
  <2> QED BY <1>4, <1>9, <2>1 DEF OtlpThread, daemonVars, mainVars, Running
<1>10. ASSUME NEW c \in Collectors, JobEnds(c)
       PROVE  MainTypeOK'
    BY <1>4, <1>10 DEF JobEnds, Lives, mainVars, Running, vars, otlpVars, loopVars
<1>11. CASE UNCHANGED allVars
    BY <1>4, <1>11 DEF allVars, daemonVars, mainVars, vars, otlpVars, loopVars, Running
<1> QED BY <1>5, <1>6, <1>7, <1>8, <1>9, <1>10, <1>11 DEF DaemonNext

LEMMA DaemonInvHolds == DaemonSpec => []DaemonInv
BY DaemonInvInit, DaemonInvStep, PTL DEF DaemonSpec

\* Every part of the daemon is where it can be.
THEOREM DaemonTypeCorrect == DaemonSpec => []DaemonTypeOK
<1>1. DaemonInv => DaemonTypeOK
    BY DEF DaemonInv
<1> QED BY <1>1, DaemonInvHolds, PTL

\* main() only returns when the exporter, if it ever got started, has shared
\* what the store had at the signal.
THEOREM ExitAfterFinalUpdateHolds == DaemonSpec => []ExitAfterFinalUpdate
<1>1. DaemonInv => ExitAfterFinalUpdate
    BY DEF DaemonInv, IInv, FinalInv, ExitAfterFinalUpdate
<1> QED BY <1>1, DaemonInvHolds, PTL

\* The exporter's guarantees hold in the daemon.
THEOREM DaemonExports ==
    DaemonSpec => []SharedHaveInstruments /\ []FinalFlushComplete /\ ExportsAdvance
BY DaemonImplementsOtlp, SharedHaveInstrumentsHolds, FinalFlushCompleteHolds, ExportsAdvanceHolds, PTL
=============================================================================
