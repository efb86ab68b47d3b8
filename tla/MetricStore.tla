---------------------------- MODULE MetricStore ----------------------------
(***************************************************************************)
(* The store between collectors and exporters (src/metrics.rs): a DashMap  *)
(* from collector to its current snapshot.  publish replaces one snapshot  *)
(* in one insert.  all_metrics_flat is not one step: the iterator locks    *)
(* one shard at a time, so collectors in shards it has not reached yet, or *)
(* has already left, go on publishing.                                     *)
(*                                                                         *)
(* This module has the store, the publications and what a reader finds in  *)
(* one shard; PrometheusExporter and OtlpExporter are its readers.  Labels,*)
(* units and descriptions are left out.  A value is the poll cycle it was  *)
(* read in.                                                                *)
(***************************************************************************)
EXTENDS Integers, FiniteSets

CONSTANTS
    Collectors,
    Names,      \* names of the metrics each collector may publish
    ShardOf,    \* collector -> shard its name hashes to
    MaxCycles   \* bound of the model: collector -> publications explored

ASSUME StoreAssumption ==
    /\ DOMAIN ShardOf = Collectors
    /\ \A c \in Collectors : ShardOf[c] \in Nat
    /\ MaxCycles \in [Collectors -> Nat]

VARIABLES
    slots,    \* collector -> name -> value; no names before the first publish
    cycles    \* collector -> its last published poll cycle

storeVars == <<slots, cycles>>

Shards == {ShardOf[c] : c \in Collectors}

\* A published value, in the form MetricFeed has it.
Value(cycle) == [src |-> "device", n |-> cycle]
Values == [src : {"device"}, n : UNION {1 .. MaxCycles[c] : c \in Collectors}]

Snapshots == UNION {[ns -> Values] : ns \in SUBSET Names}
EmptySnapshot == [n \in {} |-> Value(0)]

StoreInit ==
    /\ slots = [c \in Collectors |-> EmptySnapshot]
    /\ cycles = [c \in Collectors |-> 0]

StoreTypeOK ==
    /\ slots \in [Collectors -> Snapshots]
    /\ cycles \in [Collectors -> Nat]
    /\ \A c \in Collectors : cycles[c] <= MaxCycles[c]

\* Mutant of Replacement: one entry at a time, under the lock for each.
ReplacementPiecewise(c, ok) ==
    LET n == CHOOSE n \in ok : TRUE
    IN  [m \in DOMAIN slots[c] \cup {n} |-> IF m = n THEN Value(cycles[c] + 1) ELSE slots[c][m]]

\* Mutant of Replacement: what the cycle before has read.
ReplacementBehind(c, ok) ==
    [n \in DOMAIN slots[c] \cup ok |-> IF n \in ok THEN Value(cycles[c]) ELSE slots[c][n]]

\* The snapshot after a cycle that read ok, the other names carried forward.
Replacement(c, ok) ==
    [n \in DOMAIN slots[c] \cup ok |-> IF n \in ok THEN Value(cycles[c] + 1) ELSE slots[c][n]]

Publish(c, ok) ==
    /\ cycles[c] < MaxCycles[c]
    /\ slots' = [slots EXCEPT ![c] = Replacement(c, ok)]
    /\ cycles' = [cycles EXCEPT ![c] = @ + 1]

-----------------------------------------------------------------------------
(* Reading: what all_metrics_flat returns, by collector and name *)

Keys == Collectors \X Names
Readings == UNION {[ks -> Values] : ks \in SUBSET Keys}
NothingRead == [key \in {} |-> Value(0)]

\* seen, and behind it everything in one shard as it is now.
VisitShard(seen, shard) ==
    LET here == {key \in Keys : ShardOf[key[1]] = shard /\ key[2] \in DOMAIN slots[key[1]]}
    IN  [key \in DOMAIN seen \cup here |->
            IF key \in here THEN slots[key[1]][key[2]] ELSE seen[key]]

\* The iterator goes through the shards in order.
NextShard(todo) == CHOOSE k \in todo : \A j \in todo : k <= j

\* The whole store, as no reader sees it.
Everything == [key \in {k \in Keys : k[2] \in DOMAIN slots[k[1]]} |-> slots[key[1]][key[2]]]

\* The part of a reading that comes from collector c.
SliceOf(reading, c) ==
    [n \in {m \in Names : <<c, m>> \in DOMAIN reading} |-> reading[<<c, n>>]]

\* new says nothing older than old, and leaves out nothing that old has.
NotOlder(old, new) ==
    /\ DOMAIN old \subseteq DOMAIN new
    /\ \A key \in DOMAIN old : new[key].n >= old[key].n
=============================================================================
