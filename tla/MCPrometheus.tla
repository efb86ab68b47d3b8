---------------------------- MODULE MCPrometheus ----------------------------
(* Instances of PrometheusExporter for TLC. *)
EXTENDS PrometheusExporter

\* The two collectors hash to different shards.
MCShardOf == [c \in Collectors |-> c]

\* The first collector publishes twice, the second once.
MCMaxCycles == [c \in Collectors |-> IF c = 1 THEN 2 ELSE 1]
=============================================================================
