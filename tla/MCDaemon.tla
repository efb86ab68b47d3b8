------------------------------ MODULE MCDaemon ------------------------------
(* Instances of Daemon for TLC. *)
EXTENDS Daemon

\* The two collectors hash to different shards.
MCShardOf == [c \in Collectors |-> c]

\* Each collector publishes once.
MCMaxCycles == [c \in Collectors |-> 1]

\* The first collector publishes twice, so that a value it has exported is
\* replaced by a later one.
MCMaxCyclesTwice == [c \in Collectors |-> IF c = 1 THEN 2 ELSE 1]
=============================================================================
