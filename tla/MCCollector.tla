---------------------------- MODULE MCCollector ----------------------------
(* Instances of Collector for TLC. *)
EXTENDS Collector

\* Names as the code builds them, format!("{}_errors", metric_name).
MCErrName == [temp |-> "temp_errors", hum |-> "hum_errors"]
=============================================================================
