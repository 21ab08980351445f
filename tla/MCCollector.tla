---------------------------- MODULE MCCollector ----------------------------
(* Instances of Collector for TLC: two receivers, each with a worker.       *)
EXTENDS Collector

OneEach == [w \in 1 .. 2 |-> w]
=============================================================================
