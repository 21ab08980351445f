---------------------------- MODULE MCNetFlowPipe ----------------------------
(* Instances of NetFlowPipe for TLC. *)
EXTENDS NetFlowPipe

CONSTANTS e1, e2, e3, h1, h2

\* e1 and e2 are two ports of the host h1.
MCHostOf(e) == IF e = e3 THEN h2 ELSE h1

Define(i) == [defines |-> TRUE, id |-> i]
Data(i) == [defines |-> FALSE, id |-> i]

\* 1 is the id of a template of flows, 2 of an options template.
MCPacketSets ==
  {<<>>, <<Define(1)>>, <<Data(1)>>, <<Define(2), Data(2)>>,
   <<Data(2), Define(1)>>, <<Data(1), Define(1)>>}
=============================================================================
