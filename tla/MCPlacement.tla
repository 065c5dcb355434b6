----------------------------- MODULE MCPlacement -----------------------------
(* Small instances of Placement.  The nodes share one range of five ports,  *)
(* a gameserver needs two of them, and every node has room for two.         *)
EXTENDS Placement, TLC

MCManualPorts == [g \in Gameservers |-> {{2}}]
MCNeed        == [g \in Gameservers |-> 2]
MCMemory      == [g \in Gameservers |-> 1]
MCMaxMemory   == [n \in Nodes |-> 2]
MCPortStart   == [n \in Nodes |-> 1]
MCPortEnd     == [n \in Nodes |-> 5]
Symmetry      == Permutations(Nodes) \cup Permutations(Gameservers \ Manual)
=============================================================================
