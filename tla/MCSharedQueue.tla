--------------------------- MODULE MCSharedQueue ----------------------------
(* Queues and nodes are interchangeable.                                   *)
EXTENDS SharedQueue, TLC

Symmetry == Permutations(Queues) \cup Permutations(Nodes)
=============================================================================
