-------------------------- MODULE MCDifferenceFile --------------------------
(* Pointer pages with room for three items. *)
EXTENDS DifferenceFile, TLC

Symmetry == Permutations(Processes) \cup Permutations(Pages)
=============================================================================
