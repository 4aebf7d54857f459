----------------------------- MODULE MCNBackup ------------------------------
(* Two processes, the header page and a data page. *)
EXTENDS NBackup, TLC

CONSTANTS p1, p2, hdr, data

Symmetry == Permutations(Processes)
=============================================================================
