---------------------------- MODULE MCLockManager ----------------------------
(* Instances of LockManager for TLC.                                        *)
EXTENDS LockManager, TLC

Symmetry == Permutations(Owners) \cup Permutations(Requests)
SymmetryWithLocks == Symmetry \cup Permutations(Locks)
=============================================================================
