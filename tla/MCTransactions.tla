--------------------------- MODULE MCTransactions ---------------------------
EXTENDS Transactions, TLC

CONSTANTS p1, p2
Symmetry == Permutations(Processes)
=============================================================================
