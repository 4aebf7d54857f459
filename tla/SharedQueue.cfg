SPECIFICATION Spec
CONSTANTS
  Queues = {q1, q2}
  Nodes = {n1, n2, n3}
  SHB = SHB
  NULL = NULL
  MaxDeaths = 3
  LateDeath = FALSE
  StaleRemoval = FALSE
SYMMETRY Symmetry
INVARIANTS TypeOK Whole
