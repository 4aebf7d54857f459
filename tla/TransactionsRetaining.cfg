SPECIFICATION Spec
CONSTANTS
  p1 = p1
  p2 = p2
  Processes = {p1, p2}
  NULL = NULL
  MAX_TRA_NUMBER = 4
  transPerTIP = 3
  TRA_ACTIVE_CLEANUP = 2
  sweep_interval = 4
  Modes = {"snapshot"}
  MaxPlain = 4
  MaxRare = 1
  RetainFreely = TRUE
SYMMETRY Symmetry
INVARIANT SnapshotIsPreserved
