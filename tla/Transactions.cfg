SPECIFICATION Spec
CONSTANTS
  p1 = p1
  p2 = p2
  Processes = {p1, p2}
  NULL = NULL
  MAX_TRA_NUMBER = 4
  transPerTIP = 3
  TRA_ACTIVE_CLEANUP = 2
  sweep_interval = 1
  Modes = {"snapshot", "read_committed", "read_only"}
  MaxPlain = 3
  MaxRare = 2
  RetainFreely = FALSE
SYMMETRY Symmetry
INVARIANTS SnapshotIsPreserved FinalViewIsTrue CommittedIsDurable
PROPERTY FinalStates
