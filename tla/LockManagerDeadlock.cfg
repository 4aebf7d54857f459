SPECIFICATION Spec
CONSTANTS
  Owners = {o1, o2}
  Locks = {l1, l2}
  Requests = {r1, r2, r3, r4}
  NULL = NULL
  LOCK_ordering = TRUE
  Levels = {3, 6}
  Waits = {"wait", "timeout", "no_wait"}
  Asts = {FALSE}
  MayCrash = {}
  HolderMayCrash = FALSE
SYMMETRY SymmetryWithLocks
INVARIANTS NoForgottenGrant DecidedIsWoken
PROPERTIES ScannedIsNotDeadlocked VictimIsDeadlocked
