SPECIFICATION Spec
CONSTANTS
  Owners = {o1, o2}
  Locks = {l1}
  Requests = {r1, r2}
  NULL = NULL
  LOCK_ordering = TRUE
  Levels = {3, 6}
  Waits = {"wait", "timeout"}
  Asts = {TRUE}
  MayCrash = {o1, o2}
  HolderMayCrash = TRUE
SYMMETRY Symmetry
INVARIANTS GrantedCompatible SummaryOfQueue Links DecidedIsWoken
