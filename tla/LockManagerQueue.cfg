SPECIFICATION Spec
CONSTANTS
  Owners = {o1, o2, o3}
  Locks = {l1}
  Requests = {r1, r2, r3}
  NULL = NULL
  LOCK_ordering = TRUE
  Levels = {2, 3, 4}
  Waits = {"timeout", "no_wait"}
  Asts = {FALSE}
  MayCrash = {}
  HolderMayCrash = FALSE
SYMMETRY Symmetry
INVARIANTS TypeOK GrantedCompatible SummaryOfQueue NoForgottenGrant
PROPERTIES NoOvertaking
