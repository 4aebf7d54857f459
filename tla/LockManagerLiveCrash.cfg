SPECIFICATION FairSpec
CONSTANTS
  Owners = {o1, o2}
  Locks = {l1}
  Requests = {r1, r2}
  NULL = NULL
  LOCK_ordering = TRUE
  Levels = {3, 6}
  Waits = {"wait"}
  Asts = {FALSE}
  MayCrash = {o1}
  HolderMayCrash = FALSE
PROPERTY EveryWaitEnds
