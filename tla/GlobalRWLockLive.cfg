SPECIFICATION FairSpec
CONSTANTS
  p1 = p1
  p2 = p2
  p3 = p3
  o1 = o1
  o2 = o2
  o3 = o3
  Processes = {p1, p2, p3}
  Owners = {o1, o2, o3}
  Home <- OneEach
  NULL = NULL
  MaxEntries = 1
  MaxFailures = 0
PROPERTY EveryLockReturns
