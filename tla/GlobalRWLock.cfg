SPECIFICATION Spec
CONSTANTS
  p1 = p1
  p2 = p2
  p3 = p3
  o1 = o1
  o2 = o2
  o3 = o3
  Processes = {p1, p2}
  Owners = {o1, o2, o3}
  Home <- Mixed
  NULL = NULL
  MaxEntries = 2
  MaxFailures = 1
INVARIANTS TypeOK Exclusion LockCoversUsers ObjectIsCurrent
PROPERTY ImplementsRWLock
