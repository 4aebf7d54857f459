SPECIFICATION Spec
CONSTANTS
  p1 = p1
  p2 = p2
  hdr = hdr
  data = data
  NULL = NULL
  Processes = {p1, p2}
  Pages = {hdr, data}
  HEADER_PAGE = hdr
  MaxChanges = 2
  MaxScn = 3
  MaxCrashes = 1
  HalfWrites = FALSE
SYMMETRY Symmetry
INVARIANT TypeOK
INVARIANT IncrementIsComplete
INVARIANT TableIsCurrent
INVARIANT SecondCheckHolds
PROPERTY MainIsFrozen
PROPERTY ImplementsPageStore
