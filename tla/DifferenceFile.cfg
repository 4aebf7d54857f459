SPECIFICATION Spec
CONSTANTS
  Processes = {p1, p2}
  Pages = {g1, g2, g3, g4}
  NULL = NULL
  PageItems = 4
  MaxErrors = 2
  MaxCrashes = 1
SYMMETRY Symmetry
INVARIANTS PointerPageIsThere BufferIsCurrent OwnPlace
PROPERTY ImplementsDeltaTable
