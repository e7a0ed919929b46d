SPECIFICATION MCSpec
CONSTANTS
  Paths = {p1, p2}
  None = None
  MaxMoves = 1
  Pickers = {k1, k2}
  Roots = {r1, r2}
  Names = {a, b}
  Walking = Walking
  Error = Error
  Empty = Empty
  PathLimit = 3
  MaxChanges = 1
  Ids = {1, 2, 3, 4}
  PageLimit = 2
  MaxPages = 3
  MaxRows = 3
  MaxComings = 3
SYMMETRY Symmetry
INVARIANTS
  PickerSound
  RowsIgnoreOrder
  NoRawOpenOfManaged
  CompleteOrNothing
  CacheIsComplete
PROPERTIES
  EnterKeepsSelection
CHECK_DEADLOCK FALSE
