SPECIFICATION MCSpec
CONSTANTS
  Owners = {o1, o2}
  Roots = {r1, r2}
  Panes = {p1, p2, p3, p4}
  Ops = {x1, x2}
  None = None
  MaxExits = 1
SYMMETRY Symmetry
INVARIANTS
  PanesSound
PROPERTIES
  RootOutlivesTransfer
CHECK_DEADLOCK FALSE
