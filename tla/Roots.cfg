SPECIFICATION RootsSpec
CONSTANTS
  Terminals = {c1, c2}
  Checkouts = {p1, p2}
  Commands = {x1, x2}
  Nothing = Nothing
  MaxActs = 3
SYMMETRY Symmetry
INVARIANTS
  RootsSound
PROPERTIES
  CleanupSparesWork
  SessionsKeepTheirPath
CHECK_DEADLOCK FALSE
