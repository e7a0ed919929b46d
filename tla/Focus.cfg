SPECIFICATION MCSpec
CONSTANTS
  Names = {n1, n2}
  Windows = {w1, w2, w3}
  Sessions = {s1, s2}
  Convs = {c1, c2}
  Requests = {r1, r2}
  None = None
  MaxChanges = 3
SYMMETRY Symmetry
INVARIANTS
  TypeOK
PROPERTIES
  OnlyRequesterMoves
  MovesLandAsMeant
CHECK_DEADLOCK FALSE
