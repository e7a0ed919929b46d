SPECIFICATION MCSpec
CONSTANTS
  Installers = {i1, i2}
  Hosts = {h1, h2}
  None = None
  Detect = TRUE
  MaxKeys = 3
  MaxOwner = 1
SYMMETRY Symmetry
INVARIANTS
  FleetSound
PROPERTIES
  RotationsStand
  FleetKeepsPromise
