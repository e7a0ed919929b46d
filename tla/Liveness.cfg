SPECIFICATION LiveSpec
CONSTANTS
  PIDs = {q1, q2}
  Convs = {c1}
  Launches = {l1}
  Callers = {a1}
  Requested = {k1}
  Projects = {n1}
  Installers = {i1, i2}
  Hosts = {h1, h2}
  Checkouts = {p1}
  Clients = {d1}
  Commands = {x1}
  None = None
PROPERTIES
  ForcedStopEnds
  InterruptedIsResumed
  FleetEnds
  PickerEnds
  StrandedClientsReturn
CHECK_DEADLOCK FALSE
