SPECIFICATION MCSpec
CONSTANTS
  PIDs = {q1, q2, q3}
  Convs = {c1, c2}
  Launches = {l1, l2}
  NoPid = NoPid
  NoConv = NoConv
  NoLaunch = NoLaunch
  MaxBirth = 4
  MaxId = 2
  Callers = {a1, a2}
  Ops = {"create", "inspect", "check", "terminate", "observe", "clear"}
  UserActs = {"exit", "stray", "server", "window", "split", "respawn", "kill", "move", "link"}
SYMMETRY Symmetry
INVARIANTS
  TypeOK
  SignalsReachTheirProof
  ProofsNameTheirLaunch
  GoneMeansEnded
  StoppedMeansEnded
PROPERTIES
  LivenessIsWitnessed
  ClearSparesOthers
  OwnershipSpec
