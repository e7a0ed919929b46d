SPECIFICATION Spec
CONSTANTS
  PIDs = {q1, q2}
  Convs = {c1}
  Launches = {l1}
  NoPid = NoPid
  NoConv = NoConv
  NoLaunch = NoLaunch
  MaxBirth = 3
  MaxId = 1
  Callers = {a1}
  Ops = {"create", "inspect"}
  UserActs = {"exit", "respawn"}
INVARIANTS
  RespawnsAreNotAdopted
