SPECIFICATION Spec
CONSTANTS
  Callers = {a1, a2}
  Keys = {k1, k2}
  Names = {n1, n2}
  NoKey = NoKey
  UserActs = {"project", "empty"}
  MaxDirs = 3
  MaxCrashes = 1
SYMMETRY Symmetry
INVARIANTS
  TypeOK
  OneKeyPerProject
PROPERTIES
  ProjectsStay
  ReportedIsComplete
