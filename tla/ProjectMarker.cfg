SPECIFICATION Spec
CONSTANTS
  Callers = {a1, a2}
  Keys = {k1}
  Names = {n1}
  NoKey = NoKey
  UserActs = {}
  MaxDirs = 2
  MaxCrashes = 0
PROPERTIES
  ReportedHasOnlyGit
