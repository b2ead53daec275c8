CONSTANTS
  Starts = {s1, s2}
  Pids = {p1, p2}
  Conditions <- BothConditions
SPECIFICATION FairSpec
INVARIANTS
  LauncherTellsTruth
  OneDaemon
  PidfileNamesDaemon
  CleanExitLeavesNoPidfile
PROPERTIES
  LauncherReturns
