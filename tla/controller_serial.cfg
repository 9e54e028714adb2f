SPECIFICATION FairSpec
CONSTANTS
  c1 = c1
  c2 = c2
  c3 = c3
  Calls = {c1, c2, c3}
  AutoRestart = TRUE
  Overlap = FALSE
  MaxSpawns = 5
INVARIANTS
  OneTruthfulVm
PROPERTIES
  ClosedVmsExit
  CrashedVmReplaced
CHECK_DEADLOCK FALSE
