SPECIFICATION Spec
CONSTANTS
  Setups <- LifeSetups
  Callers = {1, 2, 3}
  Procs = {"p", "q"}
  Refs = {"r", "s"}
  HostArch = "x86_64"
  SourceSets <- ImageSetups
INVARIANTS
  StoreStaysUsable
PROPERTIES
  ClosesPrevail
  CheckpointsKeepTheirData
CHECK_DEADLOCK FALSE
