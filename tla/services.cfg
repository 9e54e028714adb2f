SPECIFICATION ServicesSpec
CONSTANTS
  Clients = {"a", "b"}
  Externals = {1, 2}
  MaxExecs = 3
  VMs = {1, 2, 3}
  Fates <- RegistryFates
  MaxFds = 6
  MaxCalls = 2
  MaxMoves = 1
  Routes = {"a"}
  BadLine = "bad"
  EmptyLine = "empty"
  NulCell = "nul"
  MaxCells = 1
  MaxFile = 2
  FileNumbers = {1, 2}
  Plans <- ListenerSetups
  Setups <- ForwardSetups
  UnitBytes = 2
  MaxPending = 4
  WireMark = 2
  MaxTcp = 2
  MaxVirtio = 2
INVARIANTS
  ForwardDelivers
  RoutesFollowTheFile
  CollectionsExact
  NamesStand
  ProtectedUntouched
  LiveRootsKept
PROPERTIES
  FramesReachTheirCall
  OneTree
CHECK_DEADLOCK FALSE
