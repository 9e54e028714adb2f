SPECIFICATION HostSpec
CONSTANTS
  v = v
  w = w
  a = a
  b = b
  Invocations = {v, w}
  Contexts = {a, b}
  Setups <- CapabilitySetups
  MaxExternal = 1
  MaxInode = 3
  Jobs <- MCJobs
  MaxPosition <- MCMaxPosition
  KnownGuarantees <- MCKnown
  ActiveGuarantees <- MCActive
  VariableNames <- MCVariables
  Shells <- MCShells
  Maximum <- MCMaximum
  MinMemory = 1
  WholeMemory = {1, 2, 4}
SYMMETRY CallerSymmetry
INVARIANTS
  PublicationIsJustified
  EvidenceStands
  RunContained
CHECK_DEADLOCK FALSE
