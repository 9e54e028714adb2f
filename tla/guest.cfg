SPECIFICATION GuestSpec
CONSTANTS
  Confs <- LaunchConfs
  CpuLimit = 2
  MaxFaults = 2
  Setups <- GatewayRequests
INVARIANTS
  FramesArrive
  PayloadConfined
  CompleteAnswersAreWhole
PROPERTIES
  ExhaustionEndsPayload
  AnsweredOrGivenUp
CHECK_DEADLOCK FALSE
