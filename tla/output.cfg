SPECIFICATION FairSpec
CONSTANTS
  Window = 3
  Threshold = 2
  ModePairs <- MCModePairs
  Outputs <- Uneven
  MaxCongestions = 1
INVARIANTS CreditConserved
PROPERTIES ImplementsBoundedBuffer ExecFinishes
CHECK_DEADLOCK FALSE
