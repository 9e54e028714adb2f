SPECIFICATION FlushSpec
CONSTANTS
  e1 = e1
  e2 = e2
  Execs = {e1, e2}
  Program <- EchoAndDeaf
  Input <- OneAndThree
  MaxChunk = 1
  MaxQueued = 2
  MaxTotalQueued = 2
  GuestMax = 1
  PipeSize = 1
  MaxCongestions = 1
INVARIANTS
  StdinSound
  StdinCreditConserved

  
CHECK_DEADLOCK FALSE
