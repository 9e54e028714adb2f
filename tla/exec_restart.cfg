SPECIFICATION FairSpec
CONSTANTS
  a = a
  b = b
  c1 = c1
  c2 = c2
  c3 = c3
  f1 = f1
  f2 = f2
  None = None
  Clients = {a}
  Calls = {c1, c2}
  IdOf <- UniqueIds
  FileCalls = {f1}
  MaxRequestId = 3
  FirstFileOpId = 3
  MaxQueuedExecs = 2
  BridgeCap = 2
  InputCalls = {c1}
  MaxVmExits = 1
INVARIANTS QueueSound
PROPERTIES ExecAnswered FileOpSettles
CHECK_DEADLOCK FALSE
