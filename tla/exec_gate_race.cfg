SPECIFICATION Spec
CONSTANTS
  a = a
  b = b
  c1 = c1
  c2 = c2
  c3 = c3
  f1 = f1
  f2 = f2
  None = None
  Clients = {a}
  Calls = {c1}
  IdOf <- OneId
  FileCalls = {f1}
  MaxRequestId = 3
  FirstFileOpId = 3
  MaxQueuedExecs = 2
  BridgeCap = 2
  InputCalls = {}
  MaxVmExits = 0
INVARIANT FileOpsExcludeExecs
CHECK_DEADLOCK FALSE
