SPECIFICATION Spec
CONSTANTS
  a = a
  b = b
  c1 = c1
  c2 = c2
  c3 = c3
  f1 = f1
  f2 = f2
  None = None
  Clients = {a, b}
  Calls = {c1, c2, c3}
  IdOf <- SharedId
  FileCalls = {f1}
  MaxRequestId = 3
  FirstFileOpId = 3
  MaxQueuedExecs = 1
  BridgeCap = 2
  InputCalls = {}
  MaxVmExits = 0
INVARIANTS IdsKeepTheirOwner
PROPERTIES CancelledNeverStarts
SYMMETRY ClientSymmetry
CHECK_DEADLOCK FALSE
