SPECIFICATION FairSyncSpec
CONSTANTS
  a = a
  b = b
  d = d
  Threads = {a, b, d}
  Daemons = {d}
  Loops = {1, 2, 3}
  None = None
INVARIANTS
  OneLoop
PROPERTIES
  SyncCallsReturn
CHECK_DEADLOCK FALSE
