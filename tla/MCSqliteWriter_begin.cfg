SPECIFICATION Spec
CONSTANTS
  t1 = t1
  t2 = t2
  u1 = u1
  P = P
  Q = Q
  Tasks = {t1, t2, u1}
  Processes = {P, Q}
  Home <- MCHome
  Scenarios <- MCScenarios
  Conns = {1, 2, 3, 4}
  MaxFaults = 0
  MaxCancels = 1
  None = None
INVARIANTS
  LockHasHolder
CHECK_DEADLOCK FALSE
