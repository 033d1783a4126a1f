SPECIFICATION FairSpec
CONSTANTS
  t1 = t1
  t2 = t2
  u1 = u1
  P = P
  Q = Q
  Tasks = {t1, t2, u1}
  Processes = {P, Q}
  Home <- MCHome
  Scenarios <- MCScenarios
  Conns = {1, 2, 3, 4}
  MaxFaults = 1
  MaxCancels = 1
  None = None
INVARIANTS
  SqliteTypeOK
  AnswersMatchFile
  NoInheritedWrites
  MigrateCompletes
PROPERTIES
  WritersReturn
CHECK_DEADLOCK FALSE
