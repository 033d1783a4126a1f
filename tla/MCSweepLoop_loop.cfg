SPECIFICATION FairSweepSpec
CONSTANTS
  t1 = t1
  t2 = t2
  Reservations = {t1, t2}
  RequestIds = {}
  NoRequest = NoRequest
  Unknown = Unknown
  NoCost = NoCost
  NoHandle = NoHandle
  Entities <- MCEntities
  Windows <- MCWindows
  Boundaries <- MCBoundaries
  MaxTime = 2
  Quantum = 1
  Requests <- Composite
  Estimates = {2}
  Costs = {2}
  TTLs = {1}
  LimitChoices = {}
  MaxLag = 2
  Callers = {t1}
  Calls <- MCCalls
  Sharing <- SharedHandle
  Looping = {"loop"}
  OneShot = {"cron"}
INVARIANTS
  CommittedHandlesAreTrue
  ReportsAddUp
PROPERTIES
  AbandonedBudgetReturns
  SignalEndsTheLoop
CHECK_DEADLOCK FALSE
