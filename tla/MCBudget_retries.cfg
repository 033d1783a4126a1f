SPECIFICATION BudgetSpec
CONSTANTS
  t1 = t1
  t2 = t2
  Reservations = {t1, t2}
  RequestIds = {"q"}
  NoRequest = NoRequest
  Unknown = Unknown
  NoCost = NoCost
  NoHandle = NoHandle
  Entities <- MCEntities
  Windows <- MCWindows
  Boundaries <- MCBoundaries
  MaxTime = 2
  Quantum = 1
  Requests <- Single
  Estimates = {1, 2}
  Costs = {3}
  TTLs = {1}
  LimitChoices <- Cap
  MaxLag = 2
  Callers = {t1, t2}
  Calls <- MixedCalls
  Sharing <- NoSharing
SYMMETRY Symmetry
INVARIANTS
  BudgetTypeOK
  PaidOnce
  CommittedHandlesAreTrue
  CommittedHandlesShowTheCharge
  EventsMatchLedger
  ConflictsConverge
PROPERTIES
  ImplementsLedger
