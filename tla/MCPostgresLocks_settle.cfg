SPECIFICATION PgSpec
CONSTANTS
  r1 = r1
  r2 = r2
  s1 = s1
  s2 = s2
  Reservations = {r1}
  Sessions = {s1, s2}
  RequestIds = {}
  NoRequest = NoRequest
  Unknown = Unknown
  NoCost = NoCost
  NoTx = NoTx
  Entities <- MCEntities
  Windows <- MCWindows
  Boundaries <- MCBoundaries
  MaxTime = 3
  Quantum = 1
  Requests <- Composite
  Estimates = {2}
  Costs = {3}
  TTLs = {2}
  LimitChoices <- BothCaps
  DbOrder <- PythonOrder
  RowOrders <- PlansThatDiffer
  MaxLag = 1
SYMMETRY SessionSymmetry
INVARIANTS
  CirclesAreOverBareRows
  WritesAreLocked
PROPERTIES
  ImplementsLedger
