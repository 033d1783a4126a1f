SPECIFICATION PgSpec
CONSTANTS
  r1 = r1
  r2 = r2
  s1 = s1
  s2 = s2
  Reservations = {r1, r2}
  Sessions = {s1, s2}
  RequestIds = {"q"}
  NoRequest = NoRequest
  Unknown = Unknown
  NoCost = NoCost
  NoTx = NoTx
  Entities <- MCEntities
  Windows <- MCWindows
  Boundaries <- MCBoundaries
  MaxTime = 0
  Quantum = 1
  Requests <- CompositeAndSingle
  Estimates = {2}
  Costs = {3}
  TTLs = {1}
  LimitChoices <- BothCaps
  DbOrder <- PythonOrder
  RowOrders <- PlansOfTwo
  MaxLag = 0
SYMMETRY Symmetry
INVARIANTS
  NoDeadlock
PROPERTIES
  ImplementsLedger
