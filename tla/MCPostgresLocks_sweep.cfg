SPECIFICATION PgSpec
CONSTANTS
  r1 = r1
  r2 = r2
  s1 = s1
  s2 = s2
  Reservations = {r1, r2}
  Sessions = {s1, s2}
  RequestIds = {}
  NoRequest = NoRequest
  Unknown = Unknown
  NoCost = NoCost
  NoTx = NoTx
  Entities <- MCEntities
  Windows <- MCWindows
  Boundaries <- MCBoundaries
  MaxTime = 2
  Quantum = 1
  Requests <- CompositeAndSingle
  Estimates = {2}
  Costs = {3}
  TTLs = {1}
  LimitChoices = {}
  DbOrder <- PythonOrder
  RowOrders <- PlansOfTwo
  MaxLag = 2
SYMMETRY Symmetry
INVARIANTS
  CommitsWhole
