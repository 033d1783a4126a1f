SPECIFICATION Spec
CONSTANTS
  r1 = r1
  r2 = r2
  r3 = r3
  Reservations = {r1, r2}
  RequestIds = {}
  NoRequest = NoRequest
  Unknown = Unknown
  NoCost = NoCost
  Entities <- MCEntities
  Windows <- MCWindows
  Boundaries <- MCBoundaries
  MaxTime = 2
  Quantum = 2
  Requests <- SingleAndComposite
  Estimates = {1, 4}
  Costs = {0, 3}
  TTLs = {1}
  LimitChoices <- GraceCaps
  MaxLag = 0
SYMMETRY Symmetry
INVARIANTS
  TypeOK
  TotalsMatchLedger
  GroupsAgree
PROPERTIES
  GrantsWithinCap
  FollowsLifecycle
  ImplementsSpendCap
