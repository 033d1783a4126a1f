SPECIFICATION Spec
CONSTANTS
  r1 = r1
  r2 = r2
  r3 = r3
  Reservations = {r1, r2, r3}
  RequestIds = {}
  NoRequest = NoRequest
  Unknown = Unknown
  NoCost = NoCost
  Entities <- MCEntities
  Windows <- MCWindows
  Boundaries <- MCBoundaries
  MaxTime = 1
  Quantum = 2
  Requests <- OneDay
  Estimates = {1, 4}
  Costs = {0}
  TTLs = {1}
  LimitChoices <- DayCap
  MaxLag = 1
SYMMETRY Symmetry
PROPERTIES
  GrantsWithinCap
