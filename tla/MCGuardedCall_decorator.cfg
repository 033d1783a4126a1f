SPECIFICATION GuardSpec
CONSTANTS
  c1 = c1
  c2 = c2
  Callers = {c1, c2}
  RequestIds = {"q"}
  NoRequest = NoRequest
  None = None
  NoRate = NoRate
  Unpriceable = Unpriceable
  DefaultBook <- MCBook
  Overrides <- MCOverrides
  Orders <- MCOrders
  Jobs <- DecoratedRetries
SYMMETRY Symmetry
INVARIANTS
  PaidOnceEach
CHECK_DEADLOCK FALSE
