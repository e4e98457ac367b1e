SPECIFICATION Spec
CONSTANTS
  Docs = {p1}
  Attempts = {i1, i2}
  Tickets = {t1}
  Tokens = {k1, k2}
  OrderIds = {o1}
  ClientOrders = {c1, c2}
  Details = {good, bad}
  ValidDetails = {good}
  Amounts = {a1}
  OrderAmount = a1
  SlowBank = TRUE
  MaxPolls = 2
  GatewayStatuses = {"processing", "approved", "declined"}
  None = None
INVARIANT ErrorMeansNothingCharged
CHECK_DEADLOCK FALSE
