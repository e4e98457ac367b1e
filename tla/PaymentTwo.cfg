SPECIFICATION Spec
CONSTANTS
  Docs = {p1, p2}
  Attempts = {i1, i2}
  Tickets = {t1, t2}
  Tokens = {k1, k2}
  OrderIds = {o1, o2}
  ClientOrders = {c1, c2}
  Details = {good}
  ValidDetails = {good}
  Amounts = {a1}
  OrderAmount = a1
  SlowBank = TRUE
  MaxPolls = 1
  GatewayStatuses = {"processing", "approved", "declined"}
  None = None
SYMMETRY PaymentSymmetry
INVARIANTS PaymentTypeOK NoTokenPaysTwice FollowsOwnOrder VerdictIsTrue
PROPERTY VerdictSticks
CHECK_DEADLOCK FALSE
