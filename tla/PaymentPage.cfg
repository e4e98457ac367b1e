SPECIFICATION Spec
CONSTANTS
  Docs = {p1}
  Attempts = {i1, i2, i3}
  Tickets = {t1}
  Tokens = {k1, k2}
  OrderIds = {o1, o2}
  ClientOrders = {c1, c2, c3}
  Details = {good, bad}
  ValidDetails = {good}
  Amounts = {a1}
  OrderAmount = a1
  SlowBank = TRUE
  MaxPolls = 2
  GatewayStatuses = {"processing", "approved", "declined"}
  None = None
SYMMETRY PaymentSymmetry
INVARIANTS OnePayPerPage OneLoopPerPage LiveButtonIdle OneMessageAtATime
PROPERTIES DeadButtonStaysDead PagesKeepWatch
CHECK_DEADLOCK FALSE
