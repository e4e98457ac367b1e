SPECIFICATION FairSpec
CONSTANTS
  Docs = {p1, p2, p3}
  Attempts = {i1}
  Tickets = {t1}
  Tokens = {k1}
  OrderIds = {o1}
  ClientOrders = {c1}
  Details = {good}
  ValidDetails = {good}
  Amounts = {a1}
  OrderAmount = a1
  SlowBank = TRUE
  MaxPolls = 2
  GatewayStatuses = {"processing", "approved", "declined"}
  None = None
INVARIANT IssuerOnce
PROPERTIES PagesKeepWatch PaymentsEnd
CHECK_DEADLOCK FALSE
