SPECIFICATION GatewaySpec
CONSTANTS
  Tickets = {t1, t2}
  Tokens = {k1, k2}
  OrderIds = {o1, o2}
  ClientOrders = {c1}
  Details = {d1}
  ValidDetails = {d1}
  Docs = {}
  Amounts = {right, wrong}
  OrderAmount = right
  SlowBank = TRUE
  None = None
INVARIANTS OneTokenPerTicket ScenarioPinned
