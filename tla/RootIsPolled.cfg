SPECIFICATION ReactSpec
CONSTANTS
  NameMax = 50
  CardNameMax = 128
  PollsMax = 45
  Ports = {"nextjs"}
  BasePaths = {"", "/demo"}
  GatewayStatuses = {"processing", "approved"}
PROPERTY OrderFollowedAtTheRoot
CHECK_DEADLOCK FALSE
