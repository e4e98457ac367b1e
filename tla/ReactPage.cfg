SPECIFICATION ReactSpec
CONSTANTS
  NameMax = 50
  CardNameMax = 128
  PollsMax = 45
  Ports = {"nextjs", "go-react"}
  BasePaths = {"/demo"}
  GatewayStatuses = {"processing", "approved", "declined", "error", "filtered"}
PROPERTIES ImplementsOrderWatch CleanedUpRunIsSilent OrderFollowed
CHECK_DEADLOCK FALSE
