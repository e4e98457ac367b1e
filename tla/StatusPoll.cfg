SPECIFICATION PollSpec
CONSTANTS
  MaxPolls = 45
  GatewayStatuses = {"processing", "approved", "declined", "error", "filtered"}
INVARIANTS PollsBounded NoVerdictWhileWatching
PROPERTY ImplementsOrderWatch
