SPECIFICATION Spec
CONSTANTS
  Ports <- AllPorts
  Requests <- AllRequests
  Replies <- AllReplies
INVARIANTS SameEverywhere ReturnReachesThePage SaleIsOurs
PROPERTIES KeepsTheContract RequestsEnd
