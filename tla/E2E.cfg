SPECIFICATION E2ESpec
CONSTANTS
  NoKey = "none"
  NameOrder <- MCNames
  VerifyOAuth = TRUE
  Order <- MCOrder
  CommandLines <- MCCommandLines
  Machines <- MCMachines
  Payments <- MCPayments
  KeyNames <- MCKeys
  MaxRuns = 2
  MaxKills = 1
  MaxRemovals = 1
INVARIANTS PairIsAPair GreenMeansPaid RedForAReason CallsVerify OneSignatureOneSale
PROPERTY EveryRunEnds
CHECK_DEADLOCK FALSE
