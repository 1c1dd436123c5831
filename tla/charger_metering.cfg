SPECIFICATION Spec
CONSTANTS
  Connectors = {g1}
  UserOps <- AllOps
  RemoteOps <- AllButRemoteStart
  CmsRefuses <- CallKinds
  Outages = {"drop", "dialFail"}
  InOrder = FALSE
  Patient = TRUE
  CmdCap = 1
  MaxTx = 3
  MaxWh = 2
  MaxInFlight = 2
CHECK_DEADLOCK FALSE
INVARIANTS NoEnergyBilledTwice
