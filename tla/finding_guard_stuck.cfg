SPECIFICATION FairSpec
CONSTANTS
  Connectors = {g1}
  UserOps = {"PlugIn", "StartCharging"}
  RemoteOps = {}
  CmsRefuses = {}
  Outages = {"drop"}
  InOrder = TRUE
  Patient = TRUE
  CmdCap = 1
  MaxTx = 2
  MaxWh = 1
  MaxInFlight = 2
PROPERTIES GuardReleased
