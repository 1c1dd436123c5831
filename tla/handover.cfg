SPECIFICATION HandoverSpec
CONSTANTS
  Connectors = {g1}
  UserOps <- Commands
  RemoteOps = {}
  CmsRefuses = {"StopLocal", "StartTx"}
  Outages = {"drop"}
  InOrder = FALSE
  Patient = TRUE
  CmdCap = 1
  MaxTx = 2
  MaxWh = 0
  MaxInFlight = 2
INVARIANTS InheritedIsClosed
PROPERTIES JournalHandedOver
