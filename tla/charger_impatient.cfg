SPECIFICATION Spec
CONSTANTS
  Connectors = {g1}
  UserOps <- ConnectorOps
  RemoteOps <- PassiveRemoteOps
  CmsRefuses <- CallKinds
  Outages = {"dialFail", "shutdown"}
  InOrder = TRUE
  Patient = FALSE
  CmdCap = 2
  MaxTx = 3
  MaxWh = 0
  MaxInFlight = 3
CHECK_DEADLOCK FALSE
INVARIANTS TypeOK TxMatchesStatus NoOrphan OneHandshake
