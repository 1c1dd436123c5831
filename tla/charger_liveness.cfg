SPECIFICATION FairSpec
CONSTANTS
  Connectors = {g1}
  UserOps <- LivenessOps
  RemoteOps = {}
  CmsRefuses = {}
  Outages = {"drop", "restart"}
  InOrder = TRUE
  Patient = FALSE
  CmdCap = 1
  MaxTx = 2
  MaxWh = 1
  MaxInFlight = 2
PROPERTIES RecoveryCompletes StopCompletes ComesBack
INVARIANTS LiveTxPersisted OfflineQuiescent SnapshotFresh
