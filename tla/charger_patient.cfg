SPECIFICATION Spec
CONSTANTS
  Connectors = {g1, g2}
  UserOps <- AllButClearFault
  RemoteOps = {"TriggerBoot"}
  CmsRefuses = {"Boot", "StartTx", "StopLocal"}
  Outages = {"drop", "dialFail", "restart"}
  InOrder = FALSE
  Patient = TRUE
  CmdCap = 1
  MaxTx = 2
  MaxWh = 0
  MaxInFlight = 2
SYMMETRY Symmetry
INVARIANTS HandshakeAlone AnnouncedWhenOnline
PROPERTIES KeepsJournal
