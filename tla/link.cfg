SPECIFICATION Spec
CONSTANTS
  Ids = {"a", "b", "c"}
  CmsCalls <- SomeCmsCalls
  InCap = 1
  WireCap = 1
  MaxConn = 2
  MaxPending = 2
  MaxExtra = 1
CHECK_DEADLOCK FALSE
INVARIANTS TypeOK
PROPERTIES SettledOnce ReadLoopsEnd EveryCallSettles ImplementsFifo
