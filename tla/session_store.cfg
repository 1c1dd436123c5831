SPECIFICATION FairSpec
CONSTANTS
  Keys = {k1, k2}
  Txs = {1}
  Readings = {1, 2}
  Callers = {old, new}
  Faults = {"flush", "crash", "power", "read"}
INVARIANTS AckedSurvives
PROPERTIES NeverTorn OnlyPutOpens ImplementsMap LockReleased
