SPECIFICATION Spec
CONSTANTS
  Types = {"AC", "DC"}
  Grain = 2
  Ceiling = 2
  Full = 10
  Initial = 5
  Phases = 3
  Interval = 1
  Powers <- SomePowers
  Modes <- AllModes
  MaxTime = 4
INVARIANTS TypeOK NeverOverfilled BilledWithinCeiling FaultsOnlyHide
PROPERTIES ReadingsNeverBack
