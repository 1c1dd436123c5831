SPECIFICATION Spec
CONSTANTS
  Configs = {cfgA, cfgB}
  Handlers = {h1, h2}
  Faults = {"crash", "write", "mkdir"}
  MaxCharger = 4
SYMMETRY Symmetry
INVARIANTS OneCharger SavedIsRunning
PROPERTIES RestartRestores
