SPECIFICATION Spec
CONSTANTS
  Configs = {cfgA}
  Handlers = {h1}
  Faults = {"mkdir"}
  MaxCharger = 2
INVARIANTS ContinuesWithoutStore
