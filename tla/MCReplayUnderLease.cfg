CONSTANTS
  None = None
  Dead = Dead
  Executors = {w1, w2}
  Scanners = {r1, r2}
  ToolCalls = {1}
  Gates = {}
  Faults = {"crash"}
  MaxFaults = 1
SPECIFICATION LifecycleSpec
CHECK_DEADLOCK FALSE
PROPERTY ReplayOnlyOrphans
