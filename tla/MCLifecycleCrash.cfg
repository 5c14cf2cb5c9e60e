CONSTANTS
  None = None
  Dead = Dead
  Executors = {w1, w2}
  Scanners = {r1}
  ToolCalls = {1, 2}
  Gates = {}
  Faults = {"crash"}
  MaxFaults = 1
SPECIFICATION LifecycleSpec
CHECK_DEADLOCK FALSE
SYMMETRY WorkerSymmetry
PROPERTIES
  ReplayOnlyOrphans
  NoRepromptAfterCheckpoint
  ReplayOverSettledTools
