CONSTANTS
  None = None
  Dead = Dead
  Executors = {w1, w2}
  Scanners = {r1}
  ToolCalls = {1}
  Gates = {"approval", "input"}
  Faults = {"lease", "lock"}
  MaxFaults = 1
SPECIFICATION LifecycleSpec
CHECK_DEADLOCK FALSE
SYMMETRY WorkerSymmetry
INVARIANT OneRuntime
