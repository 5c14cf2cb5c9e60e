CONSTANTS
  None = None
  Dead = Dead
  Executors = {w1}
  Scanners = {r1}
  ToolCalls = {1, 2}
  Gates = {"approval"}
  Faults = {"crash"}
  MaxFaults = 0
SPECIFICATION LifecycleSpec
CHECK_DEADLOCK FALSE
PROPERTY DispatchedIsNeverCancelled
