CONSTANTS
  None = None
  Dead = Dead
  Executors = {w1}
  Scanners = {r1}
  ToolCalls = {1, 2}
  Gates = {"approval", "input"}
  Faults = {"crash"}
  MaxFaults = 1
SPECIFICATION LifecycleSpec
CHECK_DEADLOCK FALSE
PROPERTY RecoveredSuccessIsFinal
