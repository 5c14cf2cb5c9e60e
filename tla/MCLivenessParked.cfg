CONSTANTS
  None = None
  Dead = Dead
  Executors = {w1}
  Scanners = {r1}
  ToolCalls = {1}
  Gates = {"approval", "input"}
  Faults = {"crash"}
  MaxFaults = 1
SPECIFICATION FairSpec
CHECK_DEADLOCK FALSE
PROPERTIES
  CancelTerminates
  NeverHangs
