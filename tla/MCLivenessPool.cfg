CONSTANTS
  None = None
  Dead = Dead
  Executors = {w1, w2}
  Scanners = {r1}
  ToolCalls = {1}
  Gates = {}
  Faults = {"crash", "lease"}
  MaxFaults = 1
SPECIFICATION FairSpec
CHECK_DEADLOCK FALSE
PROPERTIES
  QueuedIsServed
