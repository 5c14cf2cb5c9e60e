CONSTANTS
  None = None
  ToolCalls = {1, 2}
  Executors = {e1, e2}
SPECIFICATION Spec
CHECK_DEADLOCK FALSE
INVARIANTS
  LedgerTypeOK
  AskIsAnswerable
  OneQuestion
  OneTerminalNotice
  ApprovalGatesTool
  SuccessIsCheckpointed
PROPERTY KeepsPromise
