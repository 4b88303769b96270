SPECIFICATION Spec
CONSTANTS
  Chunks = 1
  PipeLength = 2
  RunIds = {0, 1, 2, 3}
  EarlierRun = 3
  Debug = TRUE
  Faults = {}
  UserCalls = {"Start", "Drive"}
  MaxStarts = 2
  None = None
INVARIANT CloseIsSafe
CHECK_DEADLOCK FALSE
