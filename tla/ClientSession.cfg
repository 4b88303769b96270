SPECIFICATION FairSpec
CONSTANTS
  Chunks = 2
  PipeLength = 2
  RunIds = {0, 1, 2, 3}
  EarlierRun = 3
  Debug = TRUE
  Faults = {"verdict", "adc", "link", "session"}
  UserCalls = {"Start", "Stop", "Abort", "Wait"}
  MaxStarts = 2
  None = None
INVARIANTS
  TypeOK
  PayloadIsOfOneRun
  ResultIsOfItsRun
  VerdictIsOfItsRun
  ActiveIsExplained
PROPERTY
  CallsReturn
CHECK_DEADLOCK FALSE
