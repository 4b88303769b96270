SPECIFICATION Spec
CONSTANTS
  SensorCount = 1
  Capacity = 2
  intervalTicks = 2
  TimerPeriod = 4
  Channels = 2
  MaximumDmaSegmentLength = 2
  ValueCount = 4
  Unwritten = Unwritten
  MaxScans = 2
  WordBytes = 2
  PayloadSize = 7
  RunTicks = 2
  Periods = {1, 2}
  AdcFaults = TRUE
  MaxTime = 4
  MaxRuns = 2
INVARIANTS
  TypeOK
  EdgesReachTheHost
  SamplesReachTheHost
CHECK_DEADLOCK FALSE
