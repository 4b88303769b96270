SPECIFICATION FairSpec
CONSTANTS
  Faults = {"bus", "adc", "timers", "stop", "outputs", "link"}
  MaxRuns = 2
  MaxTicks = 2
INVARIANTS
  TypeOK
  PublishedDataIsFrozen
  OneVerdictPerRun
  EveryTickIsAccounted
  VerdictIsCaused
PROPERTY
  RunEnds
