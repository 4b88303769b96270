SPECIFICATION FairSpec
CONSTANTS
  QueueSize = 3
  MaxEdges = 6
INVARIANTS
  TypeOK
  StaleFramesAreFew
PROPERTIES
  FramesAreNewCrossings
  RingDrains
