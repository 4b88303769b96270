SPECIFICATION Spec
CONSTANTS
  Capacity = 2
  MaxRequests = 2
  RxCapacity = 1
  Chunks = 2
  LinkFaults = {"unplug", "stall", "fragment"}
  Commands <- AllCommands
  HostMessages <- AllMessages
  MaxReports = 1
INVARIANTS
  TypeOK
  SlotsAreCounted
  BufferIsBorrowedOnce
  AtMostOneAnswer
  FramesAreInOrder
  VerdictBeforeData
