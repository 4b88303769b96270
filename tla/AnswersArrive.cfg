SPECIFICATION FairSpec
CONSTANTS
  Capacity = 2
  MaxRequests = 2
  RxCapacity = 1
  Chunks = 1
  LinkFaults = {}
  Commands <- AllCommands
  HostMessages <- AllMessages
  MaxReports = 1
PROPERTIES
  AnswerArrives
  TransferEnds
