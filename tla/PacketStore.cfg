SPECIFICATION FairSpec
CONSTANTS
  encoder = encoder
  recorder = recorder
  None = None
  Threads = {encoder, recorder}
  Sizes = {1, 2}
  MaxQueuedPackets = 2
  MaxQueuedBytes = 2
  MaxPackets = 2
INVARIANTS
  IndexInAcceptedOrder
  QueueAccounting
  ExportSeesAcceptedPackets
  BoundaryPacketsSurviveCrash
  CloseMakesAllRecoverable
  RejectionLosesNothingAccepted
PROPERTIES
  NothingWrittenAfterIoFailure
  ImplementsLog
  EveryCallReturns
