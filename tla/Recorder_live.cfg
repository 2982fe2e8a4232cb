SPECIFICATION FairSpec
CONSTANTS
  Video = {}
  Audio = {}
  CaptureFaults = {"topology"}
  CommandCapacity = 1
  ExportCapacity = 1
  RequestKinds = {"clip", "bookmark"}
  MaxRequests = 1
  MaxGenerations = 2
INVARIANTS
  OneRecordingAtATime
  StoreClosesLast
  EveryRequestAnswered
PROPERTIES
  StopIsAnswered
  ShutdownReturns
