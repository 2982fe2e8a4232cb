SPECIFICATION Spec
CONSTANTS
  f1 = f1
  f2 = f2
  block = block
  Video = {f1, f2}
  Audio = {block}
  CaptureFaults = {"topology", "device", "other"}
  CommandCapacity = 1
  ExportCapacity = 1
  RequestKinds = {}
  MaxRequests = 0
  MaxGenerations = 1
INVARIANTS
  SavedMeansComplete
PROPERTIES
  StopIsFinal
