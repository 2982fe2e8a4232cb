SPECIFICATION Spec
CONSTANTS
  frame = frame
  Video = {frame}
  Audio = {}
  CaptureFaults = {}
  CommandCapacity = 1
  ExportCapacity = 1
  RequestKinds = {}
  MaxRequests = 0
  MaxGenerations = 1
PROPERTIES
  EncoderFailureIsPreserved
