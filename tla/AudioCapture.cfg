SPECIFICATION Spec
CONSTANTS
  NSources = 2
  NTracks = 2
  Capacity = 2
  Packet = 3
  Tolerance = 1
  Silence = 2
  PacketFill = 1
  TickFill = 1
  FinalFill = 2
  Budget = 1
  Lag = 2
  Instants = {3, 7}
INVARIANTS
  TrackIsContinuous
  NothingLostUnnoticed
PROPERTIES
  StopIsDecisive
CHECK_DEADLOCK FALSE
