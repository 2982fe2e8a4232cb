SPECIFICATION Spec
CONSTANTS
  Capacity = 3
  MaxPush = 4
  MaxPop = 4
  Frames = {0, 1, 2}
  Rates <- CommonRates
  MaxBlock = 7
  MaxFrames = 24
  Cadences <- CommonCadences
  Word = 32
  MaxTick = 20
  MaxGap = 8
  AudioTracks = {2}
  FrameLength = 2
  AacLength = 3
  MaxVideo = 4
  MaxAudio = 2
  MaxInterval = 3
  Formats <- CommonFormats
  OutputRates = {0, 48000}
  FirstTracks = {0, 1, 2, 3}
  MaxTrackId = 3
  MonitorSizes = {1, 3}
  CustomSizes = {4}
  HeaderSize = 2
  NalUnits <- CommonUnits
  StartCodes <- CommonCodes
  MaxUnits = 3
  Apps = {a1, a2}
  MaxStarts = 3
SYMMETRY AppSymmetry
INVARIANTS
  SamplesKeepUnits
  ExportsAreWhole
  SetupUnwinds
  TracksAgree
  SettingsSurvive
PROPERTIES
  FifoIsQueue
  BlocksConvert
  CadencePaced
CHECK_DEADLOCK FALSE
