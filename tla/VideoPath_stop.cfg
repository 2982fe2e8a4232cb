SPECIFICATION FairSpec
CONSTANTS
  t1 = t1
  t2 = t2
  t3 = t3
  Textures = {t1, t2, t3}
  QueueCapacity = 1
  Surfaces = 1
  MaxFrames = 1
PROPERTIES
  StopReturns
