SPECIFICATION Spec
CONSTANTS
  t1 = t1
  t2 = t2
  t3 = t3
  Textures = {t1, t2, t3}
  QueueCapacity = 1
  Surfaces = 2
  MaxFrames = 3
SYMMETRY TextureSymmetry
INVARIANTS
  PacketsShowTheirFrames
  CapturedIsStored
  CallbacksSeeRuntime
