SPECIFICATION Spec
CONSTANTS
  Frames <- MCFrames
  NoiseBytes <- MCNoise
  BuffSize = 24
  AdrLen = 1
  MaxFrames = 2
  MaxFaults = 2
INVARIANTS OnlySent NothingMissed InBounds
CHECK_DEADLOCK FALSE
