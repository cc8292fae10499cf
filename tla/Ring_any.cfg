SPECIFICATION Spec
CONSTANTS
  N = 6
  H = 2
  PipeSize = 12
  Lens = {2, 3}
  MaxBytes = 24
  MaxEvents = 2
INVARIANTS InOrder WholeMessages NothingForgotten
PROPERTY IsChannel
CHECK_DEADLOCK FALSE
