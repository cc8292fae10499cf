SPECIFICATION Spec
CONSTANTS
  SeqMod = 5
  K = 2
  W = 2
  MaxConn = 2
  MaxEvents = 4
  Faults = {"break", "cut", "alarm"}
  Cap = 3
  AppWaits = TRUE
  Timely = TRUE
INVARIANTS InOrder ConfirmedWasTaken ErrorMeansLoss NoHiddenGap
CHECK_DEADLOCK FALSE
