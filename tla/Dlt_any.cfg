SPECIFICATION FairSpec
CONSTANTS
  NDev = 2
  MaxItems = 2
  Rough = TRUE
INVARIANTS WaitingPlace
PROPERTIES AskedOnce AsksEverything CollectsForEver
CHECK_DEADLOCK FALSE
