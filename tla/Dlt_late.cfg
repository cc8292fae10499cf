SPECIFICATION Spec
CONSTANTS
  NDev = 2
  MaxItems = 2
  Rough = TRUE
PROPERTIES GivenUpMeansNext
CHECK_DEADLOCK FALSE
