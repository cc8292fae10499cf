SPECIFICATION Spec
CONSTANTS
  NDev = 2
  MaxItems = 2
  NRoutes = 2
  l1 = l1
  l2 = l2
  Lines = {l1, l2}
  Wirings <- MCWirings
  Commands <- MCCommands
  MaxWire = 4
INVARIANTS SomeoneReopens SomeoneGoesOn
PROPERTIES Genuine AnsweredIsPassed
CHECK_DEADLOCK FALSE
