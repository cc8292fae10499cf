SPECIFICATION FairSpec
CONSTANTS
  Iec <- MCIec
  Devices <- MCDevices
  Hmi = 9
  MaxEp = 2
INVARIANTS ReadyIsReady NobodyExits
PROPERTY AllSetUp
CHECK_DEADLOCK FALSE
