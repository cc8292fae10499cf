SPECIFICATION FairSpec
CONSTANTS
  Tables <- MCTables
  NRoutes = 2
  MaxFd = 4
  Strangers <- MCStrangers
INVARIANTS OwnSocket SetsAreFresh
CHECK_DEADLOCK FALSE
PROPERTY Served
