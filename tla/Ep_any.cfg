SPECIFICATION Spec
CONSTANTS
  SeqMod = 5
  K = 2
  W = 2
  Eps = {e}
INVARIANTS SendWindow MasterAcks StartedTimers Supervised
PROPERTY SlaveAcks
CHECK_DEADLOCK FALSE
