SPECIFICATION Spec
CONSTANTS
  TIME_DEV_L_LIMIT = 2
  TIME_DEV_H_LIMIT = 3
  MaxTime = 5
  MaxSyncs = 2
  db_sync_period = 2
  export_period = 2
  storage_deep = 2
  add_period = 1
  Fails = TRUE
  MaxRecs = 2
  MaxStops = 1
INVARIANTS Disciplined TimeMeansExported NothingLost ExportedOnce
CHECK_DEADLOCK FALSE
