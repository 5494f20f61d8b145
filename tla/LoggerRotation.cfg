SPECIFICATION Spec
CONSTANTS
  Producer = {p1, p2}
  max_bytes = 1
  max_backups = 3
  MaxRecords = 6
  MaxCrashes = 1
CHECK_DEADLOCK FALSE
INVARIANTS
  InOrder
  DiskKeeps
  Retention
  ShutdownFlushes
PROPERTIES
  RecordsReachFile
  ShutdownReturns
