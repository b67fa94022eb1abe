SPECIFICATION FairSpec
CONSTANTS
  a = a
  Steps = {a}
  None = None
  Pooled = {a}
  Watching = TRUE
  LogRoom = 1
  Room = 1
  MaxLogs = 2
  MaxRecords = 1
INVARIANTS
  LogsOnce
  RecordsWritten
  ExitIsQuiet
PROPERTIES
  ShutdownReturns
CHECK_DEADLOCK FALSE
