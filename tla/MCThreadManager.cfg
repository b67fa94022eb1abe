SPECIFICATION FairSpec
CONSTANTS
  c1 = c1
  c2 = c2
  Callers = {c1, c2}
  Workers = 2
  Affinity <- OneStep
  Limit = 1
  Quota = 2
INVARIANTS
  NoSleepOnWork
  Accounted
PROPERTIES
  HandledInOrder
  QueuedIsExecuted
  ShutdownReturns
CHECK_DEADLOCK FALSE
