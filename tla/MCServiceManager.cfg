SPECIFICATION FairSpec
CONSTANTS
  Clients = {c1, c2}
  Worker = worker
  Topics = {plain, nesting}
  Signatures = {g1, g2}
  Nesting = {nesting}
  None = None
INVARIANTS
  CallsInHand
  NoSleepOnCall
PROPERTIES
  CallsAnswered
  StopReturns
