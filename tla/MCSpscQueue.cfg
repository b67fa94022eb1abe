SPECIFICATION FairSpec
CONSTANTS
  Capacity = 3
  Msg = {m1, m2}
  None = None
INVARIANTS
  QueueInv
PROPERTIES
  ImplementsFifo
  OldestIsPopped
