SPECIFICATION FairSpec
CONSTANTS
  Producers = {p1}
  Listener = listener
  Stoppers = {s1}
  Capacity = 3
  Quota = 3
  Buffered = FALSE
  None = None
INVARIANTS
  NoLostWakeup
PROPERTIES
  InOrder
  ImplementsChannel
  Delivered
