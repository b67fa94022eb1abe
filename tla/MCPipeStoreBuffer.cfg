SPECIFICATION FairSpec
CONSTANTS
  Producers = {p1}
  Listener = listener
  Stoppers = {s1}
  Capacity = 1
  Quota = 3
  Buffered = TRUE
  None = None
INVARIANTS
  TypeOK
PROPERTIES
  StopReleases
  PushWakes
