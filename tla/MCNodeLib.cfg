SPECIFICATION FairSpec
CONSTANTS
  s1 = s1
  s2 = s2
  s3 = s3
  worker = worker
  tool = tool
  A = A
  B = B
  Steps = {s1, s2, s3}
  Ordered <- Alphabetic
  Plugins = {A, B}
  Classes = {worker, tool}
  Home <- OfPlugin
  First <- Found
  MaxBuild <- Made
  Broken <- Unopened
  Throwing <- Unready
  Failing <- Uninitialized
  Stateful <- Keeping
  Files <- AllFiles
  Pooled = {s2}
  None = None
INVARIANTS
  CodeIsCurrent
  SortedOrder
PROPERTIES
  NewestCodeRuns
  RequestsReturn
CHECK_DEADLOCK FALSE
