SPECIFICATION FairSpec
CONSTANTS
  source = source
  relay = relay
  sink = sink
  p1 = p1
  p2 = p2
  Sources = {source}
  Sinks = {relay, sink}
  Pipes = {p1, p2}
  From <- ChainFrom
  To <- ChainTo
  Nodes <- ChainNodes
  ById <- ChainById
  Order <- ChainOrder
  Connects <- ChainConnects
  Depth = 1
  Operators = {o1}
  Requests = {"run", "pause", "reset", "load"}
  None = None
INVARIANTS
  TypeOK
  NoOrphanWait
  HandlersOnActiveNodes

PROPERTIES
  LoadedIsComplete
