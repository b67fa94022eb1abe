SPECIFICATION FairSpec
CONSTANTS
  source = source
  relay = relay
  sink = sink
  p1 = p1
  p2 = p2
  Sources = {source}
  Sinks = {sink}
  Pipes = {p1}
  From <- PairFrom
  To <- PairTo
  Nodes <- PairNodes
  ById <- PairById
  Order <- PairOrder
  Connects <- PairConnects
  Depth = 1
  Operators = {o1, o2}
  Requests = {"run", "pause", "load"}
  None = None
INVARIANTS
  PausedIsQuiet
PROPERTIES
  RequestsReturn
  MessagesAreHandled
