SPECIFICATION Spec
CONSTANTS
  Routers <- FiveRouters
  Topologies <- ChainTopologies
  Flows <- FourFlows
  MaxSent = 2
  QueueMax = 2
  Faults = {}
INVARIANTS TypeOK OnShortestPath
PROPERTIES ImplementsLink QueuesDrain
CHECK_DEADLOCK FALSE
