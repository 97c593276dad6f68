SPECIFICATION Spec
CONSTANTS
  nodeA = nodeA
  nodeB = nodeB
  nodeR = nodeR
  PeerOrder <- Pair
  Setups <- OneToOneSetups
  MAX_CHUNKS_PER_PACK = 2
  MAX_RETRANSMITS = 1
  MAX_DATA_RETRANSMIT = 1
  FINALACK = 2
  MAXWIN = 2
  QueueMax = 2
  Faults = {}
INVARIANTS OwnPlace
CHECK_DEADLOCK FALSE
