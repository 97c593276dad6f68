SPECIFICATION FairSpec
CONSTANTS
  nodeA = nodeA
  nodeB = nodeB
  nodeR = nodeR
  PeerOrder <- Pair
  Setups <- LossySetups
  MAX_CHUNKS_PER_PACK = 1
  MAX_RETRANSMITS = 1
  MAX_DATA_RETRANSMIT = 1
  FINALACK = 2
  MAXWIN = 2
  QueueMax = 2
  Faults = {"lose", "crash"}
INVARIANTS SwarmTypeOK WhohasQueued
PROPERTIES Settles
CHECK_DEADLOCK FALSE
