SPECIFICATION PromptSpec
CONSTANTS
  nodeA = nodeA
  nodeB = nodeB
  nodeR = nodeR
  PeerOrder <- Trio
  Setups <- PromptSetups
  MAX_CHUNKS_PER_PACK = 3
  MAX_RETRANSMITS = 2
  MAX_DATA_RETRANSMIT = 2
  FINALACK = 3
  MAXWIN = 2
  QueueMax = 3
  Faults = {}
INVARIANTS WindowOfChunk OwnPlace FetchedOnce ServesOne
PROPERTIES ImplementsDownload Reported Settles
CHECK_DEADLOCK FALSE
