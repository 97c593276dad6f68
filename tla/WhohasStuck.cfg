SPECIFICATION PromptSpec
CONSTANTS
  nodeA = nodeA
  nodeB = nodeB
  nodeR = nodeR
  PeerOrder <- Trio
  Setups <- UnevenSetups
  MAX_CHUNKS_PER_PACK = 2
  MAX_RETRANSMITS = 2
  MAX_DATA_RETRANSMIT = 2
  FINALACK = 2
  MAXWIN = 2
  QueueMax = 3
  Faults = {}
PROPERTIES WhohasSent
CHECK_DEADLOCK FALSE
