SPECIFICATION PromptSpec
CONSTANTS
  nodeA = nodeA
  nodeB = nodeB
  nodeR = nodeR
  PeerOrder <- Trio
  Setups <- ContentionSetups
  MAX_CHUNKS_PER_PACK = 1
  MAX_RETRANSMITS = 1
  MAX_DATA_RETRANSMIT = 2
  FINALACK = 2
  MAXWIN = 2
  QueueMax = 2
  Faults = {"lose"}
INVARIANTS DeniesNew
CHECK_DEADLOCK FALSE
