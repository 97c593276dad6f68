SPECIFICATION PromptSpec
CONSTANTS
  FINALACK = 10
  MAXWIN = 6
  QueueMax = 2
  MAX_RETRANSMITS = 2
  MAX_DATA_RETRANSMIT = 3
  SenderResidue = {0, 1}
  ReceiverResidue = {0, 1}
  Faults = {"lose", "crash"}
INVARIANTS NoSegv WindowIsExact WindowBounded CongestionControlOK
PROPERTIES ChunkArrives SenderFreed ServingEnds FetchingEnds
CHECK_DEADLOCK FALSE
