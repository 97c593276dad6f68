SPECIFICATION Spec
CONSTANTS
  FINALACK = 3
  MAXWIN = 3
  QueueMax = 2
  MAX_RETRANSMITS = 2
  MAX_DATA_RETRANSMIT = 2
  SenderResidue = {0}
  ReceiverResidue = {0}
  Faults = {}
INVARIANTS NoSegv
CHECK_DEADLOCK FALSE
