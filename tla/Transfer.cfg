SPECIFICATION Spec
CONSTANTS
  FINALACK = 4
  MAXWIN = 3
  QueueMax = 2
  MAX_RETRANSMITS = 2
  MAX_DATA_RETRANSMIT = 2
  SenderResidue = {0, 2}
  ReceiverResidue = {0, 2}
  Faults = {"lose", "duplicate", "reorder", "crash"}
INVARIANTS TypeOK CompleteIsWhole AckSound AckIsLargest FirstBlockFirst SomethingToResend
PROPERTIES FinishedIsStored AcksNeverUndone ImplementsDelivery
CHECK_DEADLOCK FALSE
