SPECIFICATION InputSpec
CONSTANTS
  USERBUF_SIZE = 6
  UINT = 64
  Letters = {"a"}
  MaxTyped = 9
INVARIANTS ExitMeansLongLine
CHECK_DEADLOCK FALSE
