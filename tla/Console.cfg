SPECIFICATION Spec
CONSTANTS
  USERBUF_SIZE = 6
  UINT = 64
  Letters = {"a"}
  MaxTyped = 7
  CHUNKLEN = 3
  BUFLEN = 2
  FINALACK = 2
  MAX_CHUNKS_PER_PACK = 2
  INT = 16
  RequestFiles <- MCRequestFiles
  MasterFile <- MCMasterFile
INVARIANTS InputTypeOK LinesAsTyped OnlyLongLines BytesInPlace
PROPERTIES CommandCarriedOut
CHECK_DEADLOCK FALSE
