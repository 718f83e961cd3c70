SPECIFICATION Spec
CONSTANTS
  Rets = {"FILE_REQUEST"}
  FileSizes = {2}
  HeaderPieces = 2
  HeaderCuts = {1, 30, 57, 119}
  MaxResponses = 1
  Hangups = FALSE
INVARIANTS SentIsPrefix
CHECK_DEADLOCK FALSE
