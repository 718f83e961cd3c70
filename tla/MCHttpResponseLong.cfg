SPECIFICATION Spec
CONSTANTS
  Rets = {"BAD_REQUEST"}
  FileSizes = {1}
  HeaderPieces = 1
  HeaderCuts = {1, 30, 57, 119}
  MaxResponses = 1
  Hangups = FALSE
INVARIANTS AnsweredInFull
CHECK_DEADLOCK FALSE
