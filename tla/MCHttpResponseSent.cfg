SPECIFICATION FairSpec
CONSTANTS
  Rets = {"FILE_REQUEST", "FORBIDDEN_REQUEST", "BAD_REQUEST"}
  FileSizes = {0, 1, 2}
  HeaderPieces = 1
  HeaderCuts = {1, 30, 57, 119}
  MaxResponses = 2
  Hangups = TRUE
INVARIANTS SentIsPrefix ShortAnsweredInFull
PROPERTIES ResponseEnds
CHECK_DEADLOCK FALSE
