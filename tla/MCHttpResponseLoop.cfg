SPECIFICATION FairSpec
CONSTANTS
  Rets = {"FORBIDDEN_REQUEST"}
  FileSizes = {1}
  HeaderPieces = 2
  HeaderCuts = {40}
  MaxResponses = 1
  Hangups = FALSE
PROPERTIES ResponseEnds
CHECK_DEADLOCK FALSE
