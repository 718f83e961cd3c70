SPECIFICATION Spec
CONSTANTS
  Rets = {"FILE_REQUEST", "FORBIDDEN_REQUEST"}
  FileSizes = {1, 2}
  HeaderPieces = 0
  HeaderCuts = {1, 30, 57, 119}
  MaxResponses = 2
  Hangups = TRUE
PROPERTIES UnmapFits
CHECK_DEADLOCK FALSE
