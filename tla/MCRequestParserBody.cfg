SPECIFICATION FairSpec
CONSTANTS
  Firsts = {"file"}
  Headers = {"length"}
  MaxHeaders = 1
  BodyLen = 2
  SplitBody = TRUE
  TrigModels = {"ET"}
  BufferSize = 20
PROPERTIES RequestUnderstood
CHECK_DEADLOCK FALSE
