SPECIFICATION Spec
CONSTANTS
  Firsts = {"root"}
  Headers = {"keep"}
  MaxHeaders = 1
  BodyLen = 2
  SplitBody = FALSE
  TrigModels = {"ET"}
  BufferSize = 20
INVARIANTS MeaningKept
CHECK_DEADLOCK FALSE
