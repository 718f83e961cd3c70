SPECIFICATION FairSpec
CONSTANTS
  Firsts = {"file", "bad"}
  Headers = {"keep", "other", "length"}
  MaxHeaders = 3
  BodyLen = 2
  SplitBody = FALSE
  TrigModels = {"LT", "ET"}
  BufferSize = 14
INVARIANTS MeaningKept DataIsBody ClosedOnlyWhenFull
PROPERTIES RequestUnderstood
CHECK_DEADLOCK FALSE
