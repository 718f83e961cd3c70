SPECIFICATION FairSpec
CONSTANTS
  Writers = {w1, w2}
  MaxLines = 2
  MaxDay = 2
  m_split_lines = 2
  Modes = {TRUE, FALSE}
  Flusher = flusher
  Threads = {flusher}
  Items <- LineItems
  MaxSize = 2
  NoItem = NoItem
INVARIANTS SplitKept NoLineLost
PROPERTIES DaysForward
CHECK_DEADLOCK FALSE
