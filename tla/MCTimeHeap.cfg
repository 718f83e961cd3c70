SPECIFICATION Spec
CONSTANTS
  MaxTimers = 5
  Delays = {1, 3}
  Cap = 1
  Epoch = 1
  MaxTime = 3
  NULL = NULL
INVARIANTS WellFormed
PROPERTIES ImplementsTimerQueue TickLeavesNoneDue
CHECK_DEADLOCK FALSE
