SPECIFICATION IdleSpec
CONSTANTS
  MaxTimers = 3
  Delays = {3}
  Cap = 2
  Epoch = 10
  MaxTime = 18
  NULL = NULL
  Fds = {f1, f2}
  TIMESLOT = 1
  ActorModel = "proactor"
  Prompt = TRUE
  MaxHeap = 5
INVARIANT IdleClientClosed
CHECK_DEADLOCK FALSE
