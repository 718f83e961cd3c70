SPECIFICATION IdleSpec
CONSTANTS
  MaxTimers = 3
  Delays = {3}
  Cap = 2
  Epoch = 10
  MaxTime = 15
  NULL = NULL
  Fds = {f1, f2}
  TIMESLOT = 1
  ActorModel = "proactor"
  Prompt = TRUE
  MaxHeap = 8
INVARIANT HeapStaysSmall
CHECK_DEADLOCK FALSE
