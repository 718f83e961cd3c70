SPECIFICATION IdleSpec
CONSTANTS
  MaxTimers = 3
  Delays = {3}
  Cap = 2
  Epoch = 10
  MaxTime = 14
  NULL = NULL
  Fds = {f1, f2}
  TIMESLOT = 1
  ActorModel = "proactor"
  Prompt = FALSE
  MaxHeap = 6
INVARIANTS StaleTimersSilent OneAlarm
PROPERTIES TickClosesOnlyIdle TermStops
CHECK_DEADLOCK FALSE
