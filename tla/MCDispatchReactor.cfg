SPECIFICATION FairSpec
CONSTANTS
  Fds = {f1, f2}
  Workers = {w1, w2}
  ActorModel = "reactor"
  TrigModel = "LT"
  MAX_FD = 2
  MaxQueue = 2
  MaxConns = 3
  Pieces = 1
  Parts = 1
  Requests = {"plain"}
  NoFd = NoFd
INVARIANTS AtMostOneQueued ClientsCounted
PROPERTIES SpinEnds BacklogDrains
CHECK_DEADLOCK FALSE
