SPECIFICATION Spec
CONSTANTS
  Fds = {f1, f2, f3}
  Workers = {w1}
  ActorModel = "proactor"
  TrigModel = "ET"
  MAX_FD = 1
  MaxQueue = 1
  MaxConns = 3
  Pieces = 1
  Parts = 1
  Requests = {"plain"}
  NoFd = NoFd
INVARIANTS BacklogSeen
CHECK_DEADLOCK FALSE
