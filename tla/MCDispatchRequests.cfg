SPECIFICATION Spec
CONSTANTS
  Fds = {f1, f2}
  Workers = {w1, w2}
  ActorModel = "proactor"
  TrigModel = "ET"
  MAX_FD = 2
  MaxQueue = 1
  MaxConns = 2
  Pieces = 2
  Parts = 2
  Requests = {"plain", "missing", "body", "bad", "long"}
  NoFd = NoFd
INVARIANTS OneHolder OutMatches
PROPERTIES NoAbruptClose
CHECK_DEADLOCK FALSE
