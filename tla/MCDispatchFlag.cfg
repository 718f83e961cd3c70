SPECIFICATION FairSpec
CONSTANTS
  Fds = {f1}
  Workers = {w1}
  ActorModel = "reactor"
  TrigModel = "ET"
  MAX_FD = 1
  MaxQueue = 1
  MaxConns = 1
  Pieces = 1
  Parts = 1
  Requests = {"plain"}
  NoFd = NoFd
PROPERTIES FailedConnectionCloses
CHECK_DEADLOCK FALSE
