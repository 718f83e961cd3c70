SPECIFICATION FairSpec
CONSTANTS
  Fds = {f1, f2}
  Workers = {w1, w2}
  ActorModel = "proactor"
  TrigModel = "ET"
  MAX_FD = 2
  MaxQueue = 1
  MaxConns = 2
  Pieces = 2
  Parts = 2
  Requests = {"plain", "bad"}
  NoFd = NoFd
INVARIANTS OneHolder OutMatches BacklogSeen
PROPERTIES NoAbruptClose RequestAnswered HangupCloses
CHECK_DEADLOCK FALSE
