SPECIFICATION FairSpec
CONSTANTS
  Workers = {w1, w2}
  Callers = {main}
  Requests = {u1, u2}
  MaxQueue = 2
  MaxCalls = 5
  NoRequest = NoRequest
  NoThread = NoThread
INVARIANTS SemaphoreCountsRequests
PROPERTIES ImplementsJobQueue AcceptedRequestsRun
CHECK_DEADLOCK FALSE
