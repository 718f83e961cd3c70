SPECIFICATION FairSpec
CONSTANTS
  Threads = {t1, t2, t3}
  Conns = {c1, c2}
  MaxAsks = 5
  NULL = NULL
  NoThread = NoThread
INVARIANTS LentOnce CountersMatch FrontFindsConnection
PROPERTIES WaiterServed
CHECK_DEADLOCK FALSE
