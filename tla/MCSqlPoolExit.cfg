SPECIFICATION Spec
CONSTANTS
  Threads = {t1, t2}
  Conns = {c1, c2}
  MaxAsks = 4
  NULL = NULL
  NoThread = NoThread
INVARIANTS DestroyClosesAll
CHECK_DEADLOCK FALSE
