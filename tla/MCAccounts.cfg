SPECIFICATION Spec
CONSTANTS
  Workers = {w1, w2}
  Names = {n1, n2}
  Values = {n1, n2}
  Passwords = {p1, p2}
  Keys = {i1, i2, i3}
  capacity = 2
  NULL = NULL
  MaxRequests = 5
  MaxRestarts = 1
INVARIANTS GrantedDurable GrantedCanLogIn SessionHasAccount
PROPERTIES ImplementsCache
SYMMETRY Symmetry
CHECK_DEADLOCK FALSE
