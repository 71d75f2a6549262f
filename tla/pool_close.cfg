SPECIFICATION Spec
CONSTANTS
  Callers = {p1, p2}
  Conns = {k1, k2}
  NoConn = NoConn
  MaxIdle = 1
  MaxActive = 1
  Unlimited = 1
  MaxFailures = 0
INVARIANT PutNeverPanics
CHECK_DEADLOCK FALSE
