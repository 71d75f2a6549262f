SPECIFICATION LiveSpec
CONSTANTS
  Callers = {p1, p2, p3}
  Conns = {k1, k2, k3}
  NoConn = NoConn
  MaxIdle = 1
  MaxActive = 2
  Unlimited = 1
  MaxFailures = 1
INVARIANTS ActiveExact OnePlace
PROPERTY WaiterServed
CHECK_DEADLOCK FALSE
