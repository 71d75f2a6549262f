SPECIFICATION LiveSpec
CONSTANTS
  g1 = g1  g2 = g2  c1 = c1  c2 = c2  c3 = c3
  Gateways = {g1}
  Conns = {c1, c2}
  Home <- MCHome
  Msgs = {m1}
  Frame = frame
  None = None
  Cap = 1
  MaxFaults = 1
INVARIANTS ConfirmedIsRead SingleLogin RouteFollowsMap
PROPERTIES StatusMonotone PushReaches
CHECK_DEADLOCK FALSE
