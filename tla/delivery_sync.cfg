SPECIFICATION Spec
CONSTANTS
  g1 = g1  g2 = g2  c1 = c1  c2 = c2  c3 = c3
  Gateways = {g1}
  Conns = {c1}
  Home <- MCHome
  Msgs = {m1, m2}
  Frame = frame
  None = None
  Cap = 4
  MaxFaults = 0
INVARIANT ReadWasDelivered
CHECK_DEADLOCK FALSE
