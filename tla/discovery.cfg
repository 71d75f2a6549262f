SPECIFICATION LiveSpec
CONSTANTS
  Servers = {1, 2}
  Gateways = {g1}
  Keys = {1, 2, 4}
  Vnodes <- MCVnodes
  KeyPoint <- MCKeyPoint
  NoServer = NoServer
  MaxFaults = 3
INVARIANTS ViewIsSnapshot RouteFollowsMembers
PROPERTY Converges
CHECK_DEADLOCK FALSE
