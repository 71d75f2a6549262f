SPECIFICATION Spec
CONSTANTS
  Nodes = {1}
  NodeSize = 2
  SeqSize = 2
  MaxTime = 2
  Frames = {1, 2, 3}
  From <- MCFrom
  Kinds <- MCKinds
  ConvOf <- MCConvOf
  GatewayOf <- MCGatewayOf
  Chunks = 1
  MaxLogins = 1
  MaxErrors = 1
  Clients = {k1}
  Limits = {1, 4}
  SweptLimits = {1}
  MaxChatLimit = 3
  DefaultLimit = 1
  MaxMsgs = 2
  MaxWalks = 2
  MaxApplies = 1
  MaxErases = 1
  GroupUsers = {1, 2}
  MaxGroups = 1
  Requests = {r1, r2}
  MaxRequests = 4
  MaxGroupFaults = 1
  People = {a, b}
  Names = {n, m}
  UserIds = {0, 1}
  Secrets = {1, 2}
  Lifetime = 1
  MaxClock = 1
  MaxUsers = 2
  MaxUpdates = 1
INVARIANTS AckedIsPublished PayloadsDistinct StaleOnlyWhenOvertaken WalkComplete ConvFollowsMembership DissolvedIsGone AccountIsFounders
PROPERTY IdsIncrease
CHECK_DEADLOCK FALSE
