SPECIFICATION AgentSpec
CONSTANTS
  Schedulers = {s1, s2}
  Tasks = {t1, t2}
  GroupTasks = {t2}
  Targets <- MCTargets
  Schemas = {TRUE, FALSE}
  Batch = 1
  MaxSchedFaults = 2
  Turns = {u1, u2, u3}
  WindowSize = 4
  KeepAfterCompress = 2
  Caches = {"runner", "summary"}
  Callers = {p1, p2}
  MaxVersion = 3
  Tools = {a, b, c}
  Destructive = {a, b}
  Requests = {q1, q2, q3}
  MaxRounds = 2
  Ids = {1, 2, 3}
  MaxLength = 3
  MaxRunes = 12
  Settings <- MCSettings
  StoreBatch = 3
  Keywords = {v, w}
  MaxScore = 2
  MinCandidates = 1
  MaxCandidates = 2
  GroupPull = 2
  GroupMax = 3
  Asks = {k1, k2, k3}
  RateLimit = 2
  RateWindow = 3
  MaxDelay = 1
  MaxNow = 6
  MaxContinue = 1
  MaxTurns = 3
  MaxRetries = 1
  Nodes = {1}
  NodeSize = 2
  SeqSize = 2
  MaxTime = 1
  Frames = {1, 2}
  From <- MCFrom
  Kinds <- MCKinds
  ConvOf <- MCConvOf
  GatewayOf <- MCGatewayOf
  Chunks = 0
  MaxLogins = 1
  MaxErrors = 1
  None = None
  Logics = {l1}
  Users <- MCUsers
  Single = {1}
  Group = {}
  AI = {2}
  Unnumbered = {2}
  Corrupt = {4}
  Sender <- MCSender
  Receiver <- MCReceiver
  Members <- MCUsers
  BatchSize = 2
  MaxPublished = 2
  MaxFaults = 1
SYMMETRY TurnSymmetry
INVARIANTS SentAtMostOnce DoneIsDelivered WindowIsConversation FreshAfterReload RunsAreApproved PushNeverBlocks ResultsFaithful AnswerBounded DocumentKept ToldIsKept
PROPERTY KeepsPromise
CHECK_DEADLOCK FALSE
