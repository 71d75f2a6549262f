SPECIFICATION RpcSpec
CONSTANTS
  Calls = {k1, k2}
  Nobody = Nobody
  Frames = {f1, f2, f3, f4, f5}
  Untyped = {f4}
  Unencodable = {f1}
  Unclaimed = {f2}
  Undecodable = {f3}
  Servers = {s1, s2, s3}
  MaxPools = 4
  Addresses = {"tcp", "http", "malformed"}
  Given = {"none", "two", "", "json", "xml"}
  MaxRequests = 3
INVARIANTS DoneOnce ShutdownFinishesAll InStep BroadcastFaithful HandshakeKeepsStream
PROPERTIES CallReturns ImplementsCalls
CHECK_DEADLOCK FALSE
