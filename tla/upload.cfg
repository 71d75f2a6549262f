SPECIFICATION MCSpec
CONSTANTS
  None = None
  s = s
  a = a
  Logics = {l1, l2}
  Users <- MCUsers
  Single = {m1, m2}
  Later = {m2}
  Group = {g1}
  AI = {ai1}
  Unnumbered = {}
  Corrupt = {bad}
  Sender <- MCSender
  Receiver <- MCReceiver
  Members <- MCUsers
  BatchSize = 2
  MaxPublished = 2
  MaxFaults = 1
INVARIANT WorkOwned
PROPERTIES ImplementsLog Settles
CHECK_DEADLOCK FALSE
