SPECIFICATION LiveSpec
CONSTANTS
  None = None
  s = s
  a = a
  Logics = {l1, l2}
  Users <- MCUsers
  Later = {}
  Single = {}
  Group = {}
  AI = {ai1}
  Unnumbered = {}
  Corrupt = {}
  Sender <- MCSender
  Receiver <- MCReceiver
  Members <- MCUsers
  BatchSize = 2
  MaxPublished = 2
  MaxFaults = 1
PROPERTY AISettles
CHECK_DEADLOCK FALSE
