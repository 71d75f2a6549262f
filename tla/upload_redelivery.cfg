SPECIFICATION Spec
SYMMETRY MCSymmetry
CONSTANTS
  None = None
  s = s
  a = a
  Logics = {l1, l2}
  Users <- MCUsers
  Later = {}
  Single = {m1, m2}
  Group = {g1}
  AI = {ai1}
  Unnumbered = {}
  Corrupt = {bad}
  Sender <- MCSender
  Receiver <- MCReceiver
  Members <- MCUsers
  BatchSize = 2
  MaxPublished = 2
  MaxFaults = 2
INVARIANT RedeliveryIsIdempotent
CHECK_DEADLOCK FALSE
