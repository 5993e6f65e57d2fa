\* Requests one at a time outside edge mode, with every failure.
CONSTANTS
  p1 = p1
  p2 = p2
  r1 = r1
  r2 = r2
  r3 = r3
  Bridge = Bridge
  NoOrder = NoOrder
  Proposal = {p1}
  Request = {r1, r2, r3}
  Command <- AnyId
  Topic <- NoMessages
  ReplayBatchSize = 2
  CmmsFailures = {"refused", "lost", "garbled"}
  ApiThreads = 1
  EdgeMode = FALSE
  MaxAttempts = 3
  RetryAttempts = 2
  MaxFaults = 1
  ReadsFail = FALSE
SPECIFICATION Spec
SYMMETRY RequestSymmetry
CHECK_DEADLOCK FALSE
PROPERTIES
  HistoryKept
  ApprovalFinal
