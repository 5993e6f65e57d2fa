\* Two requests that overlap, and a CMMS that never fails.
CONSTANTS
  p1 = p1
  p2 = p2
  r1 = r1
  r2 = r2
  r3 = r3
  Bridge = Bridge
  NoOrder = NoOrder
  Proposal = {p1}
  Request = {r1, r2}
  Command <- RowKeys
  Topic <- NoMessages
  ReplayBatchSize = 2
  CmmsFailures = {}
  ApiThreads = 2
  EdgeMode = FALSE
  MaxAttempts = 2
  RetryAttempts = 2
  MaxFaults = 0
  ReadsFail = FALSE
SPECIFICATION Spec
CHECK_DEADLOCK FALSE
INVARIANT OneOrder
