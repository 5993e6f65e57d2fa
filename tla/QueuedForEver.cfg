\* Edge mode: the bridge replays before the API marks the row.
CONSTANTS
  p1 = p1
  p2 = p2
  r1 = r1
  r2 = r2
  r3 = r3
  Bridge = Bridge
  NoOrder = NoOrder
  Proposal = {p1}
  Request = {r1}
  Command <- RowKeys
  Topic <- OneMessage
  ReplayBatchSize = 2
  CmmsFailures = {"refused"}
  ApiThreads = 2
  EdgeMode = TRUE
  MaxAttempts = 2
  RetryAttempts = 2
  MaxFaults = 0
  ReadsFail = FALSE
SPECIFICATION Spec
CHECK_DEADLOCK FALSE
INVARIANT QueuedIsQueued
