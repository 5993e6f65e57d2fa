\* Edge mode: the API and the bridge, with one fault; a queue of two batches.
CONSTANTS
  p1 = p1
  p2 = p2
  r1 = r1
  r2 = r2
  r3 = r3
  Bridge = Bridge
  NoOrder = NoOrder
  Proposal = {p1}
  Request = {r1, r2}
  Command <- AnyId
  Topic <- TwoMessages
  ReplayBatchSize = 1
  CmmsFailures = {"refused", "garbled"}
  ApiThreads = 2
  EdgeMode = TRUE
  MaxAttempts = 2
  RetryAttempts = 2
  MaxFaults = 1
  ReadsFail = TRUE
SPECIFICATION FairSpec
ACTION_CONSTRAINT SecondIsLate
CHECK_DEADLOCK FALSE
INVARIANTS
  ApprovedHasOrder
  CommandAccounting
PROPERTIES
  DequeuedHandedOff
  QueueDrains
