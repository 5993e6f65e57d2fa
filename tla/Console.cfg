\* The endpoints of the console, each with its writers.
CONSTANTS
  p1 = p1
  r1 = r1
  r2 = r2
  r3 = r3
  Bridge = Bridge
  NoOrder = NoOrder
  Proposal = {p1}
  Request = {r1, r2, r3}
  Command <- AnyId
  Topic <- NoMessages
  ReplayBatchSize = 2
  CmmsFailures = {"refused", "garbled"}
  ApiThreads = 1
  EdgeMode = TRUE
  MaxAttempts = 3
  RetryAttempts = 2
  MaxFaults = 1
  ReadsFail = FALSE
  MaxPage = 2
  None = None
  Requests <- Callers
  Settings <- AllSources
  Run = {"s1", "s2", "s3"}
  AssetOf <- RunAsset
  OrgOf <- RunOrg
  PlanOf <- RunPlan
  Reader = {"q1"}
  MaxWrites = 3
  MaxLimit = 2
  NoWorkOrder = NoWorkOrder
  NoState = "none"
  AttemptCeiling = 2
  Tables <- Databases
  Incoming <- NewEvents
  Orders <- NewOrders
  Feedback <- NewFeedback
  Window = 1
  TtrLimit = 2
  TopLimit = 2
  WorstLimit = 1
  MaxIncidents = 2
  Reading = {"e1"}
  Handoffs = {"c1", "c2"}
  MaxBuffered = 1
  ReplaySize = 1
  Watcher = {"w1"}
  MaxCalls = 4
  NoValue = None
  Registered <- OneUnit
  Upserts <- UnitBodies
  Posts <- FailureBodies
  Alarms <- OneAlarm
  Upper <- UpperCase
  Observed = 4
  ListLimit = 2
  MaxChanges = 3
  File = {"d1", "d2"}
  Nil = Nil
  LengthOf <- FileLength
  BlankIn <- FileBlanks
  DocAsset = {"a1", "a2"}
  ChunkSizes = {1, 2}
  Overlap = 1
  MaxIngestions = 2
  MaxParts = 2
  TokenChars = 1
  TokenBudget = 2
  SearchLimit = 1
  RecentLimit = 3
  FallbackKept = 1
  MaxMishaps = 2
SPECIFICATION ConsoleSpec
SYMMETRY RequestSymmetry
CHECK_DEADLOCK FALSE
INVARIANTS
  HistoryPagedWhole
  RetryShownIsRetryGiven
  GaugesAgree
  LatestIsNewest
  PlanMissingWasDeleted
  OneFailureOneSection
  LaterNeverLess
  DepthWithinTotals
  ClashesOnce
  AvailabilityHonest
  ShownIsCounted
  WholeDocuments
  ChunkingAdvances
  DocumentsFound
PROPERTIES
  WarningsNeverEase
