\* Two syncs of one CMMS, at once or in turn, with one fault.
SPECIFICATION FairSpec
CONSTANTS
  eq = eq
  fail = fail
  wo1 = wo1
  wo2 = wo2
  s1 = s1
  s2 = s2
  Equipment = {eq}
  Failure = {fail}
  WorkOrder = {wo1, wo2}
  Sync = {s1, s2}
  NoSync = NoSync
  NoKey = NoKey
  MaxChanges = 1
  MaxSyncs = 2
  MaxFaults = 1
INVARIANTS StoredWhole CountedIsThere
PROPERTIES OnlyOverlapRegresses SyncsEnd
CHECK_DEADLOCK FALSE
