\* One sync of a CMMS with a piece of equipment and a work order.
SPECIFICATION Spec
CONSTANTS
  eq = eq
  fail = fail
  wo1 = wo1
  wo2 = wo2
  s1 = s1
  s2 = s2
  Equipment = {eq}
  Failure = {}
  WorkOrder = {wo1}
  Sync = {s1}
  NoSync = NoSync
  NoKey = NoKey
  MaxChanges = 0
  MaxSyncs = 1
  MaxFaults = 0
INVARIANT SuccessPersists
CHECK_DEADLOCK FALSE
