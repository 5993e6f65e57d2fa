\* With and without edge mode, every fault, and an event the store always refuses.
CONSTANTS
  e1 = e1
  e2 = e2
  e3 = e3
  Ignored = Ignored
  Event = {e1, e2, e3}
  Topic <- MixedTopic
  Rejected = {e3}
  Modes = {TRUE, FALSE}
  MaxEvents = 3
  BatchSize = 2
  MaxFaults = 1
SPECIFICATION FairSpec
INVARIANTS
  Accounting
  NothingForgotten
  RaisedOrder
PROPERTIES
  StoreAndForwardSpec
  BacklogDrains
