\* A stop signal while messages are waiting.
CONSTANTS
  e1 = e1
  e2 = e2
  e3 = e3
  Ignored = Ignored
  Event = {e1, e2, e3}
  Topic <- PlainTopic
  Rejected = {}
  Modes = {TRUE}
  MaxEvents = 3
  BatchSize = 2
  MaxFaults = 1
SPECIFICATION Spec
PROPERTY GracefulStopKeepsMessages
