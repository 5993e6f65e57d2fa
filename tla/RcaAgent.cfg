\* An agent of any deployment, killed or stopped once, people at the plans.
SPECIFICATION FairSpec
CONSTANTS
  alarm = alarm
  status = status
  manual = manual
  Event = {alarm, status}
  Actionable = {alarm}
  Topic <- Messages
  NoId = NoId
  Manual = {manual}
  Deployments <- AnyDeployment
  BrokerLoses = TRUE
  SendTries = 2
  MaxParts = 1
  MaxStops = 1
  MaxFaults = 1
INVARIANTS CommittedHandled OrphansNeedFaults RepeatsNeedFaults NamedPlanIsWhole
PROPERTIES LoopGoesOn
CHECK_DEADLOCK FALSE
