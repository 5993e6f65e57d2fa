\* The release scripts against one repository, up to three runs with faults.
SPECIFICATION Spec
CONSTANTS
  Pulls = {1, 2, 3, 4}
  Opened = {1, 2, 3}
  Given <- GivenNumbers
  File <- DataFile
  Sizes = {0, 2}
  Titles <- SomeTitles
  NewLabels <- AllLabels
  MaxAttempts = 3
  PullLimit = 3
  IssuePage = 2
  MaxRuns = 2
  MaxChanges = 1
  MaxFaults = 2
INVARIANTS ReportTrue CopiesExplained
CHECK_DEADLOCK FALSE
