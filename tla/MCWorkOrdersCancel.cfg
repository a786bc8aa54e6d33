SPECIFICATION FairSpec
CONSTANTS
  MaxOrders = 2
  MaxAttempts = 2
  SameIssueLimit = 1
  Findings = {"f1"}
  Profiles <- Direct
  MaterializedKinds = {"strategy"}
  Events = {"cancel"}
  RetryStages = {}
  Legacy = {}
  MaxVersions = 2
  MaxRuns = 2
  MaxFaults = 1
PROPERTIES
  EventuallySettled
CHECK_DEADLOCK FALSE
