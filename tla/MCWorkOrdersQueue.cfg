SPECIFICATION FairSpec
CONSTANTS
  MaxOrders = 2
  MaxAttempts = 1
  SameIssueLimit = 1
  Findings = {"f1"}
  Profiles <- Direct
  MaterializedKinds = {"strategy"}
  Events = {"timeout", "quota", "login", "resume", "cancel", "crash", "stop"}
  RetryStages = {}
  Legacy = {}
  MaxVersions = 1
  MaxRuns = 2
  MaxFaults = 2
INVARIANTS
  WorkingIsOwned
  WorkWaitsForCodex
PROPERTIES
  SettledWhileWorkerLives
CHECK_DEADLOCK FALSE
