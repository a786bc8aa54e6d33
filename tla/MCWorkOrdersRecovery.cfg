SPECIFICATION Spec
CONSTANTS
  MaxOrders = 1
  MaxAttempts = 2
  SameIssueLimit = 1
  Findings = {"f1"}
  Profiles <- Evidenced
  MaterializedKinds = {"strategy", "signal"}
  Events = {"timeout", "quota", "resume", "stop", "crash", "retry"}
  RetryStages = {"strategy", "review_implementation", "dataset", "backtest", "review_backtest", "failed"}
  Legacy <- OlderGateways
  MaxVersions = 2
  MaxRuns = 2
  MaxFaults = 3
INVARIANTS
  StoreIsSound
  ApprovalsInOrder
  NoGateOnFailedReview
PROPERTIES
  GatesRespected
CHECK_DEADLOCK FALSE
