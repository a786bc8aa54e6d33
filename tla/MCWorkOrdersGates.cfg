SPECIFICATION Spec
CONSTANTS
  MaxOrders = 1
  MaxAttempts = 3
  SameIssueLimit = 1
  Findings = {"f1"}
  Profiles <- Anything
  MaterializedKinds = {"strategy", "signal"}
  Events = {"timeout", "acquisition", "incomplete", "user_action", "error",
            "retry", "adopt", "crash"}
  RetryStages = {"strategy", "review_implementation", "dataset", "backtest", "review_backtest", "failed"}
  Legacy = {}
  MaxVersions = 2
  MaxRuns = 2
  MaxFaults = 1
INVARIANTS
  StoreIsSound
  ApprovalsInOrder
  GatesShowReviewedWork
  BudgetRespected
  ReleaseIsRegistered
PROPERTIES
  GatesRespected
CHECK_DEADLOCK FALSE
