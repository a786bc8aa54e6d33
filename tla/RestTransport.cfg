SPECIFICATION FairSpec
CONSTANTS
  Callers = {"c1"}
  Pollers = {"poll"}
  MaxCalls = 2
  Period = 3
  MaxAttempts = 3
  BaseDelay = 1
  MaxDelay = 3
  Threshold = 2
  PollDelay = 1
  MaxPollDelay = 2
  RetryAfters = {1, 4}
  MaxPollFailures = 2
PROPERTIES
  LimitsKept
  RequestsGoOn
CHECK_DEADLOCK FALSE
