SPECIFICATION Spec
CONSTANTS
  QueueSize = 2
  MaxAttempts = 2
  RetryBase = 1
  MaxRetryDelay = 1
  MinimumInterval = 1
  RetryAfter = {0}
  MaxPublished = 3
  MaxCloses = 2
INVARIANTS
  NothingLost
PROPERTIES
  DeliveredInOrder
  DeliveriesEnd
CHECK_DEADLOCK FALSE
