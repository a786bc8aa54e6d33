SPECIFICATION FairSpec
CONSTANTS
  Symbols = {"a", "b", "c"}
  Adapters = {"perpetual", "spot"}
  Capacity = 2
  Residency = 3
  Refresh = 2
  Emission = 1
  CandidateLimit = 2
  RetryBase = 1
  RetryMax = 2
  MaxTime = 4
  MaxFailures = 1
  MaxDrops = 2
INVARIANTS
  MembershipAgrees
PROPERTIES
  MembershipIsSteady
  StreamsSettle
CHECK_DEADLOCK FALSE
