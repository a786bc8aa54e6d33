SPECIFICATION Spec
CONSTANTS
  Tasks = {t1, t2}
  Registry <- TwoStrategies
  Requirements <- TwoRequirements
  Events <- FewEvents
  Venues = {"v1", "v2"}
  FreshFor = 1
  Cooldown = 1
  MaxAge = 1
  Timeout = 1
  HistorySize = 1
  FutureSkew = 0
  Ttl = 1
  Fingerprints = {f1}
  MaxTime = 3
  MaxEvents = 2
INVARIANTS
  DecidedOnce
  LatenessBounded
PROPERTIES
  EvaluationsEnd
CHECK_DEADLOCK FALSE
