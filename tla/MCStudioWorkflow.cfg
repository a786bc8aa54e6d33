SPECIFICATION Spec
CONSTANTS
  Projects = {p1}
  MaxRevisions = 3
  MaxRuns = 3
  MaxSignals = 1
INVARIANTS
  EvidenceIsCurrent
  ReleasedAsApproved
  StartIsNeverRefused
PROPERTIES
  ReleaseIsFrozen
  GatesRespected
CHECK_DEADLOCK FALSE
