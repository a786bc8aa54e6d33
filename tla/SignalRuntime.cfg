SPECIFICATION FairSpec
CONSTANTS
  Clients = {"c1", "c2"}
  Signals = {"a", "b"}
  Pids = {1, 2}
  MaxProcesses = 2
  MaxVersions = 1
  MaxMessages = 3
  MaxFaults = 1
INVARIANTS
  OneKnownRuntime
PROPERTIES
  StopsAsMeant
  MessagesAnswered
CHECK_DEADLOCK FALSE
