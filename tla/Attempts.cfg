SPECIFICATION MCSpec
CONSTANTS
  Inputs <- MCInputs
  MaxTries = 2
  MaxContainerFaults = 1
  Kinds = {"partition", "sync"}
  Heartbeats = {0, 1}
  DefaultHeartbeat = 3
  Floor = 1
  FallbackInterval = 2
  SleeperInterval = 2
  Sleep = 3
  MaxCalls = 2
  StartToClose = 5
  MaxRetries = 2
  Delay = 1
  MaxLost = 1
INVARIANTS
  NoLeak
  RetriedForCause
  ResultTruthful
  HeartbeatKeepsAlive
PROPERTIES
  ClientsAnswered
  OnlyAwaitedCalls
CHECK_DEADLOCK FALSE
