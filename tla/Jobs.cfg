SPECIFICATION MCSpec
CONSTANTS
  r1 = r1
  r2 = r2
  w1 = w1
  w2 = w2
  s1 = s1
  s2 = s2
  s3 = s3
  BadNames <- MCBadNames
  Image = "app"
  Builders <- MCBuilders
  Settings <- MCSettings
  Sources <- MCSources
  Functions <- MCFunctions
  Nodes <- MCNodes
  RunTimeouts = {0, 12}
  MaxSpare = 1
  MaxCalls = 4
  PatternInputs <- MCPatternInputs
  Lists <- MCLists
  MaxTasks = 4
  SyncBuilders = {s1, s2, s3}
  BuilderType <- MCBuilderType
  MaxSyncCalls = 5
  Jobs <- MCJobs
  Workers = {w1, w2}
  QueueOf <- MCQueueOf
  Registries = {r1, r2}
  HandlerNames = {"f"}
  MaxCrashes = 1
INVARIANTS
  OutlivesRunTimeout
  BuiltAccepted
  StagesGated
  PausedIffDisabled
  OwnImplementationRuns
  HandlerNotRetried
PROPERTY
  DefinitionFrozen
CHECK_DEADLOCK FALSE
