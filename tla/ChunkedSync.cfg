\* Two overlapping executions on a fixed grid, two faults, one partition per
\* execution: filtering, truncation and ContinueAsNew all occur.
SPECIFICATION FairSpec
CONSTANTS
  e1 = e1
  e2 = e2
  Executions = {e1, e2}
  Partitions <- GridPartitions
  HasTracker = TRUE
  MaxPerExec = 1
  MaxAttempts = 2
  MaxNow = 4
  MaxFaults = 2
  ChunkSize = 1
  Window = 3
INVARIANTS
  TypeOK
  CursorCovered
  AckedProgress
PROPERTIES
  ProcessedSkipped
  CompletedRunSynced
  LedgerSpec
  ChainEnds
  EventuallySynced
