\* One execution at a time, no fault at all: the clamped partition is enough.
SPECIFICATION Spec
CONSTANTS
  e1 = e1
  Executions = {e1}
  Midnights <- UtcMidnights
  LookBack = 2
  ChunkSize = 2
  Partitions <- Listed
  HasTracker = TRUE
  MaxPerExec = 0
  MaxAttempts = 2
  MaxNow = 4
  MaxFaults = 0
INVARIANTS
  CursorCovered
