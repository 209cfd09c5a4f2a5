SPECIFICATION FairSpec
CONSTANTS
  MaxSize = 4
  Limit = 3
  MaxAttempts = 2
  MaxFaults = 3
INVARIANTS
  UploadedIsWhole
  DeliveredWhole
PROPERTY
  PipeEnds
CHECK_DEADLOCK FALSE
