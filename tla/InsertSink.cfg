SPECIFICATION FairSpec
CONSTANTS
  Runs = {r1, r2}
  Count = 3
  MaxAttempts = 2
  MaxErrors = 1
  MaxTimeouts = 1
INVARIANTS
  NoDuplicates
  SuccessIsComplete
PROPERTY
  SomeRunSucceeds
CHECK_DEADLOCK FALSE
