\* One attempt and one fault: a file of four chunks over a limit of three.
SPECIFICATION Spec
CONSTANTS
  MaxSize = 4
  Limit = 3
  MaxAttempts = 1
  MaxFaults = 1
INVARIANTS
  TruncationFound
CHECK_DEADLOCK FALSE
