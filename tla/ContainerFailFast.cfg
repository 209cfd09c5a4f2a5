SPECIFICATION WorkflowSpec
CONSTANTS
  Count = 2
  Wants <- NoWants
INVARIANT
  FailFastStops
CHECK_DEADLOCK FALSE
