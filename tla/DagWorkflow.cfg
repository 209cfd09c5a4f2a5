SPECIFICATION WorkflowSpec
CONSTANTS
  Count = 3
  Wants <- MCWants
INVARIANTS
  VerdictCorrect
  TopologicalOrder
  FailureBlocks
  FunctionFailFast
  InputsProduced
PROPERTY
  Terminates
CHECK_DEADLOCK FALSE
