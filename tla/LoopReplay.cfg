SPECIFICATION LoopSpec
CONSTANTS
  Count = 4
  ParameterSets <- OneOrTwoKeys
  MaxReplays = 2
INVARIANTS
  ReturnJustified
  StableLoopComplete
PROPERTY
  Returns
CHECK_DEADLOCK FALSE
