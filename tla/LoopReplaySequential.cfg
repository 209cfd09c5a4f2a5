SPECIFICATION LoopSpec
CONSTANTS
  Count = 4
  ParameterSets <- OneOrTwoKeys
  MaxReplays = 1
INVARIANT
  EachCombinationOnce
CHECK_DEADLOCK FALSE
