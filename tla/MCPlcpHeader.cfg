CONSTANT
  Cases <- AllCases
SPECIFICATION Spec
CHECK_DEADLOCK FALSE
INVARIANT CrcIsRemainder
INVARIANT DetectsBursts
