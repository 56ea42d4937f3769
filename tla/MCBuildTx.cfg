CONSTANTS
  CodeBits = 1
  Lens = {0, 5}
  Rates = {0, 1, 2, 3}
  AlmostFull = 16
  MaxFrames = 3
SPECIFICATION FairSpec
CHECK_DEADLOCK FALSE
INVARIANT TypeOK
INVARIANT DelimiterTellsRate
PROPERTY TriggersBetweenFrames
PROPERTY FramesLeave
