CONSTANTS
  PACKET_SIZE = 2
  REPLY_SIZE = 2
  Commands <- AllCommands
  MaxLoad = 3
  MaxAttempts = 3
  MaxEarly = 2
  MaxLosses = 2
  MaxForwards = 1
  MaxCollisions = 1
SPECIFICATION Spec
CHECK_DEADLOCK FALSE
INVARIANT TypeOK
INVARIANT StreamInOrder
INVARIANT AnswersInSequence
INVARIANT PumpNeverStalls
INVARIANT ExecutedInOrder
INVARIANT LossesCharged
INVARIANT Resynchronises
