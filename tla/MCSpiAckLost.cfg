CONSTANTS
  PACKET_SIZE = 2
  REPLY_SIZE = 2
  Commands <- AllCommands
  MaxLoad = 3
  MaxAttempts = 1
  MaxEarly = 0
  MaxLosses = 0
  MaxForwards = 1
  MaxCollisions = 0
SPECIFICATION Spec
CHECK_DEADLOCK FALSE
INVARIANT AcknowledgesSuccess
