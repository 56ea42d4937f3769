CONSTANTS
  RingBytes = 24
  Packets <- AllKinds
  AlmostFull = 2
  Cmds <- AllCmds
  MaxPackets = 2
  MaxCmds = 3
SPECIFICATION FairSpec
INVARIANT TypeOK
INVARIANT DumpIntact
PROPERTY QueueSpec
PROPERTY PacketsLeave
