CONSTANTS
  RingBytes = 24
  Packets <- GoodKind
  AlmostFull = 2
  Cmds <- AutoCmd
  MaxPackets = 3
  MaxCmds = 1
SPECIFICATION TimelySpec
INVARIANT ReaderStaysInRing
