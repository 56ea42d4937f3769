CONSTANTS
  TxBytes = 32
  Lens = {4}
  TriggerLens = {262}
  IntLimit = 2
  ReadAddrs = {0}
  MaxEvents = 4
  FloodArgs = {}
  Cmds <- HostCmds
  OtherAddrs <- RxAddrs
  OtherKeys <- RxKeys
  MaxCmds = 2
  Packets <- AirKinds
  AlmostFull = 2
  RxCmds <- RxHostCmds
  MaxPackets = 2
  RxMaxCmds = 2
SPECIFICATION MacFairSpec
INVARIANT FramesIntact
INVARIANT Descrambled
INVARIANT ForwardedIntact
INVARIANT ReceiverListens
PROPERTY PacketsLeave
PROPERTY TxSpec
