CONSTANTS
  TxBytes = 16
  Lens = {4}
  TriggerLens = {260}
  FloodArgs = {1}
  IntLimit = 2
  Cmds <- QueueCmds
  OtherAddrs <- RxAddr
  OtherKeys = {}
  MaxCmds = 3
SPECIFICATION FairSpec
PROPERTY EveryPacketSent
