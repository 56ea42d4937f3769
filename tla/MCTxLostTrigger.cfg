CONSTANTS
  TxBytes = 16
  Lens = {4}
  TriggerLens = {260}
  FloodArgs = {1}
  IntLimit = 2
  Cmds <- TriggerCmds
  OtherAddrs <- RxAddr
  OtherKeys = {}
  MaxCmds = 2
SPECIFICATION FairSpec
PROPERTY EveryTriggerSends
