CONSTANTS
  TxBytes = 16
  Lens = {4, 12}
  TriggerLens = {262}
  FloodArgs = {0, 1, 3}
  IntLimit = 2
  Cmds <- PathCmds
  OtherAddrs <- RxAddr
  OtherKeys = {}
  MaxCmds = 4
SPECIFICATION FairSpec
INVARIANT TypeOK
INVARIANT NeverSendsUnloaded
INVARIANT NeverOvercounts
INVARIANT QueueInOrder
INVARIANT FramesIntact
INVARIANT SeedAlternates
INVARIANT FloodNeverUnderflows
PROPERTY Drains
