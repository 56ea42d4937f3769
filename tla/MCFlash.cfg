CONSTANTS
  MEM_SIZE = 128
  MAX_ERRORS = 2
  Images = {"a", "b"}
  Faults <- SomeFaults
  PAGE_SIZE = 8
  SECTOR_SIZE = 16
  FLASH_SIZE = 48
  Addrs = {16, 24, 28}
  Sizes = {0, 6, 16, 20}
  MaxCmds = 4
SPECIFICATION FairSpec
CHECK_DEADLOCK FALSE
INVARIANT TypeOK
INVARIANT WriteVerified
INVARIANT OthersKept
INVARIANT NothingIgnored
INVARIANT ReadsBack
INVARIANT TestTellsFaults
PROPERTY CommandsEnd
