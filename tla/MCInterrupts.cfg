CONSTANTS
  Lines = {0, 1, 2, 3, 4}
  Handled <- AddedLines
  MaxEvents = 4
SPECIFICATION FairSpec
INVARIANT NothingLost
PROPERTY EventsServed
