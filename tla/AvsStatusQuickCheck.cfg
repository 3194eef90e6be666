SPECIFICATION FairSpec
CONSTANTS
  e1 = e1  e2 = e2
  NoEntry = NoEntry
  Entries = {e1}
  Gap = 5
  Cycle = 2
  MaxDelay = 1
  Wrap = 65536
PROPERTIES
  DeadAvsIsRemoved
