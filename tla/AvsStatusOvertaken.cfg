SPECIFICATION Spec
CONSTANTS
  e1 = e1  e2 = e2
  NoEntry = NoEntry
  Entries = {e1}
  Gap = 4
  Cycle = 2
  MaxDelay = 2
  Wrap = 65536
PROPERTIES
  RemovedOnTimeOutOnly
