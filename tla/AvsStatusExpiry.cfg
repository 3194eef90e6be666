SPECIFICATION MainloopFairSpec
CONSTANTS
  e1 = e1  e2 = e2  r1 = r1
  NoEntry = NoEntry  NoRow = NoRow
  Entries = {e1, e2}
  RoomOf <- MCRoomOf
  Gap = 2
  Cycle = 2
  MaxDelay = 1
  Wrap = 65536
INVARIANTS
  MainloopTypeOK
PROPERTIES
  RemovedIfSilentOrOvertaken
  SilentAvsIsRemovedByCheck
  DeadAvsIsRemoved
  ReportsOnlyListed
  ReportFollowsTable
