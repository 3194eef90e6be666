SPECIFICATION FairSpec
CONSTANTS
  MaxStorage = 5
  Wrap = 8
  PacketLens = {0, 3, 4, 6}
  MaxSent = 3
INVARIANTS
  DeletedOnlyIfPeerClosed
  PacketsAreTakenWhole
PROPERTIES
  EachTurnShortensStorage
  HandlerReturns
  SentPacketsAreTaken
CHECK_DEADLOCK FALSE
