SPECIFICATION Spec
CONSTANTS
  Conns = {k1, k2}
  Addrs = {a1, a2}
  RoomObjs = {r1}
  Users = {u1}
  UserObjs = {x1}
  ProxyIds = {p1, p2}
  Workers = {w1}
  NoRoom = NoRoom  NoUser = NoUser  NoFollower = NoFollower
  NoConn = NoConn  NoId = NoId
  Freed = Freed  Null = Null  Wild = Wild
  MaxQueue = 2  MaxRequests = 1
SYMMETRY MCSymmetry
INVARIANTS
  OnlyOutrunPointersAreStale
  AddressesAreOwned
  MediaGoesToItsClient
  AvsStreamsWhileFollowed
  FreesAreOwnUnlessUnset
PROPERTIES
  FollowersStayWhileForwarding
  ImplementsTerminationLife
