SPECIFICATION Spec
CONSTANTS
  k1 = k1  k2 = k2  f1 = f1  f2 = f2
  NoConn = NoConn  NoFd = NoFd  NoRoom = NoRoom
  Conns = {k1, k2}
  Fds = {f1}
  Clients = {1}
  Rooms = {1}
  MaxQueue = 2
SYMMETRY MCSymmetry
PROPERTIES
  LoginAnswersItsSender
