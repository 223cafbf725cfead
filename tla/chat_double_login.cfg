SPECIFICATION Spec
CONSTANTS
  Users = {u1, u2}
  Accounts = {alice}
  NoId = noid
  Rooms = {room}
  NoRoom = noroom
  MaxRoomUsers = 1
  RedisThreads = {r1}
  Settles = TRUE
  ClientPackets <- LoginPackets
  MaxConn = 2
  MaxPackets = 2
  MaxQueued = 2
SYMMETRY UserSymmetry
INVARIANTS
  NoDoubleLogin
CHECK_DEADLOCK FALSE
