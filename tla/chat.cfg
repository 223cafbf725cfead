SPECIFICATION Spec
CONSTANTS
  Users = {u1, u2}
  Accounts = {alice}
  NoId = noid
  Rooms = {room}
  NoRoom = noroom
  MaxRoomUsers = 1
  RedisThreads = {r1}
  Settles = TRUE
  ClientPackets <- ChatPackets
  MaxConn = 2
  MaxPackets = 3
  MaxQueued = 1
SYMMETRY UserSymmetry
INVARIANTS
  TypeOK
  IndexForEveryPacket
  InRoomHasRoom
  LoginsAnsweredInOrder
  LoggedInByOwnRequest
  SendsOnlyWhereHeard
CHECK_DEADLOCK FALSE
