SPECIFICATION FairSpec
CONSTANTS
  Users = {u1, u2}
  Accounts = {alice}
  NoId = noid
  Rooms = {room}
  NoRoom = noroom
  MaxRoomUsers = 1
  RedisThreads = {r1}
  Settles = TRUE
  ClientPackets <- LivePackets
  MaxConn = 2
  MaxPackets = 2
  MaxQueued = 2
PROPERTIES
  PacketsAreTaken
  LoginsAreAnswered
CHECK_DEADLOCK FALSE
