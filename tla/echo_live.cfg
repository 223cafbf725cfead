SPECIFICATION LiveSpec
CONSTANTS
  NumSlots = 1
  NumConns = 1
  Workers = {w1, w2}
  MaxMsgs = 2
  Versions = {"01", "02", "03", "03R", "04", "05", "06", "07", "07R", "08"}
PROPERTIES
  EchoArrives
  GoneIsClosed
  KeyEndsServer
CHECK_DEADLOCK FALSE
