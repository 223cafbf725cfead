SPECIFICATION SafetySpec
CONSTANTS
  NumSlots = 2
  NumConns = 2
  Workers = {w1, w2}
  MaxMsgs = 2
  Versions = {"01", "02", "03", "03R", "04", "05", "06", "07", "07R", "08"}
SYMMETRY WorkerSymmetry
CONSTRAINT Defined
INVARIANTS
  EchoInOrder
  NoCrossTalk
  OneReceive
  OneSend
  NoConnectionLost
  NeverOverlaps
  SessionsOutliveNetwork
CHECK_DEADLOCK FALSE
