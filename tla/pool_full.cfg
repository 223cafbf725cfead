SPECIFICATION Spec
CONSTANTS
  NumSessions = 1
  Workers = {w1, w2}
  Accepter = accepter
  Sender = sender
  Packet = packet
  MaxConn = 3
  CntMod = 16
  Faults <- AllFaults
  LogicSends = TRUE
  ReadsTimeTwice = FALSE
  DrainBeforeReuse = TRUE
SYMMETRY WorkerSymmetry
INVARIANTS
  TypeOK
  OneOwner
  ClosesLiveSocket
  SessionCntExact
  ClosesOwnConnection
  OneSend
  OneRecv
  ReportedBeforeClosed
  TakenOnlyWhenElapsed
PROPERTIES
  SlotsFollowLifecycle
CHECK_DEADLOCK FALSE
