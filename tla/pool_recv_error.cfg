SPECIFICATION Spec
CONSTANTS
  NumSessions = 1
  Workers = {w1, w2}
  Accepter = accepter
  Sender = sender
  Packet = packet
  MaxConn = 1
  CntMod = 16
  Faults <- ResetOnly
  LogicSends = FALSE
  ReadsTimeTwice = FALSE
  DrainBeforeReuse = TRUE
SYMMETRY WorkerSymmetry
INVARIANTS
  ActiveHasReceive
