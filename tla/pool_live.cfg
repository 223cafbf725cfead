SPECIFICATION FairSpec
CONSTANTS
  NumSessions = 2
  Workers = {w1}
  Accepter = accepter
  Sender = sender
  Packet = packet
  MaxConn = 2
  CntMod = 16
  Faults <- NoFaults
  LogicSends = FALSE
  ReadsTimeTwice = TRUE
  DrainBeforeReuse = TRUE
INVARIANTS
  MaxIsForAMoment
  ActiveHasReceive
PROPERTIES
  PeerGoneIsNoticed
  ClosedSlotIsReused
