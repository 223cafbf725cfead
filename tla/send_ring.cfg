SPECIFICATION Spec
CONSTANTS
  Size = 4
  Bytes = {0, 1}
  MaxLen = 3
  Messages <- Packets
  Outcomes <- Anything
  MaxBytes = 6
INVARIANTS TypeOK WsaBufsCoverContents RequestIntact StreamIntactUnlessLate
PROPERTY RingIsQueue
CHECK_DEADLOCK FALSE
