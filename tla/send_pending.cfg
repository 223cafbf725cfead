SPECIFICATION Spec
CONSTANTS
  Size = 4
  Bytes = {0, 1}
  MaxLen = 3
  Messages <- Packets
  Outcomes <- NeverFail
  MaxBytes = 5
INVARIANT StreamIntact
CHECK_DEADLOCK FALSE
