SPECIFICATION Spec
CONSTANTS
  Size = 5
  Bytes <- MCBytes
  Header = 2
  Structs = {3}
  MaxLen = 3
  MaxBytes = 6
  MaxRecv = 3
CONSTRAINT NotRaced
INVARIANTS
  
  
  NothingWaits
CHECK_DEADLOCK FALSE
