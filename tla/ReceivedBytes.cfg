SPECIFICATION Spec
CONSTANTS
  blank = blank
  Blank = blank
  Byte <- SomeBytes
  Limit = 3
  Early = 0
  MaxBytes = 2
  Uint32 = 256
  Resets = FALSE
INVARIANTS
  ReceivedShown
CHECK_DEADLOCK FALSE
