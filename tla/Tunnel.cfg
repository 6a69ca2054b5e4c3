SPECIFICATION FairSpec
CONSTANTS
  blank = blank
  Blank = blank
  Byte <- SomeBytes
  Limit = 3
  Early = 2
  MaxBytes = 5
  Uint32 = 256
  Resets = TRUE
INVARIANTS
  TypeOK
  NothingLost
  CountersAgree
PROPERTIES
  EndHasCause
  Delivered
CHECK_DEADLOCK FALSE
