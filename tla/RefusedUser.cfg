SPECIFICATION Spec
CONSTANTS
  Char <- Letters
  OK <- ShortOk
  USER <- ShortUser
  PASS <- ShortPass
  ERR <- ShortErr
  Texts <- SomeTexts
  Remarks <- NoRemark
  Addresses <- SomeAddresses
  MaxText = 3
  PageSize = 1
  MaxTries = 2
INVARIANTS
  OnlyAccepted
CHECK_DEADLOCK FALSE
