SPECIFICATION Spec
CONSTANTS
  Char <- Letters
  OK <- ShortOk
  USER <- ShortUser
  PASS <- ShortPass
  ERR <- ShortErr
  Texts <- SomeTexts
  Remarks <- SomeRemarks
  Addresses <- SomeAddresses
  MaxText = 3
  PageSize = 17
  MaxTries = 2
INVARIANTS
  TypeOK
  CapturedInOrder
  LoginCaptured
  PagesComplete
CHECK_DEADLOCK FALSE
