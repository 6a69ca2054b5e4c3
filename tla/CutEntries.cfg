SPECIFICATION Spec
CONSTANTS
  Char <- Letters
  OK <- ShortOk
  USER <- ShortUser
  PASS <- ShortPass
  ERR <- ShortErr
  Texts <- ShortTexts
  Remarks <- NoRemark
  Addresses <- SomeAddresses
  MaxText = 2
  PageSize = 17
  MaxTries = 2
INVARIANTS
  EntriesWhole
CHECK_DEADLOCK FALSE
