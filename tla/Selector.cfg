SPECIFICATION FairSpec
CONSTANTS
  Kernel = 3
  Table = 2
  MaxGen = 3
  Kinds <- Kind
INVARIANTS
  TypeOK
  SetsFollowItems
  OpenIsOwned
  JobForAsker
  JobOnce
PROPERTIES
  EveryReportSeen
  LookupTold
CHECK_DEADLOCK FALSE
