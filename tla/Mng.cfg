SPECIFICATION FairSpec
CONSTANTS
  Admin = {a1}
  Short = {"u", "v"}
  Full = {}
  Long = {"l"}
  Password <- Words
  Slots = 3
  Size <- Numbers
  CommandLine <- NobodyOrOne
  Noise = 3
  Pieces = 2
INVARIANTS
  TypeOK
  EventHasHandler
PROPERTIES
  ChangedByHolder
  SilentOnlySize
  ImplementsAccounts
  CommandAnswered
  EndNoticed
CHECK_DEADLOCK FALSE
