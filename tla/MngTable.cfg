SPECIFICATION Spec
CONSTANTS
  Admin = {a1}
  Short = {"u"}
  Full = {"f"}
  Long = {}
  Password <- UpToThreeFields
  Slots = 3
  Size <- Numbers
  CommandLine <- EveryEntry
  Noise = 3
  Pieces = 2
INVARIANTS
  InTable
CHECK_DEADLOCK FALSE
