SPECIFICATION Spec
CONSTANTS
  Admin = {a1}
  Short = {"u"}
  Full = {"f"}
  Long = {}
  Password <- UpToAField
  Slots = 3
  Size <- Numbers
  CommandLine <- Nobody
  Noise = 3
  Pieces = 2
PROPERTIES
  OthersKept
CHECK_DEADLOCK FALSE
