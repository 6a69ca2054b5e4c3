SPECIFICATION Spec
CONSTANTS
  Admin = {a1}
  Short = {"u"}
  Full = {"f"}
  Long = {}
  Password <- ThreeFields
  Slots = 3
  Size <- Numbers
  CommandLine <- Nobody
  Noise = 3
  Pieces = 2
INVARIANTS
  InTable
CHECK_DEADLOCK FALSE
