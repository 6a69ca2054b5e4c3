SPECIFICATION Spec
CONSTANTS
  Kernel = 4
  Table = 4
  MaxGen = 7
  Kinds <- NoKind
INVARIANT EventForReported
CHECK_DEADLOCK FALSE
