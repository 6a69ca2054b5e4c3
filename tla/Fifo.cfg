SPECIFICATION Spec
CONSTANTS
  Limit = 4
  Byte = {0, 1}
INVARIANTS
  PointersOrdered
PROPERTY ImplementsQueue
