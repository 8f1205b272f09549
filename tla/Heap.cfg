SPECIFICATION Spec
CONSTANTS
  HeapStart = 8
  HeapSize = 136
  Layouts <- MCLayouts
INVARIANTS BlocksApart
PROPERTY LossBounded
CHECK_DEADLOCK FALSE
