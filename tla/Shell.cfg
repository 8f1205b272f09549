SPECIFICATION Spec
CONSTANTS
  NameOrder <- MCNameOrder
  NoData <- MCNoData
  BootDirs <- MCBootDirs
  Archives <- MCArchives
  Lines <- MCLines
  MaxLines = 3
  MaxStages = 3
  Batch = 2
  MaxPath = 9
  MaxDepth = 4
INVARIANTS   LineConfined MoveKeepsData
PROPERTIES LineEnds
CHECK_DEADLOCK FALSE
