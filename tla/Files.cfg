SPECIFICATION Spec
CONSTANTS
  p1 = p1
  p2 = p2
  Procs = {p1, p2}
  BootInit = p1
  NameOrder <- MCNameOrder
  NoData = 0
  BootDirs <- MCBootDirs
  Archive <- MCArchive
  Programs <- MCPrograms
  Modes <- MCModes
  Counts <- MCCounts
  Events <- MCEvents
  MaxNodes = 9
  MaxHandles = 4
  MaxFds = 4
  MaxSize = 3
  MaxCalls = 4
INVARIANTS TreeShape ScanExact WaitExact
PROPERTIES  NamespaceExact
CHECK_DEADLOCK FALSE
