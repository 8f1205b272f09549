SPECIFICATION Spec
CONSTANTS
  Base = 16
  WordSize = 2
  PageSize = 8
  UserEnd = 128
  StackBottom = 72
  StackTop = 120
  StrMax = 3
  MaxArgs = 4
  Files <- MCFiles
  BootPath <- MCBootPath
  BootEnv <- MCBootEnv
  Ids = {0, 1, 2}
  Pointers <- MCPointers
  Targets <- MCTargets
  Triples <- MCTriples
  MaxCalls = 3
INVARIANTS StackDecodes
PROPERTIES  ReadOnlyKept PrivilegeGone
CHECK_DEADLOCK FALSE
