SPECIFICATION Spec
CONSTANTS
  TotalFrames = 20
  Procs = {p1, p2}
  BootInit = p1
  Idle = idle
  Fresh = fresh
  UserPages = 4
  PageSize = 2
  Fanout = 2
  MmapBase = 4
  Usable <- MCUsable
  BitmapPages = 1
  HeapPages = 2
  Images <- MCImages
  UserStack <- MCUserStack
  Addrs <- MCAddrs
  Lengths <- MCLengths
  Prots <- MCProts
  MapFlags = {1}
  MaxCalls = 4
INVARIANTS FramesExclusive TlbSound EntriesMatchVmas
PROPERTIES ListExact LossesKnown
CHECK_DEADLOCK FALSE
