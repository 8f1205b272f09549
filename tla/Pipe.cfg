CONSTANTS
  init = init
  idle = idle
  c1 = c1
  c2 = c2
  none = none
  Pcb <- PcbTwo
  Forked <- Two
  Idle = idle
  BootInit = init
  NoPcb = none
  MaxPid = 2
  Size = 2
  Counts = {0, 1, 2}
  Interrupts = {"caught", "masked"}
SPECIFICATION Spec
CHECK_DEADLOCK FALSE
INVARIANTS
  SleeperIsRegistered
  WaitersAreInside
  BlockedBelongs
