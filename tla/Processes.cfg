CONSTANTS
  init = init
  idle = idle
  c1 = c1
  c2 = c2
  c3 = c3
  c4 = c4
  none = none
  Pcb <- ThreeChildren
  Idle = idle
  BootInit = init
  NoPcb = none
  MaxPid = 2
  Signals = {"fatal"}
  WaitArgs <- AnyPid
SPECIFICATION FairSpec
INVARIANTS
  QueueSound
  ReadyIsQueued
  SleeperHasNothingToReap
PROPERTIES
  OnlyZombieChildrenReaped
  NoStarvation
  
