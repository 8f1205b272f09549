CONSTANTS
  init = init
  idle = idle
  c1 = c1
  c2 = c2
  c3 = c3
  c4 = c4
  none = none
  Pcb <- FourChildren
  Idle = idle
  BootInit = init
  NoPcb = none
  MaxPid = 3
  Signals = {"fatal", "stop", "ignored"}
  WaitArgs <- AnyPid
SPECIFICATION CtxSpec
CHECK_DEADLOCK FALSE
INVARIANTS
  OneInside
  FrameFitsPoint


  
