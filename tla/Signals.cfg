SPECIFICATION Spec
CONSTANTS
  Procs = {1, 2}
  BootInit = 1
  Sigs <- MCSigs
  Handlers <- MCHandlers
  Masks <- MCMasks
  StackFrames = 2
  MaxCalls = 4
 
PROPERTIES  SignalsKept
CHECK_DEADLOCK FALSE
