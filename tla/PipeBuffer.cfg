CONSTANTS
  Byte <- Bits
  Size = 3
  Zero = 0
  Inputs <- UpToFour
  Lengths = {0, 1, 2, 3, 4}
SPECIFICATION Spec
PROPERTIES
  RingImplementsFifo
