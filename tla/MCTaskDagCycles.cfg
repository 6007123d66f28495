SPECIFICATION FairSpec
CONSTANTS
  Tensor <- MCTensor
  NoName = ""
  None = None
  Sanitize <- MCSanitize
  Nigs <- MCCycles
PROPERTY CyclesRaise
CHECK_DEADLOCK FALSE
