SPECIFICATION FairSpec
CONSTANTS
  Tensor <- MCTensor
  NoName = ""
  None = None
  Sanitize <- MCSanitize
  Nigs <- MCLayouts
INVARIANT InputsResolve
CHECK_DEADLOCK FALSE
