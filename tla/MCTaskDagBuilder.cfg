SPECIFICATION FairSpec
CONSTANTS
  Tensor <- MCTensor
  NoName = ""
  None = None
  Sanitize <- MCSanitize
  Nigs <- MCNigs
INVARIANTS
  WiredThroughLayout
  FinderNeverDescends
  CycleCheckExact
  OrphanCheckExact
  NoDeadTask
PROPERTY BuildReturns
CHECK_DEADLOCK FALSE
