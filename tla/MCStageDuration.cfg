SPECIFICATION Spec
CONSTANTS
  Requests <- MCRequests
  Transfers <- MCTransfers
INVARIANTS
  InsideBlock
  NoSelfConflict
  NoIdleSlot
  TransportHeld
  SyncAfterTransport
CHECK_DEADLOCK FALSE
