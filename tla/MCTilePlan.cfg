SPECIFICATION TileSpec
CONSTANTS
  Tensor <- MCTensor
  Says <- MCSays
  Sanitize <- MCSanitize
  Nigs <- MCNigs
  Scenarios <- MCScenarios
  Profiles <- MCProfiles
  Mxus <- MCMxus
INVARIANTS
  TypeOK
  PeaksExact
  BindingsDescribe
  TilesFit
  SlicesDisjoint
  TopIsPlanned
  RanksShrink
CHECK_DEADLOCK FALSE
