SPECIFICATION Spec
CONSTANTS
  Tensor <- PatternTensors
  KeyNamed <- KeyNames
  ValueNamed <- ValueNames
  Patterns <- SpelledMacros
  Models <- MCTransposed
INVARIANTS
  NothingDangling
CHECK_DEADLOCK FALSE
