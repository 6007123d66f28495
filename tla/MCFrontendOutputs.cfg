SPECIFICATION Spec
CONSTANTS
  Tensor <- PatternTensors
  KeyNamed <- KeyNames
  ValueNamed <- ValueNames
  Patterns <- SpelledMacros
  Models <- MCCopied
INVARIANTS
  OutputsKept
CHECK_DEADLOCK FALSE
