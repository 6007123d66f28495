SPECIFICATION Spec
CONSTANTS
  Tensor <- PatternTensors
  KeyNamed <- KeyNames
  ValueNamed <- ValueNames
  Patterns <- SpelledMacros
  Models <- MCModels
INVARIANTS
  TypeOK
  GraphsWellOrdered
  MeaningKept
  ResultsKept
  PatternsRecognised
  RefusesResidual
  NeverDuplicate
\* lower_graph_ir_to_nig returns or raises
CHECK_DEADLOCK FALSE
