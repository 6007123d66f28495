SPECIFICATION Spec
CONSTANTS
  Tensor <- MCTensor
  NoScenario = NoScenario
  NoTarget = NoTarget
  NoLayout = NoLayout
  NoWeights = NoWeights
  NoGroup = NoGroup
  KeyNamed = {}
  ValueNamed = {}
  Cases <- MCCases
INVARIANTS
  ShapesClose
  OpcodesEnabled
  QuantHonoured
  CacheHonoured
\* binding ends, or the lowering has raised
CHECK_DEADLOCK FALSE
