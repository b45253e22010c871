SPECIFICATION Spec
CONSTANTS
  NDim = 2
  Infinity = 50
  Programs <- MCPrograms
  SkewAmounts <- MCSkew
  ShiftAmounts <- MCShift
  Matrices <- MCMatrices
  Conditions <- MCConditions
  PeelAmounts <- MCPeel
  UnrollAmounts <- MCUnroll
  Interactive = FALSE
  LeftOut <- MCLeftOut
INVARIANTS RunsEveryInstanceOnce VectorsCoverDistances OrderPreserved CodeIsCurrent
CHECK_DEADLOCK FALSE
