SPECIFICATION Spec
CONSTANTS
  NDim = 2
  Infinity = 50
  Programs <- MCPrograms
  SkewAmounts <- MCSkew
  ShiftAmounts <- MCShift
  Matrices <- MCMatrices
  Conditions <- MCConditions
  PeelAmounts <- MCPeel
  UnrollAmounts <- MCUnroll
  Interactive = FALSE
  LeftOut <- MCStale
INVARIANT CodeIsCurrent
CHECK_DEADLOCK FALSE
