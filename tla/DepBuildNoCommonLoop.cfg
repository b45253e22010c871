SPECIFICATION Spec
CONSTANTS
  NDim = 2
  Relations <- MCOneRelations
  CommonLoops = {0}
  OpenSides <- MCNoOpenSides
  Infinity = 9
INVARIANT EveryDependenceFound
