SPECIFICATION Spec
CONSTANTS
  NDim = 2
  Relations <- MCRelations
  CommonLoops = {1, 2}
  OpenSides <- MCOpenSides
  Infinity = 9
INVARIANTS TypeOK EveryDependenceFound EveryEdgeFounded EdgesPointForward
PROPERTY Terminates
