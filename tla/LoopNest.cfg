SPECIFICATION Spec
CONSTANTS
  NDim = 3
  Scripts <- MCScripts
  Interactive = FALSE
  MaxLevels = 5
INVARIANTS DepsDescribeNest LevelsDescribeNest OrderPreserved
