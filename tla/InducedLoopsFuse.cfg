SPECIFICATION SpecFuse
CONSTANTS
  M = 3
  Graphs <- MCGraphs
  TypeVectors <- MCOuterTwo
  DepDim = 1
  Programs <- MCOneDependence
INVARIANT CarriedDependencesKept
