SPECIFICATION SpecInduced
CONSTANTS
  M = 3
  Graphs <- MCGraphs
  TypeVectors <- MCAllTrue
  DepDim = 1
  Programs <- MCPrograms
INVARIANTS CarriedDependencesKept LegalNotRefused
