SPECIFICATION Spec
CONSTANTS
  N = 3
  Depth = 2
  Nests <- MCNests
  Dependences <- MCDependences
INVARIANTS
  CallsOwnTheirLoop
  DependencesPreserved
  PlacesDistinct
  NeverRefused
