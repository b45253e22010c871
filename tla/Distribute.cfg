SPECIFICATION Spec
CONSTANTS
  N = 4
  Layouts <- MCAround
  Dependences <- MCAll
  UnselectedDependences = FALSE
INVARIANTS
  DependencesPreserved
  GroupsComeSorted
  RefusedOnlyForCycle
  OthersKeepTheirOrder
