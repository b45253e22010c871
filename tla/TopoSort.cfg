SPECIFICATION Spec
CONSTANTS
  N = 4
  EdgeSpace <- TwoCycles
INVARIANTS
  TypeOK
  OrderIsPermutation
  ResultPartitions
  KeepsSortedInput
PROPERTIES
  EmitsComponentsInOrder
  Terminates
