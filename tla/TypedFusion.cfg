SPECIFICATION Spec
CONSTANTS
  M = 4
  Graphs <- InducedGraphs
  TypeVectors <- AllOrSome
INVARIANTS
  TypeOK
  BadEdgesSeparated
  GoodEdgesOrdered
  GroupsAreNumbering
  EveryNodePlaced
  RefusedBeforeFusing
PROPERTIES
  FollowsPlan
  Terminates
