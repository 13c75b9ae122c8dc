\* Every algorithm on every small graph. The algorithms end, so the system stops.
SPECIFICATION Spec
CONSTANTS
  Node <- MCNode
  Graphs <- MCGraphs
  Sources <- MCSources
  Unit = 12
  MaxEdges = 5
  MaxWeighted = 4
INVARIANTS
  TypeOK
  LevelOrder
  ComponentsExact
  DistancesExact
  DependenciesExact
  LocalCountsExact
CHECK_DEADLOCK FALSE
