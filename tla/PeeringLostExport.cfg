SPECIFICATION Spec
CONSTANTS
  Clusters = {c1, c2}
  Names = {n1}
  NumServices = 1
  MaxRounds = 1
PROPERTIES ExportsAccumulate
CHECK_DEADLOCK FALSE
