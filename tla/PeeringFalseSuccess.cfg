SPECIFICATION Spec
CONSTANTS
  Clusters = {c1}
  Names = {n1}
  NumServices = 1
  MaxRounds = 1
PROPERTIES SuccessMeansVisible
CHECK_DEADLOCK FALSE
