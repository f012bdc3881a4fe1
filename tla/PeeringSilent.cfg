SPECIFICATION SilentSpec
CONSTANTS
  Clusters = {c1}
  Names = {n1}
  NumServices = 1
  MaxRounds = 1
PROPERTIES Stops
CHECK_DEADLOCK FALSE
