SPECIFICATION FairSpec
CONSTANTS
  Clusters = {c1, c2}
  Names = {n1}
  NumServices = 1
  MaxRounds = 1
INVARIANTS TypeOK
PROPERTIES Stops LeftOut KeepsContract
CHECK_DEADLOCK FALSE
