SPECIFICATION Spec
CONSTANTS
  Clusters = {c1}
  Names = {n1, n2}
  NumServices = 1
  MaxRounds = 3
INVARIANTS TypeOK NoMissedWakeup ClosedByOwnQuery
CHECK_DEADLOCK FALSE
