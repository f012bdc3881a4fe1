SPECIFICATION FairSpec
CONSTANTS
  Nodes = {n1, n2}
  Services = {s1, s2}
  Checks = {c1, c2}
INVARIANTS TypeOK PhaseBarrier NilMeansAllAttempted OnlyFailuresGoMissing
PROPERTIES QuietAfterReturn KeepsContract AlwaysReturns
CHECK_DEADLOCK FALSE
