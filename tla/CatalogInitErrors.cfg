SPECIFICATION Spec
CONSTANTS
  Nodes = {n1}
  Services = {s1}
  Checks = {c1}
INVARIANT NilMeansAllRegistered
CHECK_DEADLOCK FALSE
