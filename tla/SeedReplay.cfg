SPECIFICATION ReplaySpec
CONSTANTS
  Nodes = {n1, n2}
  Services = {s1}
  Checks = {}
INVARIANT SameSeedSameData
CHECK_DEADLOCK FALSE
