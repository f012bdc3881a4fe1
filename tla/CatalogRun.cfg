SPECIFICATION FairSpec
CONSTANTS
  Updaters = {nodes, services, checks}
  Bursts = {0, 10}
  Lens = {0, 1}
INVARIANTS TypeOK OnlyFaultsCancel NoQuietExit
PROPERTIES Winds KeepsContract
CHECK_DEADLOCK FALSE
