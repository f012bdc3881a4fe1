SPECIFICATION Spec
CONSTANTS
  n1 = n1
  n2 = n2
  Names <- MCNames
  Configs <- MCConfigs
  Randoms <- MCRandoms
INVARIANTS TypeOK ValidatedNeverPanics AddressesReserved WithinLimits SomethingToUpdate
CHECK_DEADLOCK FALSE
