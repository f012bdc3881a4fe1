SPECIFICATION Spec
CONSTANTS
  Inputs <- SampleInputs
  Values <- MCValues
  Environment <- MCEnvironment
  QueueLen = 1
  MaxSignals = 1
INVARIANT NeverPanics
CHECK_DEADLOCK FALSE
