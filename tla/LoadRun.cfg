SPECIFICATION FairSpec
CONSTANTS
  Inputs <- MCInputs
  Values <- MCValues
  Environment <- MCEnvironment
  QueueLen = 2
  MaxSignals = 3
INVARIANTS TypeOK SeedsKeepTheirPlace LastFlagWins NormalizedOnce RunsOnlyWhenReady ExitsAfterGenerators PipesAreHarmless
PROPERTIES Stops FailureStopsAll KeepsContract
CHECK_DEADLOCK FALSE
