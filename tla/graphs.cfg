CONSTANTS
  MaxRuns = 5
  MaxSubgraph = 3
  TakesTwice = FALSE
  MaxCalls = 3
SPECIFICATION GraphsSpec
INVARIANTS LayersAreSorted NothingStale GraphIsClosed NothingTwice RerunGoesOn NoLateTypeError StorageKeepsValues NothingForgotten
CHECK_DEADLOCK FALSE
