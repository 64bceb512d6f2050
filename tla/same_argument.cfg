CONSTANTS
  MaxRuns = 4
  MaxSubgraph = 2
  TakesTwice = TRUE
SPECIFICATION Spec
INVARIANT PicksUp
CHECK_DEADLOCK FALSE
