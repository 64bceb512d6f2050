CONSTANTS
  MaxFutures = 4
  MaxSubgraph = 2
  Standalone = {1,2,3}
  Cached = {}
  Timed = {}
  Retries <- RootRetry
  MaxParallelism = 1
  RunsRemotely = TRUE
  MaxEvictions = 2
SPECIFICATION Spec
INVARIANTS InlineOnlyWhileExecuting RowsFollowFutures
PROPERTIES Implements
