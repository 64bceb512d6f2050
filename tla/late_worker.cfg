CONSTANTS
  MaxFutures = 3
  MaxSubgraph = 1
  Standalone = {2}
  Cached = {}
  Timed = {2}
  Retries <- OneRetry
  MaxParallelism = 0
  RunsRemotely = TRUE
  MaxEvictions = 0
SPECIFICATION Spec
INVARIANTS ResolvedHasValue
