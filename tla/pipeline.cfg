CONSTANTS
  MaxFutures = 4
  MaxSubgraph = 3
  Standalone = {2,3}
  Cached = {2}
  Timed = {1}
  Retries <- OneRetry
  MaxParallelism = 1
  RunsRemotely = FALSE
  MaxEvictions = 0
SPECIFICATION FairSpec
INVARIANTS TypeOK ResolvedHasValue WaitsOnlyWhenStuck ParallelismBound NoInternalError
PROPERTIES Implements EndsTidy Terminates
