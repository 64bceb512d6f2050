SPECIFICATION FairSpec
CONSTANTS
  MaxFaults = 1

INVARIANTS TypeOK NamedMeansGone BodyHasCluster ClusterIsKnown
PROPERTY CleanerGetsThere
CHECK_DEADLOCK FALSE
