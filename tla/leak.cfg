SPECIFICATION FairSpec
CONSTANTS
  MaxFaults = 0

CHECK_DEADLOCK FALSE
INVARIANT TornDown
