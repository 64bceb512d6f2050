SPECIFICATION FairSpec
CONSTANTS
  r1 = r1
  r2 = r2
  Requests = {r1, r2}
  RolesOf <- LookAndStop
  MaxFaults = 1
INVARIANTS TypeOK FailedMeansOver GoneMeansGone
PROPERTIES NeverActiveAgain EndIsNoticed
