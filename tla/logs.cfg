CONSTANTS
  EndIndex = 99
  None = None
  Scenarios <- SmallRuns
  MaxFileLines = 2
  PipeSize = 1
  MaxFailures = 1
  PageLines = 1
  MaxRequests = 3
  Clients = {"follow", "view"}
SPECIFICATION Spec
INVARIANTS CommandShowsInOrder ViewHasNoGaps NothingLost
