CONSTANTS
  MaxRows = 3
  PageSize = 1
  MaxRequests = 3
  MaxAtOnce = 2
  MaxCommands = 3
  Processes = {1, 2}
  Builders = {1, 2}
  MaxImages = 3
  MaxJobs = 3
  Workers = {1, 2}
  Tries = 2
SPECIFICATION Spec
INVARIANTS ListsAreRight RunsAreCounted CommandsAreSafe LaunchesItsImage JobsAreAccepted OutputsCanBeRead
CHECK_DEADLOCK FALSE
