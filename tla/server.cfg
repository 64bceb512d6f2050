CONSTANTS
  Leaves = {"leaf"}
  Tries = 3
  MaxDisturbances = 1
SPECIFICATION FairSpec
CHECK_DEADLOCK FALSE
PROPERTIES AnswersSurvive EverythingEnds
