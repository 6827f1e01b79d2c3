SPECIFICATION LiveSpec
CONSTANTS
  LastEvent = 4
  Local = {2}
  CommitsInOrder = FALSE
  PageSize = 2
  HighWater = 2
INVARIANTS
  MissingWereOvertaken
  RepeatedWereCrossed
PROPERTIES
  ArrivesOrIsPassed
CHECK_DEADLOCK FALSE
