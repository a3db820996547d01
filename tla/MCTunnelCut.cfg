SPECIFICATION ReadingSpec
CONSTANTS
  MaxChunks = 1
CHECK_DEADLOCK FALSE
PROPERTY
  TargetDataArrives
