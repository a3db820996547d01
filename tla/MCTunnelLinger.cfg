SPECIFICATION Spec
CONSTANTS
  MaxChunks = 1
CHECK_DEADLOCK FALSE
INVARIANT
  FinishedStreamsArrive
