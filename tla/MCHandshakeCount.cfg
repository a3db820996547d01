SPECIFICATION Spec
CONSTANTS
  None = None
  Client <- UsualClient
CHECK_DEADLOCK FALSE
INVARIANT
  CountAsSent
