SPECIFICATION FairSpec
CONSTANTS
  c1 = c1
  c2 = c2
  r1 = r1
  r2 = r2
  None = None
  Conn <- MCConn
  Caller <- MCCaller
  MaxBytes = 1
  MaxReads = 2
CHECK_DEADLOCK FALSE
INVARIANTS
  TypeOK
  CountsConnections
  SnapshotOrdered
  WindowsTelescope
PROPERTY
  StartStops
