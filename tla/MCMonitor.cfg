SPECIFICATION FairSpec
CONSTANTS
  c1 = c1
  None = None
  Consumer <- MCConsumer
  Measurement <- MCMeasurement
  MaxHistory = 2
  ChanSize = 2
  MaxSpare = 2
  MaxUpdates = 4
CHECK_DEADLOCK FALSE
INVARIANTS
  TypeOK
  ResultsCoherent
  LosesOnlyWhenBehind
PROPERTIES
  ImplementsSnapshots
  LoopStops
