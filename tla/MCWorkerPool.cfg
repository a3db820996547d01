SPECIFICATION FairSpec
CONSTANTS
  w1 = w1
  w2 = w2
  j1 = j1
  j2 = j2
  j3 = j3
  j4 = j4
  j5 = j5
  s1 = s1
  s2 = s2
  None = None
  Worker <- MCWorker
  Job <- MCJob
  Child <- MCChild
  Stopper <- MCStopper
  Capacity = 1
CHECK_DEADLOCK FALSE
INVARIANTS
  TypeOK
  QuietAfterStop
  StopTwiceSafe
PROPERTIES
  QueuedRuns
  StopReturns
