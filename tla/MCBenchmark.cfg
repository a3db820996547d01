SPECIFICATION FairSpec
CONSTANTS
  a = a
  b = b
  t1 = t1
  t2 = t2
  p1 = p1
  p2 = p2
  u1 = u1
  Calls <- MCCalls
  Kinds <- MCKinds
  Targets <- MCTargets
  Samples = 2
  Pings <- MCPings
  URLs <- MCURLs
CHECK_DEADLOCK FALSE
INVARIANTS
  TypeOK
  ResultsComplete
PROPERTY
  CallsReturn
