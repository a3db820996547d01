SPECIFICATION Spec
CONSTANTS
  s1 = s1
  s2 = s2
  c1 = c1
  c2 = c2
  h1 = h1
  h2 = h2
  h3 = h3
  h4 = h4
  h5 = h5
  None = None
  Servers <- MCServers
  DefaultServer = s1
  Concurrency = 1
  Samples = 2
  Latencies <- MCLatencies
  Unreachable = 100
  Callers <- NoCallers
  Hosts <- MCHosts
  MaxCache = 4
CHECK_DEADLOCK FALSE
INVARIANT
  FastestUsed
