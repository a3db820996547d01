SPECIFICATION FairSpec
CONSTANTS
  MaxChunks <- MCMaxChunks
CHECK_DEADLOCK FALSE
INVARIANTS
  TypeOK
  CopiesWholeStreams
  CountedWhenClosed
PROPERTY
  ClientGoneEndsTunnel
