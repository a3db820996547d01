SPECIFICATION FairSpec
CONSTANTS
  None = None
  Client <- MCClient
CHECK_DEADLOCK FALSE
INVARIANTS
  TypeOK
  RelayStartsAtData
  AnswersAsAsked
PROPERTIES
  ImplementsDialogue
  HandshakeEnds
