SPECIFICATION FairSpec
CONSTANTS
  c1 = c1
  c2 = c2
  d1 = d1
  d2 = d2
  d3 = d3
  dns1 = dns1
  Stun = Stun
  None = None
  Client <- MCClient
  Datagram <- MCDatagram
  Source <- MCSource
  Query <- MCQuery
  StunClient <- MCStunClient
  DnsServer <- MCDnsServer
  MaxResponses = 1
CHECK_DEADLOCK FALSE
INVARIANTS
  TypeOK
  TableSound
  RelayAttached
  SessionIsolation
  LeakOnlyByOverwrite
  Accounting
PROPERTIES
  ImplementsTable
  TableDrains
