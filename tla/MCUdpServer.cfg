SPECIFICATION FairSpec
CONSTANTS
  a = a
  b = b
  Peers <- MCPeers
  Srv = Srv
  None = None
  Cap = 2
  MaxSent = 3
  MaxRefused = 1
INVARIANTS
  InOrderOnce
  Accounted
PROPERTIES
  QueuesDrained
