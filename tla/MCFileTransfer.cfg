SPECIFICATION FairSpec
CONSTANTS
  c1 = c1
  c2 = c2
  Clients <- MCClients
  p1 = p1
  p2 = p2
  Sizes <- MCSizes
  Paths <- MCPaths
  Chunk = 2
  Word = 4
  Window = 2
  MaxChanges = 1
  Faulty = {c1}
INVARIANTS
  NoWildFile
  Exact
PROPERTIES
  TransferEnds
  FailureHeard
CHECK_DEADLOCK FALSE
