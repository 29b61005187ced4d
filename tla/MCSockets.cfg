SPECIFICATION FairSpec
CONSTANTS
  a = a
  b = b
  None = None
  Clients = {a}
  Conns = {b}
  Fds = {1}
  MaxData = 1
INVARIANTS
  NoStaleEvent
  DescriptorsKept
  HeardOnce
PROPERTIES
  ConnectAnswered
  AcceptResumes
  EndReported
