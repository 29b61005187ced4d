SPECIFICATION BufferFairSpec
CONSTANTS
  First = 2
  Enough = 1
  MaxCap = 2
  FlushTimes = 2
  Delay = 2
  Patience = 4
  PacketLens = {1, 3}
  Room = 2
  Late = 1
  MaxBytes = 8
  MaxConns = 2
INVARIANTS
  StreamKept
PROPERTIES
  TimeoutIsReal
  Settled
