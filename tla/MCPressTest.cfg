SPECIFICATION ReceiverFairSpec
CONSTANTS
  a = a
  b = b
  None = None
  Sessions <- MCSessions
  Protocols = {TRUE, FALSE}
  CtrlC = TRUE
  MaxPkts = 2
  Word = 16
INVARIANTS
  Counted
  LossIsReal
PROPERTIES
  SessionsRemoved
