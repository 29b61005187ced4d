SPECIFICATION FairSpec
CONSTANTS
  HeadLen = 2
  Lens <- MCLens
  Cap0 = 4
  MaxPkt = 6
  MaxMsgs = 4
INVARIANTS
  Framing
PROPERTIES
  InOrder
  AllDelivered
