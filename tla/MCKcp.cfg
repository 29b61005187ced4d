SPECIFICATION FairSpec
CONSTANTS
  a = a
  b = b
  Peers <- MCPeers
  SnMod = 16
  FirstSn = 14
  WndRcv = 3
  SndWnd = 3
  RcvWnd = 1
  FastResend = 1
  FastLimit = 1
  Mtu = 3
  FragLen = 2
  Lens <- MCLens
  MaxMsgs <- MCMsgs
  MaxFaults = 2
  NetCap = 2
INVARIANTS
  Retained
  WindowsHold
PROPERTIES
  Reliable
  Arrives
