SPECIFICATION RestartSpec
CONSTANTS
  a = a
  b = b
  Peers <- MCPeers
  Client = a
  SnMod = 16
  FirstSn = 0
  WndRcv = 3
  SndWnd = 3
  RcvWnd = 1
  FastResend = 1
  FastLimit = 1
  Mtu = 3
  FragLen = 2
  Lens <- MCLens
  MaxMsgs <- MCMsgs
  MaxFaults = 0
  NetCap = 2
INVARIANTS
  NextFileReceived
