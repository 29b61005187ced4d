SPECIFICATION Spec
CONSTANTS
  Modes <- MCModes
  Limits = {TRUE, FALSE}
  Window = 3
  Second = 8
  Intervals = {8, 12}
  Duration = 2
  Block = 2
  Budget = 3
  Batch = 2
  MaxFrames = 5
  MaxRcv = 2
  MayFail = TRUE
INVARIANTS
  TotalsAreTrue
  BandwidthHeld
  EndsOnTime
