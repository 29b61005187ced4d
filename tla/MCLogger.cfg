SPECIFICATION FairSpec
CONSTANTS
  Main = Main
  Handler = Handler
  Others = {w}
  None = None
  MaxDay = 2
  MaxSize = 1
  MaxCount = 2
  LastDay = 2
  MaxMsgs = 3
  MaxLives = 2
INVARIANTS
  NothingLost
  NoGaps
PROPERTIES
  ExitEnds
\* A process ends, and one that Interrupted describes hangs.
CHECK_DEADLOCK FALSE
