SPECIFICATION DelayFairSpec
CONSTANTS
  a = a
  b = b
  Timers <- MCTimers
  Delays <- MCDelays
  MaxTime = 5
INVARIANTS
  TimersKept
PROPERTIES
  EveryTaskRuns
