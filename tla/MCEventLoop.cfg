\* Two callers, three tasks, a pipe of two bytes read one byte at a time.
CONSTANTS
  p1 = p1
  p2 = p2
  t1 = t1
  t2 = t2
  t3 = t3
  Producers <- MCProducers
  Loop = Loop
  Owner = Owner
  Tasks <- MCThreeTasks
  Exit = Exit
  PipeCap = 2
  ReadChunk = 1
  MaxEvents = 1
SPECIFICATION FairSpec
INVARIANTS
  TypeOK
  NoLostWakeup
  SingleRunner
PROPERTIES
  FifoExactlyOnce
  PostedTasksRun
  ShutdownCompletes
