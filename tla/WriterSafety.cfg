CONSTANTS
  Producers = {p1, p2}
  ErrorProducers = {p1}
  Flushers = {f1, f2}
  Closers = {c1, c2}
  Cap = 2
  MaxPush = 1
  MaxFlush = 1
  MaxBatch = 2
  HighWater = 2
  Loop = Loop
  Exit = Exit
SPECIFICATION Spec
SYMMETRY Interchangeable
INVARIANTS TypeOK NoLostWakeup FlushIsScheduled AckedIsCovered NoAckLeftBehind FlushCoversTaken ExitCoversFront
CHECK_DEADLOCK FALSE
