CONSTANTS
  Producers = {p1, p2}
  ErrorProducers = {p1}
  Flushers = {f1}
  Closers = {c1}
  Cap = 2
  MaxPush = 1
  MaxFlush = 1
  MaxBatch = 2
  HighWater = 3
  Loop = Loop
  Exit = Exit
VIEW WithoutHistory
SPECIFICATION FairSpec
PROPERTIES EntriesAreFlushed  FlushReturnsIfOpen CloseReturns
CHECK_DEADLOCK FALSE
