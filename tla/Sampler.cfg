CONSTANTS
  Callers = {c1, c2}
  Rate = 2
  Burst = 2
  Second = 3
  Word = 1024
  MaxTime = 5
  MaxCalls = 2
SPECIFICATION FairSpec
INVARIANTS TypeOK WithinRate
PROPERTIES DueIsClaimed AllowReturns
CHECK_DEADLOCK FALSE
