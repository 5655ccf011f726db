CONSTANTS
  Callers = {c1}
  Rate = 2
  Burst = 2
  Second = 2
  Word = 16
  MaxTime = 5
  MaxCalls = 3
SPECIFICATION Spec
PROPERTY RecoversFromIdle
CHECK_DEADLOCK FALSE
