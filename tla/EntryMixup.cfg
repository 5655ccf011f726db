SPECIFICATION Spec
CONSTANTS
  Callers = {t1, t2}
  Structured = {}
  RingSize = 2
  Nil = Nil
  MaxCalls = 2
CHECK_DEADLOCK FALSE
INVARIANT WritesWhatWasLogged
