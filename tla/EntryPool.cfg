SPECIFICATION Spec
CONSTANTS
  Callers = {t1, s1}
  Structured = {s1}
  RingSize = 1
  Nil = Nil
  MaxCalls = 2
CHECK_DEADLOCK FALSE
INVARIANTS TypeOK EntryHasOneOwner NoDoubleClose AckMeansFlushed
