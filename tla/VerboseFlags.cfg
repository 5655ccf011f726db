SPECIFICATION Spec
CONSTANTS
  Readers = {r1, r2}
  Setters = {s1, s2}
  Sites = {a, b}
  Levels = {0, 1}
  Modules <- MCModules
  NoLevel = NoLevel
  Free = Free
  MaxSets = 2
  MaxCalls = 1
SYMMETRY Interchangeable
CHECK_DEADLOCK FALSE
INVARIANTS TypeOK CacheIsCurrent AnswerWasInForce
