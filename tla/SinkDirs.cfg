CONSTANTS
  bufferSize = 2
  MaxSize = 4
  Header = 1
  Faulty = FALSE
  MaxEntries = 5
  MaxFiles = 3
  MaxTime = 2
SPECIFICATION Spec
PROPERTY DirsAreReevaluated
CHECK_DEADLOCK FALSE
