CONSTANTS
  bufferSize = 2
  MaxSize = 4
  Header = 1
  Faulty = TRUE
  MaxEntries = 5
  MaxFiles = 3
  MaxTime = 2
SPECIFICATION Spec
INVARIANTS WrittenInOrder NothingLost SizeIsTracked AckedIsWritten AckedIsSynced
CHECK_DEADLOCK FALSE
