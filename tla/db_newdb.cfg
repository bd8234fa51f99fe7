SPECIFICATION FilesSpec
CONSTANTS
  MaxSeq = 1
  MaxStops = 1
  MaxReaders = 0
  MaxFile = 5
  MaxErrors = 0
  StopWhileCreating = TRUE
INVARIANT OpenSucceeds
CHECK_DEADLOCK FALSE
