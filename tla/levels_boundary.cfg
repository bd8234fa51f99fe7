SPECIFICATION Spec
CONSTANTS
  Keys = {1, 2}
  NumLevels = 4
  MaxMemCompactLevel = 2
  L0Trigger = 2
  MaxSeq = 3
  L0Stop = 2
  MaxSnaps = 1
  MaxOutputs = 2
  CutInsideKey = TRUE
  ManualRanges <- NoRanges
  Reopens = TRUE
INVARIANT EntriesNeverHop
CHECK_DEADLOCK FALSE
