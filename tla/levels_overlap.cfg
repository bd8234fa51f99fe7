SPECIFICATION Spec
CONSTANTS
  Keys = {1, 2, 3}
  NumLevels = 4
  MaxMemCompactLevel = 2
  L0Trigger = 3
  MaxSeq = 4
  L0Stop = 3
  MaxSnaps = 0
  MaxOutputs = 1
  CutInsideKey = FALSE
  ManualRanges <- AllKeys
  Reopens = TRUE
INVARIANT LevelsDisjoint
CONSTRAINT NoDeletions
CHECK_DEADLOCK FALSE
