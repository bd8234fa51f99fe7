SPECIFICATION FairQueueSpec
CONSTANTS
  c1 = c1
  c2 = c2
  c3 = c3
  Callers = {c1, c2, c3}
  Uses <- SomeUses
  None = None
  L0Trigger = 1
  L0Slow = 1
  L0Stop = 2
  MaxPieces = 1
INVARIANTS
  AnswersAreTrue
  OneLeader
  OnlyErrorsCancel
PROPERTIES
  EveryWaitEnds
CHECK_DEADLOCK FALSE
