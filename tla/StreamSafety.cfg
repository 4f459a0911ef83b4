SPECIFICATION Spec
CONSTANTS
  Block = {b1}
  Cap = 1
  MaxRounds = 2
  MaxWrites = 2
  MaxFrames = 3
  MaxRefresh = 1
  MaxBreaks = 1
INVARIANTS MapWhole ShowsTheTruth QuietAfterEnd
CONSTRAINT MCBudget
CHECK_DEADLOCK FALSE
