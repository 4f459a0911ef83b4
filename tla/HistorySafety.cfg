SPECIFICATION Spec
CONSTANTS
  KeepFull = 1
  KeepCoarse = 2
  Rots = {}
  MaxRounds = 3
  MaxEvents = 4
  MaxCuts = 1
INVARIANTS RowHasProfile RefsHold  TornCostsOne
PROPERTY HistoryOnlyForgotten
