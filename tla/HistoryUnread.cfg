SPECIFICATION Spec
CONSTANTS
  KeepFull = 1
  KeepCoarse = 2
  Rots = {"meta", "sched"}
  MaxRounds = 1
  MaxEvents = 4
  MaxCuts = 1
PROPERTY HistoryOnlyForgotten
