SPECIFICATION LiveSpec
CONSTANTS
  IntervalInit = 3
  IntervalMin = 2
  IntervalMax = 3
  FactorClean <- MCClean
  FactorSlow <- MCSlow
  FactorDanger <- MCDanger
  DropoutWindow = 2
  NearHangWindow = 1
  Retry = 1
  ExternalRetry = 1
  Day = 2
  JitterPart = 1
  Offsets <- MCOffsets
  Epoch <- MCEpoch
  Floor <- MCFloor
INVARIANT RepairTakesOnlyJitter
PROPERTIES WindowHeld NotBeforeItsTime KeepsComing
