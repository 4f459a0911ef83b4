SPECIFICATION LiveSpec
CONSTANTS
  ReadRate = 1
  WriteRate = 1
  YieldMax = 2
  YieldGiveUp = 3
  ContentionSettle = 1
  ContentionRetries = 2
  WindowReuse = 1
  MaxCount = 3
INVARIANTS SlowAloneStands SlowHasEvidence
PROPERTIES NeverYieldsToItself GivesUpOnlyOnSustainedUse WaitEnds
