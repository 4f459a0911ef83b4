SPECIFICATION FairSpec
CONSTANTS
  Blocks = 5
  PerSeg = 2
  SlowSkip = 1
  DangerSkip = 2
  MaxDanger = 2
  BreakerMin = 2
  BreakerShare = 3
  Troubles = {"slow", "danger", "media", "gone", "fail", "stop", "busy", "rewrite_gone", "align", "die"}
PROPERTIES DebtHonoured SweptOrOwed ResumesWhereStopped Recovers
