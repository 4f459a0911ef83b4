SPECIFICATION FairSpec
CONSTANTS
  Disk = {d1}
  Ptr = {p1}
  NoPtr = NoPtr
  Ops = {"scan", "stop", "toggle"}
  Disturbances = {"toggle_mid_save"}
  AdoptAfter = 1
  Cooldown <- MCCooldown
  Delay <- MCDelay
  MaxToggles = 1
PROPERTIES RequestServed StopEnds KeepsScanning
