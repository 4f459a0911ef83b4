SPECIFICATION Spec
CONSTANTS
  Disk = {d1}
  Ptr = {p1, p2}
  NoPtr = NoPtr
  Ops = {"scan", "forget"}
  Disturbances = {"forget_mid_tick"}
  AdoptAfter = 1
  Cooldown <- MCCooldown
  Delay <- MCDelay
  MaxToggles = 0
VIEW MCView
SYMMETRY MCSymmetry
INVARIANT OneReader
