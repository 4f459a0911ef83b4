SPECIFICATION Spec
CONSTANTS
  Disk = {d1}
  Ptr = {p1, p2}
  NoPtr = NoPtr
  Ops = {"scan", "scan_force", "speed", "speed_force", "stop", "toggle", "forget"}
  Disturbances = {"crash"}
  AdoptAfter = 1
  Cooldown <- MCCooldown
  Delay <- MCDelay
  MaxToggles = 0
VIEW MCView
SYMMETRY MCSymmetry
INVARIANTS GoroutineFlags OneReader StoreAgrees KeptOnDisk
PROPERTIES WindowHonoured CooldownPromise
