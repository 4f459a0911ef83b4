SPECIFICATION FairSpec
CONSTANTS
  d1 = d1
  m1 = m1
  m2 = m2
  Disk = {d1}
  Mount = {m1, m2}
  DiskOf <- MCOneDisk
  F2fs = {m1, m2}
  Home = {m1}
  Slow = 3
  Faults = {"crash", "power"}
  MaxCrashes = 1
INVARIANTS NothingLost FrozenIsMarked ThawnOnce
PROPERTY FreezeEnds
