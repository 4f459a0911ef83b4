SPECIFICATION LiveSpec
CONSTANTS
  Disk <- MCDisk
  Device <- MCDevice
  Serial <- MCSerial
  NoSerial = NoSerial
  Lun <- MCLun
  Size <- MCSize
  Port = {1, 2}
  Last = 2
  MaxDropouts = 1
  RaceOpen = FALSE
  NoDisk = NoDisk
INVARIANTS KeysDistinct HandleIsOurs ContentKept NoHole ComesBackUnderItsKey
PROPERTY RefreshEnds
