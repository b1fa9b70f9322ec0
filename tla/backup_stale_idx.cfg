SPECIFICATION BackupSpec
CONSTANTS
  Menus = {{"SYSTEM", "USER"}}
  Size <- MCSize
  First <- MCFirst
  DeviceSize = 8
  Split = 2
  FileLimit = 3
  SparseStep = 2
  U32 = 100
  FreeSpaces = {1, 2, 4, 9}
  Obedient = TRUE
  MaxSessions = 3
  MaxFaults = 0
INVARIANT ResumesOwn
CHECK_DEADLOCK FALSE
