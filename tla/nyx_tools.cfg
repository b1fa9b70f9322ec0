SPECIFICATION MCSpec
CONSTANTS
  Menus = {{"SYSTEM", "RAW"}, {"BOOT", "EMURAW"}}
  Size <- MCSize
  First <- MCFirst
  DeviceSize = 8
  Split = 2
  FileLimit = 3
  SparseStep = 2
  U32 = 100
  FreeSpaces = {1, 2, 9}
  Obedient = FALSE
  MaxSessions = 2
  MaxFaults = 1
  SdCards <- MCSdCards
  Verifications = {0, 2}
  Room <- MCRoom
  Lba <- MCLba
  MaxPresses = 2
  MaxMishaps = 1
  Slots = 2
  Tables <- MCTables
  Folders0 <- MCFolders0
  SavedFiles <- MCSaved
  EmmcSize = 12
  Protect = 1
  MinPart = 5
  MaxResized = 10
  MaxTasks = 3
  Devices <- MCDevices
  EmmcSizes = {0, 29820, 59640}
  EmuMoves = {0, 1, 21, 22, 23, 43, 44}
  L4tMoves = {0, 5, 9, 12, 24, 53, 117}
  AndMoves = {0, 3, 6, 11, 18, 47, 111}
  MaxMoves = 4
  L4tImages <- MCL4tImages
  FlashTargets <- MCTargets
  AndroidImages <- MCAndroidImages
  FlashDevice = 12
  MinL4t = 4
  FlashWrap = 4
  Contents <- MCContents
  RamClusters = 6
  RamLimit = 11
INVARIANTS RestoreSound EmuIsWhole
INVARIANTS  TablesSound
INVARIANTS  FilesSomewhere FlashSound
PROPERTIES SessionsEnd RestoreEnds OthersKept
CHECK_DEADLOCK FALSE
