SPECIFICATION EmmcSpec
CONSTANTS
    Parts <- MCParts
    OtherPart = "other"
    NumClusters = 2
    Sectors = 2
    MaxEntries = 1
    U32Max = 2147483647
    Values <- MCValues
    Blank = "blank"
    Garbage = "garbage"
    Media <- MCEmmc
    CacheModes = {TRUE, FALSE}
    ReadFaults <- MCDirect
    WriteFaults = TRUE
    CryptFaults = FALSE
    MaxCount = 2
    Menus = {{"SYSTEM", "RAW"}, {"BOOT", "EMURAW"}}
    Size <- MCSize
    First <- MCFirst
    DeviceSize = 8
    Split = 2
    FileLimit = 3
    SparseStep = 2
    U32 = 100
    FreeSpaces = {1, 2, 9}
    Obedient = FALSE
    MaxSessions = 3
    MaxFaults = 1
INVARIANT CacheSound
INVARIANT ReadsAreCurrent
INVARIANT DirectWritesReachMedium
INVARIANT FlushHasPart
INVARIANT ProgressSound
INVARIANT DoneIsWhole
INVARIANT VerifiedIsIntact
CHECK_DEADLOCK FALSE
