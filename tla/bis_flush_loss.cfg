SPECIFICATION Spec
CONSTANTS
    Parts <- MCParts
    OtherPart = "other"
    NumClusters = 3
    Sectors = 1
    MaxEntries = 3
    U32Max = 2147483647
    Values <- MCValues
    Blank = "blank"
    Garbage = "garbage"
    Media <- MCEmmc
    CacheModes <- MCCached
    ReadFaults = {}
    WriteFaults = FALSE
    CryptFaults = FALSE
    MaxCount = 2
INVARIANT WritesReachMedium
