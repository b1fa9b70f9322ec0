CONSTANTS
    NumSectors = 3
    InMax = 1
    OutMax = 2
    EpMax = 1
    MaxResets = 1
    Sessions <- MCXusb
    Commands <- MCReads
SPECIFICATION UmsSpec
INVARIANTS CswHonestAlways
CHECK_DEADLOCK FALSE
