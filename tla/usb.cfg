CONSTANTS
    NumSectors = 3
    InMax = 1
    OutMax = 2
    EpMax = 2
    MaxResets = 1
    Sessions <- MCSessions
    Commands <- MCCommands
SPECIFICATION UmsFairSpec
INVARIANTS CswHonest StatusSound StaysInBounds
PROPERTIES EjectEnds CommandEnds
CHECK_DEADLOCK FALSE
