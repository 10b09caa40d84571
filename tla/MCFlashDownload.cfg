SPECIFICATION Spec
CONSTANTS
    Byte <- MCByte
    Erased = "ff"
    SectorSize = 2
    Addr <- MCAddr
    StartOffset = 2
    MaxSize = 4
    OldFlash <- MCOldFlash
    Chunks <- MCChunks
    MaxStream = 7
INVARIANTS NothingLost ImageIsStream RefusesOnlyTooLong
PROPERTY StaysInPartition
CHECK_DEADLOCK FALSE
