SPECIFICATION Spec
CONSTANTS
    FlashUnits = 64
    Data <- MCData
    Blank = Blank
    Garbled = Garbled
    a = a
    b = b
    c = c
    Types = {"FLASH"}
    Off = 16
    Length = 10
    File <- MCFile
    FrameSizes = {4, 2}
    BufUnits = 4
    MaxFaults = 0
INVARIANTS FlashHoldsFile
CHECK_DEADLOCK FALSE
