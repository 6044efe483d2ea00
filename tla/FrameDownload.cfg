SPECIFICATION Spec
CONSTANTS
    FlashUnits = 64
    Data <- MCData
    Blank = Blank
    Garbled = Garbled
    a = a
    b = b
    c = c
    Types = {"RAM", "FLASH"}
    Off = 16
    Length = 10
    File <- MCFile
    FrameSizes = {2, 3, 5}
    BufUnits = 4
    MaxFaults = 2
INVARIANTS TypeOK RamHoldsFile PositionsAgree
PROPERTIES RamOutsideKept DownloadEnds
CHECK_DEADLOCK FALSE
