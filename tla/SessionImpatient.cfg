SPECIFICATION SessionSpec
CONSTANTS
    FlashUnits = 128
    Data <- MCData
    Blank = Blank
    Garbled = Garbled
    x = x
    y = y
    pad = pad
    old = old
    Off = 64
    Length = 19
    FlashBefore <- MCFlashBefore
    StartTries = 2
    SmallPayloads <- MCSmallPayloads
    LargePayloads <- MCLargePayloads
    File <- MCFile
    Plans <- MCPlans
    BlockMod = 8
    HostRetries = 3
    Faults = {"lose", "damage", "cut", "noise", "loseReply"}
    MaxFaults = 2
    MaxLine = 2
    Patient = FALSE
    StubPatient = FALSE
INVARIANTS FlashHoldsFilePrefix
PROPERTIES BothEnd
CHECK_DEADLOCK FALSE
