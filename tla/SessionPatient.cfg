SPECIFICATION SessionSpec
CONSTANTS
    FlashUnits = 128
    Data <- MCData
    Blank = Blank
    Garbled = Garbled
    x = x
    y = y
    pad = pad
    old = old
    Off = 64
    Length = 19
    FlashBefore <- MCFlashBefore
    StartTries = 4
    SmallPayloads <- MCSmallPayloads
    LargePayloads <- MCLargePayloads
    File <- MCFile
    Plans <- MCPlans
    BlockMod = 3
    HostRetries = 4
    Faults = {"lose", "damage", "loseReply"}
    MaxFaults = 3
    MaxLine = 3
    Patient = TRUE
    StubPatient = TRUE
INVARIANTS SessionTypeOK FlashHoldsFilePrefix HostSuccessIsReal
PROPERTIES FileArrives
CHECK_DEADLOCK FALSE
