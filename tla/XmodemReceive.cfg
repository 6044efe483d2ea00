SPECIFICATION FairSpec
CONSTANTS
    FlashUnits = 128
    Data <- MCData
    Blank = Blank
    Garbled = Garbled
    x = x
    y = y
    old = old
    Off = 64
    Length = 19
    FlashBefore <- MCFlashBefore
    BlockMod = 4
    StartTries = 3
    SmallPayloads <- MCSmallPayloads
    LargePayloads <- MCLargePayloads
INVARIANTS TypeOK ImageIntact TailBlank
PROPERTIES OthersKept AckIsDurable ImplementsWrite HostGoneReturns
CHECK_DEADLOCK FALSE
