\* Two faults; block numbers modulo 3, so that they wrap.
CONSTANTS
    FlashUnits = 192
    Data <- MCData
    Blank = Blank
    Garbled = Garbled
    x = x
    y = y
    old = old
    wrong = wrong
    Starts <- MCStarts
    Length = 10
    File <- MCFile
    Wrong = wrong
    Streams <- MCStreams
    DictUnits = 6
    BlockMod = 3
    StartTries = 3
    HostRetries = 3
    MaxFaults = 2
    MaxLine = 2
SPECIFICATION SessionSpec
INVARIANTS TypeOK ImageIntact OnlyImageChanges
PROPERTIES ImplementsWrite FileInFlash
CHECK_DEADLOCK FALSE
