SPECIFICATION SessionSpec
CONSTANTS
    x = x
    y = y
    z = z
    Pad = Pad
    Memory <- MCMemory
    Length = 5
    BlockMod = 8
    StartTries = 3
    MaxRetries = 3
    EotTries = 3
    Asks = {"C", "NAK"}
    HostTries = 3
    Faults = {"lose", "damage", "loseAnswer", "damageAnswer", "noise"}
    MaxFaults = 2
    MaxAsked = 2
    Patient = FALSE
INVARIANTS HostHoldsMemory
PROPERTIES BothEnd
CHECK_DEADLOCK FALSE
