SPECIFICATION SessionSpec
CONSTANTS
    x = x
    y = y
    z = z
    Pad = Pad
    Memory <- MCMemory
    Length = 37
    BlockMod = 3
    StartTries = 4
    MaxRetries = 4
    EotTries = 4
    Asks = {"C", "NAK"}
    HostTries = 4
    Faults = {"lose", "damage", "loseAnswer", "damageAnswer"}
    MaxFaults = 3
    MaxAsked = 2
    Patient = TRUE
INVARIANTS SessionTypeOK HostHoldsMemory HostSuccessIsComplete NeverAhead
PROPERTIES ReadArrives
CHECK_DEADLOCK FALSE
