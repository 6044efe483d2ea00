\* Inputs of no, one, three and five units; block numbers modulo 3.
CONSTANTS
    Lengths = {0, 1, 3, 5}
    ChunkIn = 2
    ChunkOut = 2
    Makes = {0, 1, 3, 5}
    Large = 3
    Small = 1
    BlockMod = 3
    StartTries = 3
    MaxRetries = 3
    EotTries = 3
    HostTries = 3
    MaxFaults = 2
SPECIFICATION SessionSpec
INVARIANTS HostHoldsStream
PROPERTIES ReadArrives
CHECK_DEADLOCK FALSE
