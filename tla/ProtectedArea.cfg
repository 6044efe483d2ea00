\* Any command on a line without faults.
CONSTANTS
    ByteMod = 32
    WordBytes = 1
    Magic = 5
    Code <- MCCode
    Absent = {"NEWER"}
    BufSize = 3
    Density = 19
    SmallestChip = 2
    Protected = 1
    ChunkLen = 1
    Requests <- MCRequests
    Noise = {5, 2}
    FirstRate = 1
    MaxFaults = 0
SPECIFICATION Spec
INVARIANT LowSectorsKept
CHECK_DEADLOCK FALSE
