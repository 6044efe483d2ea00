\* Any command, one fault of the line, one payload byte left behind.
CONSTANTS
    ByteMod = 32
    WordBytes = 1
    Magic = 5
    Code <- MCCode
    Absent = {"NEWER"}
    BufSize = 3
    Density = 19
    SmallestChip = 2
    Protected = 1
    ChunkLen = 1
    Requests <- MCRequests
    Noise = {5, 2}
    FirstRate = 1
    MaxFaults = 1
SPECIFICATION Spec
INVARIANTS TypeOK OnlySentFramesRun RangesInChip WritesInChip RatesAgree
PROPERTY HostAnswered
CHECK_DEADLOCK FALSE
