SPECIFICATION Spec
CONSTANTS
    FlashBytes = 64
    LineBytes = 2
    PageBytes = 4
    SectorBytes = 8
    HalfBlockBytes = 16
    BlockBytes = 32
    Protected = 8
    ChunkBytes = 8
    Platforms = {"W800", "RDA5981", "OPL1000A2", "LN882H", "LN8825", "GD32VW553", "RTL8710B", "RTL8710C", "RTL8720D", "RTL8720E", "RTL8721DA", "ECR6600", "TR6260"}
    EraseRanges <- MCEraseRanges
    WriteRanges <- MCWriteRanges
    ReadRanges <- MCReadRanges
    MaxJobs = 2
    MaxFaults = 1
INVARIANTS ErasedExactly ReadsReturnChip
