SPECIFICATION OperatorSpec
CONSTANTS
    DramStart = 8
    MemEnd = 22
    PageSize = 2
    SectionSize = 8
    DriverPad = 1
    SigOffset = 1
    MinRamdisk = 2
    StagingAddr = 99
    Commands <- GoodCommands
    Images <- TreeImages
    FileSizes = {2}
    Signatures = {"H+"}
    LoadAddrs = {}
    BootArgsSize = 1
    MagicSize = 1
    FlatSizes = {1, 2}
    MaxTurns = 6
CHECK_DEADLOCK FALSE
INVARIANT TreeBehindFlag
