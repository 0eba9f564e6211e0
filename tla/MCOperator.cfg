SPECIFICATION OperatorSpec
CONSTANTS
    DramStart = 8
    MemEnd = 22
    PageSize = 2
    SectionSize = 8
    DriverPad = 1
    SigOffset = 1
    MinRamdisk = 2
    StagingAddr = 99
    Commands <- GoodCommands
    Images <- GoodImages
    FileSizes = {1, 2}
    Signatures = {"H+", "junk"}
    LoadAddrs = {}
    BootArgsSize = 1
    MagicSize = 1
    FlatSizes = {1, 2}
    MaxTurns = 6
CHECK_DEADLOCK FALSE
INVARIANT KernelIntact
INVARIANT DriversIntact
INVARIANT RamdiskIntact
INVARIANT RamdiskAligned
INVARIANT HandoffLayout
INVARIANT HandoffDrivers
INVARIANT EntryInKernel
PROPERTY ImplementsKernelMemory
