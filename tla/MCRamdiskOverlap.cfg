SPECIFICATION Spec
CONSTANTS
    DramStart = 8
    MemEnd = 22
    PageSize = 2
    SectionSize = 8
    DriverPad = 1
    SigOffset = 1
    MinRamdisk = 2
    StagingAddr = 99
    Commands <- AllCommands
    Images <- FailingImages
    FileSizes = {2}
    Signatures = {"H+"}
    LoadAddrs = {10}
    BootArgsSize = 1
    MagicSize = 1
    FlatSizes = {1, 2}
    MaxTurns = 6
CHECK_DEADLOCK FALSE
INVARIANT RamdiskOutsideKernel
