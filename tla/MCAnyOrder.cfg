SPECIFICATION Spec
CONSTANTS
    DramStart = 8
    MemEnd = 20
    PageSize = 2
    SectionSize = 8
    DriverPad = 1
    SigOffset = 1
    MinRamdisk = 2
    StagingAddr = 99
    Commands <- AllCommands
    Images <- AllImages
    FileSizes = {0, 2}
    Signatures = {"H+", "junk"}
    LoadAddrs = {10}
    BootArgsSize = 1
    MagicSize = 1
    FlatSizes = {1, 2}
    MaxTurns = 5
CHECK_DEADLOCK FALSE
INVARIANT TypeOK
INVARIANT EnvCurrent
INVARIANT BootHasKernel
INVARIANT NoPartialTree
