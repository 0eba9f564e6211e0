SPECIFICATION Spec
CONSTANTS
    Files <- AllFiles
    LoadAddr = 14
    MemEnd = 84
    Garbage = {0, 7}
CHECK_DEADLOCK FALSE
INVARIANT ResultAsSpecified
INVARIANT MapExact
INVARIANT VmsizeExact
PROPERTY LoadEnds
