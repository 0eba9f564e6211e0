SPECIFICATION Spec
CONSTANTS
    Docs <- MCDocs
    LaterDocs <- MCLaterDocs
    TagsPerBlock = 3
    MaxBlocks = 3
    MaxParses = 2
CHECK_DEADLOCK FALSE
INVARIANT TagsConserved
INVARIANT SymbolsCounted
INVARIANT TreeAsWritten
INVARIANT RefusesWithReason
INVARIANT LoadsOnce
PROPERTY EveryCallEnds
