SPECIFICATION Spec
CONSTANTS
    Docs <- AllDocs
    FirstTokens = 3
    MoreTokens = 4
CHECK_DEADLOCK FALSE
INVARIANT SizesCount
INVARIANT LoadsTheDocument
INVARIANT RefusesOnlyMalformed
INVARIANT OverrunNeedsOddObject
PROPERTY ParseEnds
