SPECIFICATION Spec
CONSTANTS
    Files <- MCFiles
    Base = 1
    MemEnd = 7
    Word = 32
    Names = {0, 1, 3, 4}
    Hints = {0, 2, 9, 30}
    MaxCalls = 2
CHECK_DEADLOCK FALSE
INVARIANT SearchExact
INVARIANT RelocatedExactly
PROPERTY CallEnds
INVARIANT AnswerExact
