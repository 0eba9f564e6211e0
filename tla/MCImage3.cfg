SPECIFICATION Spec
CONSTANTS
    Types = {"a", "b", "c"}
    HeaderSize = 3
    TagSize = 2
    Lengths = {0, 1, 3}
    MaxSize = 15
    MaxCalls = 6
    Buffers <- MCBuffers
CHECK_DEADLOCK FALSE
INVARIANT TagsChained
INVARIANT FindExact
