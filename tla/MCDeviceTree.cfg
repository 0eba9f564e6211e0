SPECIFICATION Spec
CONSTANTS
    NodesPerBlock = 3
    PropertiesPerBlock = 3
    HeapBlocks = 7
    NodeSize = 8
    PropertySize = 36
    NameLength = 2
    Lengths = {0, 5}
    RangeLength = 8
    MaxNodes = 4
    MaxProperties = 6
CHECK_DEADLOCK FALSE
INVARIANT SizeExact
INVARIANT PoolExact
INVARIANT BlocksReleased
