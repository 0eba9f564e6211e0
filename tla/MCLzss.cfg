SPECIFICATION Spec
CONSTANTS
    FlagCount = 2
    ByteValues = 4
    LengthValues = 2
    THRESHOLD = 1
    Streams <- MCStreams
CHECK_DEADLOCK FALSE
INVARIANT UnpacksWhatWasPacked
INVARIANT RingMirrors
