SPECIFICATION Spec
CONSTANTS
    ULONG_MAX = 31
    Texts <- MCTexts
CHECK_DEADLOCK FALSE
INVARIANT ResultExact
INVARIANT ReadsNumeral
