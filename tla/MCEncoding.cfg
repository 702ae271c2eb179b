CONSTANTS
    Base = 5
    Width <- MCWidth
    POP = 0
    RETURN_VALUE = 1
    JUMP = 2
    BreakMark = 23
    ContinueMark = 22
    InitialCap = 4
    Arguments <- MCArguments
    MaxSize = 7
SPECIFICATION Spec
INVARIANTS TypeOK Fits Encoded LastTrue Aligned Lists
CHECK_DEADLOCK FALSE

