CONSTANTS
    Base = 5
    Width <- MCWidth
    POP = 0
    RETURN_VALUE = 1
    JUMP = 2
    BreakMark = 5
    ContinueMark = 4
    InitialCap = 4
    Arguments <- MCArguments
    MaxSize = 7
SPECIFICATION Spec
INVARIANTS JumpsGoWhereMeant
CHECK_DEADLOCK FALSE
