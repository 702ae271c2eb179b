CONSTANTS
    Builtins <- MCBuiltins
    PrintIndex = 0
    StackSize = 8
    FramesSize = 4
    GlobalsSize = 64
    ConstantsSize = 64
    Unparsable <- MCUnparsable
    Sessions <- MCSessions
SPECIFICATION Spec
INVARIANT GlobalsAreInitialised
CHECK_DEADLOCK FALSE
