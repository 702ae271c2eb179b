CONSTANTS
    Builtins <- MCBuiltins
    PrintIndex = 0
    StackSize = 20
    FramesSize = 5
    GlobalsSize = 4
    Programs <- MCBareReturn
SPECIFICATION FairSpec
INVARIANTS AgreesWithSource
CHECK_DEADLOCK FALSE
