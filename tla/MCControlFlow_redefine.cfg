CONSTANTS
    Builtins <- MCBuiltins
    PrintIndex = 0
    StackSize = 20
    FramesSize = 5
    GlobalsSize = 4
    Programs <- MCRedefine
SPECIFICATION Spec
INVARIANT AgreesWithSource
CHECK_DEADLOCK FALSE
