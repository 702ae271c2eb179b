CONSTANTS
    Builtins <- MCBuiltins
    PrintIndex = 0
    StackSize = 20
    FramesSize = 5
    GlobalsSize = 4
    Programs <- MCStray
SPECIFICATION Spec
INVARIANT NeverStuck
CHECK_DEADLOCK FALSE
