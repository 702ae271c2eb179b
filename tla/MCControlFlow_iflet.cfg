CONSTANTS
    Builtins <- MCBuiltins
    PrintIndex = 0
    StackSize = 20
    FramesSize = 5
    GlobalsSize = 4
    Programs <- MCIfLet
SPECIFICATION FairSpec
INVARIANTS PopsLastTurn
CHECK_DEADLOCK FALSE
