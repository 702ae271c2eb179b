CONSTANTS
    Builtins <- MCBuiltins
    PrintIndex = 0
    StackSize = 24
    FramesSize = 6
    GlobalsSize = 4
    Programs <- MCPrograms
SPECIFICATION FairSpec
INVARIANTS StuckOnlyAtLimits CodeVerified HeightFixed AgreesWithSource
PROPERTIES Finishes CallsApart
CHECK_DEADLOCK FALSE
