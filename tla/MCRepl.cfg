CONSTANTS
    Builtins <- MCBuiltins
    PrintIndex = 0
    StackSize = 8
    FramesSize = 4
    GlobalsSize = 2
    ConstantsSize = 64
    Unparsable <- MCUnparsable
    Sessions <- MCSessions
SPECIFICATION Spec
INVARIANTS AgreesWithSource StrayOnlyUndeclared NeverStuck
CHECK_DEADLOCK FALSE
