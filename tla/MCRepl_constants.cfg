CONSTANTS
    Builtins <- MCBuiltins
    PrintIndex = 0
    StackSize = 8
    FramesSize = 4
    GlobalsSize = 64
    ConstantsSize = 64
    Unparsable <- MCUnparsable
    Sessions <- MCManyLines
SPECIFICATION Spec
INVARIANT ConstantsFit
CHECK_DEADLOCK FALSE
