CONSTANTS
    HeapAddr = {a1, a2, a3}
    Strings = {}
    Procs = {f1}
    None = None
    StackSize = 3
    FramesSize = 2
    GlobalsSize = 2
    HeapCap = 2
    MaxLocals = 1
    MaxElems = 1
    TestMode = TRUE
    Features = {"null_global"}
SPECIFICATION Spec
SYMMETRY Symmetry
PROPERTIES CollectsOnlyUnreachable
CHECK_DEADLOCK FALSE
