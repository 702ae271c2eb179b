CONSTANTS
    HeapAddr = {a1, a2, a3, a4}
    Strings = {}
    Procs = {}
    None = None
    StackSize = 3
    FramesSize = 1
    GlobalsSize = 0
    HeapCap = 4
    MaxLocals = 0
    MaxElems = 2
    TestMode = TRUE
    Features = {}
SPECIFICATION Spec
SYMMETRY Symmetry
INVARIANTS SoleOwner TeardownClean
CHECK_DEADLOCK FALSE
