CONSTANTS
    HeapAddr = {a1, a2, a3, a4}
    Strings = {}
    Procs = {}
    None = None
    StackSize = 3
    FramesSize = 1
    GlobalsSize = 0
    HeapCap = 2
    MaxLocals = 1
    MaxElems = 1
    TestMode = TRUE
    Features = {}
SPECIFICATION Spec
SYMMETRY Symmetry
PROPERTIES ElementsOutliveArray
CHECK_DEADLOCK FALSE
