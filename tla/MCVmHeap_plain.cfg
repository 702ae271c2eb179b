CONSTANTS
    HeapAddr = {a1, a2, a3}
    Strings = {}
    Procs = {f1}
    None = None
    StackSize = 3
    FramesSize = 2
    GlobalsSize = 1
    HeapCap = 4
    MaxLocals = 1
    MaxElems = 1
    TestMode = TRUE
    Features = {}
SPECIFICATION Spec
SYMMETRY Symmetry
INVARIANTS TypeOK NoDanglingAccess NoCycles
PROPERTIES ManagedSpec
CHECK_DEADLOCK FALSE
