CONSTANTS
    HeapAddr = {a1, a2, a3}
    Strings = {}
    Procs = {f1}
    None = None
    StackSize = 3
    FramesSize = 2
    GlobalsSize = 0
    HeapCap = 2
    MaxLocals = 1
    MaxElems = 1
    TestMode = TRUE
    Features = {"late_local"}
SPECIFICATION Spec
SYMMETRY Symmetry
INVARIANTS NoDanglingRoot
CHECK_DEADLOCK FALSE
