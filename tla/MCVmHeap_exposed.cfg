CONSTANTS
    HeapAddr = {a1, a2, a3, a4}
    Strings = {}
    Procs = {f1}
    None = None
    StackSize = 3
    FramesSize = 2
    GlobalsSize = 0
    HeapCap = 4
    MaxLocals = 0
    MaxElems = 1
    TestMode = TRUE
    Features = {"borrow", "alias", "negate"}
SPECIFICATION Spec
SYMMETRY Symmetry
INVARIANTS HeapOwned Marks
CHECK_DEADLOCK FALSE
