CONSTANTS
    r1 = r1
    r2 = r2
    r3 = r3
    Rows = {r1, r2, r3}
    Foreign = {}
    TableWidth = 2
    FlushThreshold = 2
    Engines = {"1.5"}
    HasClear = TRUE
    MaxDepth = 2
SPECIFICATION Spec
INVARIANTS
    LossCountCoversBuffer
SYMMETRY RowSymmetry
CHECK_DEADLOCK FALSE
