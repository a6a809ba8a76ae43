CONSTANTS
    s1 = s1
    s2 = s2
    s3 = s3
    v1 = v1
    v2 = v2
    inline = inline
    boxed = boxed
    Slots = {s1, s2, s3}
    Values = {v1, v2}
    Types = {inline, boxed}
    InlineTypes = {inline}
    Zero = Zero
    Junk = Junk
    Null = Null
    DestroysStaleBytes = FALSE
SPECIFICATION Spec
INVARIANTS
    NoWildDrop
    NothingForgotten
    BorrowSound
SYMMETRY SlotValueSymmetry
CHECK_DEADLOCK FALSE
