SPECIFICATION MCSpec
CONSTANTS
    b1 = b1
    b2 = b2
    b3 = b3
    i1 = i1
    i2 = i2
    i3 = i3
    q1 = q1
    e1 = e1
    e2 = e2
    e3 = e3
    h1 = h1
    o1 = o1
    o2 = o2
    o3 = o3
    o4 = o4
    None = None
    Builders = {b1, b2, b3}
    Infos = {i1, i2, i3}
    Plans = {q1}
    Exprs = {e1, e2, e3}
    Threads = {h1}
    Boxes = {o1, o2, o3}
    RawBoxes = {o4}
INVARIANTS
    FreedRight
    NothingLost
    ReadsWhatBindStored
    BoxesOwned
SYMMETRY Symmetry
CHECK_DEADLOCK FALSE
