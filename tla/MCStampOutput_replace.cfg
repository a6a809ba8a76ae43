CONSTANTS
    p1 = p1
    p2 = p2
    h1 = h1
    i1 = i1
    i2 = i2
    i3 = i3
    i4 = i4
    t1 = t1
    t2 = t2
    plain = plain
    exec = exec
    None = None
    Stampers = {p1, p2}
    Hosts = {h1}
    Inodes = {i1, i2, i3, i4}
    Temps = {t1, t2}
    Modes = {plain, exec}
    Umask = plain
SPECIFICATION Spec
INVARIANTS
    OutputWhole
    TempsOwned
    ModeKept
PROPERTIES
    InUseUntouched
SYMMETRY Symmetry
