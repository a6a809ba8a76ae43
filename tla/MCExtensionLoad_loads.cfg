SPECIFICATION MCSpec
CONSTANTS
    l1 = l1
    l2 = l2
    l3 = l3
    t1 = t1
    t2 = t2
    Host = Host
    None = None
    Threads = {t1, t2}
    Loads = {l1, l2, l3}
    Transactional = {l1, l2}
    Scalars = {"a", "u"}
    Tables = {"b"}
    Formats = {"f"}
    Aggregates = {"g"}
    Macros = {"m"}
    Settings = {"s"}
    Unrendered = {"u"}
    Engine = "2.0"
SYMMETRY Symmetry
INVARIANTS
    NoSelfAbort
    ScopeMatchesStack
    NoSilentClobber
    PromisesKept
PROPERTY ImplementsAtomicLoad
CHECK_DEADLOCK FALSE
