SPECIFICATION MCSpec
CONSTANTS
    cloned = cloned
    made = made
    x1 = x1
    x2 = x2
    w1 = w1
    w2 = w2
    None = None
    Plans = {cloned, made}
    Execs = {x1, x2}
    Workers = {w1, w2}
    ClonePlans = {cloned}
    Rows = 3
    ChunkRows = 2
    ReportingPlans = {cloned}
    Sizes = {0, 1, 2}
    Values = {"INTEGER", "BIGINT"}
INVARIANTS
    FreshRows
    EndedHasEveryRow
    OwnFailuresOnly
    BoundPlans
    RowsAnswered
PROPERTY NoRowsAfterFailure
