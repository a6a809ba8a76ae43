SPECIFICATION MCSpec
CONSTANTS
    None = None
    Dev = Dev
    Releases <- MCReleases
    Others <- MCOthers
    Layouts <- MCLayouts
    LayoutOf <- MCLayoutOf
    Slots <- MCSlots
    RunsOn <- MCRunsOn
    Types <- MCTypes
    Lower <- MCLower
    Ids <- MCIds
    Logicals <- MCLogicals
    Returnables <- MCReturnables
    VarargsTypes <- MCVarargsTypes
    PartCalls <- MCPartCalls
    MaxParams = 2
    MaxOverloads = 2
    MaxTypeNesting = 1
INVARIANTS
    HandedAsSaid
    StrictDispatchesRight
    OwnEngineLoads
