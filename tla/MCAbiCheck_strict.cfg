SPECIFICATION Spec
CONSTANTS
    None = None
    Dev = Dev
    Releases <- MCReleases
    Others <- MCOthers
    Layouts <- MCLayouts
    LayoutOf <- MCLayoutOf
    Slots <- MCSlots
    RunsOn <- MCRunsOn
INVARIANT StrictVerifies
