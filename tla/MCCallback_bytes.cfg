SPECIFICATION MCSpec
CONSTANTS
    None = None
    r1 = r1
    r2 = r2
    Results = {r1, r2}
    Messages = {"utf8", "bytes"}
    MaxChunks = 2
    HalfWord = 40
    Thousand = 2
    MICROS_PER_DAY = 12
    TIME_TZ_MAX_OFFSET = 1
    MaxNesting = 2
INVARIANT
    EndedMeansComplete
