CONSTANTS
    None = None
    v1 = v1
    v2 = v2
    Versions = {v1, v2}
    Size <- MCSize
    RetryAfters = {0, 3600}
SPECIFICATION FairSpec
INVARIANTS
    FetchInv
    PinnedExact
    ResumeExact
    SteadyWhole
    Patience
PROPERTIES
    CacheKept
    Ends
