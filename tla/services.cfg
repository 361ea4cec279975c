SPECIFICATION Spec
CONSTANTS
    None = None
    p1 = p1
    g1 = g1
    e1 = e1
    b1 = b1
    PickPage = {p1}
    GridPage = {g1}
    MaxStreams = 1
    PerPull = 2
    MaxChanges = 2
    MaxUpstream = 1
    SetBacks = 1
    Breaks = 1
    Event = {e1}
    RowsOf <- TwoMatchRows
    MaxVersion = 1
    Bundle = {b1}
    Carried <- MatchesAndRankings
    MaxMishaps = 1
    MaxNudges = 1
    KeepFor = 1
    KeepAtLeast = 2
    MaxStamp = 4
    MaxTaken = 4
    MaxBoots = 2
INVARIANTS
    ServicesTypesOK
    StreamsSkipNothing
    PickListsMissNothing
    SyncedMeansAll
    LastCopiesStay
PROPERTIES
    PagesCatchUp
    SyncNowBringsAll
CHECK_DEADLOCK FALSE
