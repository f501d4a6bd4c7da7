SPECIFICATION StatsSpec
CONSTANTS
    w1 = w1
    p1 = p1
    r1 = r1
    k1 = k1
    k2 = k2
    c1 = c1
    c2 = c2
    i1 = i1
    Workers = {w1}
    Procs = {p1}
    ProcOf <- OneWorker
    Kompetitors = {k1}
    BatchIds = {1, 2}
    Codes = {c1, c2}
    Items = {}
    OtherTitle = OtherTitle
    BlankTitle = BlankTitle
    None = None
    Universal <- NoItems
    Uploads <- BlankOrOther
    UniqueKeys = TRUE
    FaultsAllowed = FALSE
    MaxRequests = 2
    MaxEdits = 0
    Days = {1, 2}
    Readers = {r1}
    OwnStore = None
    MaxAsked = 1
    Removable = {}
INVARIANTS
    AbsentNotCompared
