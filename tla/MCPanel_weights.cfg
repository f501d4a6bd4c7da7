SPECIFICATION PanelSpec
CONSTANTS
    w1 = w1
    p1 = p1
    p2 = p2
    r1 = r1
    k1 = k1
    k2 = k2
    i1 = i1
    c1 = c1
    c2 = c2
    Workers = {w1}
    Procs = {p1}
    ProcOf <- OneWorker
    Kompetitors = {k1}
    BatchIds = {1}
    Codes = {c1}
    Items = {i1}
    OtherTitle = OtherTitle
    BlankTitle = BlankTitle
    None = None
    Universal <- UniversalK1
    Uploads <- OneItem
    UniqueKeys = TRUE
    FaultsAllowed = FALSE
    MaxRequests = 2
    MaxEdits = 0
    Readers = {r1}
    ReaderProc <- SameProcess
    Days = {1}
    OwnStore = None
    MaxPages = 1
INVARIANTS
    CachedCorpusFull
