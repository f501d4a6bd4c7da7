SPECIFICATION Spec
CONSTANTS
    w1 = w1
    w2 = w2
    p1 = p1
    p2 = p2
    k1 = k1
    k2 = k2
    i1 = i1
    c1 = c1
    Workers = {w1, w2}
    Procs = {p1}
    ProcOf <- OneProcess
    Kompetitors = {k1, k2}
    BatchIds = {1}
    Codes = {c1}
    Items = {i1}
    OtherTitle = OtherTitle
    BlankTitle = BlankTitle
    None = None
    Universal <- NoUniversal
    Uploads <- Files
    UniqueKeys = TRUE
    FaultsAllowed = TRUE
    MaxRequests = 3
    MaxEdits = 0
SYMMETRY Symmetry
INVARIANTS
    TypeOK
    SummaryFromStored
    AckedDurable
    SettledSummaries
    SettledMatches
PROPERTIES
    ImplementsScraping
