SPECIFICATION MarginsSpec
CONSTANTS
    g1 = g1
    b1 = b1
    b2 = b2
    k1 = k1
    k2 = k2
    i1 = i1
    i2 = i2
    i3 = i3
    f1 = f1
    Kategoris = {g1}
    Brands = {b1, b2}
    Kompetitors = {k1, k2}
    Items = {i1, i2, i3}
    KategoriOf <- ItemKategori
    BrandOf <- ItemBrand
    StoreOf <- ThreeRows
    OwnStore = k2
    Threshold = 1
    One = 3
    ScoreTables <- SameScores
    Suspended = {b2}
    HargaId <- RowOrder
    Shopee <- ShopeePrice
    HppRows <- HppOfRows
    FeeOf <- FeeCategory
    OngkirOf <- FreeShipping
    Rates = {40, 900}
    FirstRates <- RatesAtFirst
    None = None
    MaxRequests = 1
    MaxEdits = 1
INVARIANTS
    PagesTypeOK
    OneCellWins
    MatchesHaveColumns
    BestIsKept
    RawCellShown
    CountsOfShownCells
    MappedCellsAreShown
    MarginsOfHeldRates
    DearerRowEarnsMore
