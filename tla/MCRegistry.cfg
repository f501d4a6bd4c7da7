SPECIFICATION Spec
CONSTANTS
    w1 = w1
    w2 = w2
    a = a
    b = b
    None = None
    Workers = {w1, w2}
    Ids = {1, 2, 3}
    Codes = {a, b}
    Cells = {"specific", "universal"}
    UniversalCells = {"universal"}
    Initial <- ThirdStore
    Forms <- ThreeForms
    UniqueCells = TRUE
    MaxRequests = 4
SYMMETRY Symmetry
INVARIANTS
    TypeOK
    SoloSavesUnique
    SettledCells
    SettledCellsNameStores
PROPERTIES
    DataProtectsStore
    OnlyOverlapsDouble
