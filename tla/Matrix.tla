------------------------------- MODULE Matrix -------------------------------
(***************************************************************************)
(* The mapping panel beside the pages of Matching: MappingMatrix reads the *)
(* axes in use, the rows of the axes and the counts of the cells in six    *)
(* statements, while administrators edit the cells they count.             *)
(*                                                                         *)
(* To every repository call of the matrix an empty list of ids means "no   *)
(* filter"; the service guards two of the four against it.                 *)
(***************************************************************************)
EXTENDS Matching, FiniteSets

CONSTANTS
    Suspended   \* the brands whose status the Laravel application suspended

ASSUME MatrixAssumption == Suspended \subseteq Brands /\ IsFiniteSet(Kompetitors)

VARIABLES
    turn,       \* of the matrix request: its next statement
    matrix      \* its locals

matrixVars == <<turn, matrix>>

Turns == {"idle", "usedBrands", "usedKategoris", "brands", "kategoris",
          "counts", "universalCounts", "shown"}

\* The ids asked for, the axes as they are narrowed down, and the counts.
Matrices == [askedBrands : SUBSET Brands, askedKategoris : SUBSET Kategoris,
             brands      : SUBSET Brands, kategoris      : SUBSET Kategoris,
             counts      : [Specific -> Nat],
             universal   : [Brands -> Nat]]

NoMatrix == [askedBrands |-> {}, askedKategoris |-> {},
             brands |-> {}, kategoris |-> {},
             counts |-> [c \in Specific |-> 0],
             universal |-> [b \in Brands |-> 0]]

Turned(from, to, m) ==
    /\ turn = from /\ turn' = to /\ matrix' = m
    /\ UNCHANGED vars

Filter(ids, rows) == IF ids = {} THEN rows ELSE ids \cap rows
Filled == {c \in Cells : cells[c] # {}}

\* The ids of the request's query; one that does not parse is dropped.
AskMatrix ==
    \E brands \in SUBSET Brands, kategoris \in SUBSET Kategoris :
        /\ turn = "idle" /\ At("idle") /\ requests < MaxRequests
        /\ turn' = "usedBrands"
        /\ matrix' = [NoMatrix EXCEPT !.askedBrands = brands,
                                      !.askedKategoris = kategoris]
        /\ requests' = requests + 1
        /\ held' = [c \in Cells |-> {cells[c]}]
        /\ UNCHANGED <<cells, request, edits>>

\* MUTANT: only brands with a specific cell are in use.
UsedBrandsSpecific ==
    Turned("usedBrands", "usedKategoris",
           [matrix EXCEPT !.brands = {c[2] : c \in Filled \cap Specific}])

\* UsedAxes, the brands: of specific and of universal cells.
UsedBrands ==
    Turned("usedBrands", "usedKategoris",
           [matrix EXCEPT !.brands = {c[2] : c \in Filled}])

\* UsedAxes, the kategoris; then what was asked for replaces what is in use.
\* An axis nothing is left of is not looked up.
UsedKategoris ==
    LET used == {c[1] : c \in Filled \cap Specific}
        m == [matrix EXCEPT
                !.brands = IF matrix.askedBrands = {} THEN @ ELSE matrix.askedBrands,
                !.kategoris = IF matrix.askedKategoris = {} THEN used
                                                  ELSE matrix.askedKategoris] IN
    Turned("usedKategoris", IF m.brands # {} THEN "brands"
                            ELSE IF m.kategoris # {} THEN "kategoris"
                            ELSE "counts", m)

\* ListActive.
ListBrands ==
    Turned("brands", IF matrix.kategoris # {} THEN "kategoris" ELSE "counts",
           [matrix EXCEPT !.brands = Filter(@, Brands \ Suspended)])

\* KategoriRepository.List.
ListKategoris ==
    Turned("kategoris", "counts",
           [matrix EXCEPT !.kategoris = Filter(@, Kategoris)])

\* MUTANT: the counts of what was asked for, not of what is shown.
CountCellsAsked ==
    LET brands    == Filter(matrix.askedBrands, Brands)
        kategoris == Filter(matrix.askedKategoris, Kategoris) IN
    Turned("counts", "universalCounts",
           [matrix EXCEPT !.counts = [c \in Specific |->
               IF c[1] \in kategoris /\ c[2] \in brands THEN Cardinality(cells[c])
                                                        ELSE 0]])

\* MatrixCounts of the axes that are shown.
CountCells ==
    LET brands    == Filter(matrix.brands, Brands)
        kategoris == Filter(matrix.kategoris, Kategoris) IN
    Turned("counts", "universalCounts",
           [matrix EXCEPT !.counts = [c \in Specific |->
               IF c[1] \in kategoris /\ c[2] \in brands THEN Cardinality(cells[c])
                                                        ELSE 0]])

\* UniversalCounts of the brands that are shown.
CountUniversal ==
    LET brands == Filter(matrix.brands, Brands) IN
    Turned("universalCounts", "shown",
           [matrix EXCEPT !.universal = [b \in Brands |->
               IF b \in brands THEN Cardinality(cells[<<None, b>>]) ELSE 0]])

\* The answer, or a statement that fails.
ShowMatrix  == Turned("shown", "idle", NoMatrix)
MatrixFails == turn \notin {"idle", "shown"} /\ Turned(turn, "idle", NoMatrix)

-----------------------------------------------------------------------------
MatrixInit == Init /\ turn = "idle" /\ matrix = NoMatrix

MatrixStep ==
    \/ AskMatrix \/ UsedBrands \/ UsedKategoris \/ ListBrands \/ ListKategoris
    \/ CountCells \/ CountUniversal \/ ShowMatrix \/ MatrixFails

MatrixNext ==
    \/ MatrixStep
    \/ /\ Next /\ UNCHANGED matrixVars
       /\ turn = "idle" \/ UNCHANGED step

MatrixSpec == MatrixInit /\ [][MatrixNext]_<<vars, matrixVars>>

-----------------------------------------------------------------------------
(* Properties.                                                             *)

MatrixTypeOK == turn \in Turns /\ matrix \in Matrices

\* Every number in the matrix is the size a cell had at a moment of the request,
\* and stands at a cell that is drawn: unless an axis came out empty, a count is
\* of a shown kategori and a shown brand, so a suspended brand shows nowhere.
CountsOfShownCells ==
    turn = "shown" =>
        /\ \A c \in Specific : matrix.counts[c] # 0 =>
             /\ \E list \in held[c] : matrix.counts[c] = Cardinality(list)
             /\ matrix.kategoris # {} => c[1] \in matrix.kategoris
             /\ matrix.brands # {} => c[2] \in matrix.brands
        /\ \A b \in Brands : matrix.universal[b] # 0 =>
             /\ \E list \in held[<<None, b>>] :
                    matrix.universal[b] = Cardinality(list)
             /\ matrix.brands # {} => b \in matrix.brands
        /\ matrix.brands \cap Suspended = {}

\* "Without a filter only axes that already have mappings are shown", and all of
\* them: a cell of an active brand that had stores throughout the six statements
\* is on both axes with its count, whatever happened to the others.
MappedCellsAreShown ==
    turn = "shown" /\ matrix.askedBrands = {} /\ matrix.askedKategoris = {} =>
        \A c \in Cells : {} \notin held[c] /\ c[2] \notin Suspended =>
            /\ c[2] \in matrix.brands
            /\ IF c \in Specific
               THEN c[1] \in matrix.kategoris /\ matrix.counts[c] # 0
               ELSE matrix.universal[c[2]] # 0
=============================================================================
