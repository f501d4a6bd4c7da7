------------------------------ MODULE Matching ------------------------------
(***************************************************************************)
(* The domain services a page of Our Product, a mapping pass and a read of *)
(* one mapping cell are made of: the MappingResolver, which reads the      *)
(* cells of a request in two statements while administrators edit them,    *)
(* and the TextMatcher, which walks the products in their order and keeps  *)
(* one per item and store.                                                 *)
(*                                                                         *)
(* A cell is a pair of a kategori and a brand; the universal cell of a     *)
(* brand has no kategori.  Cosine scores are numbers from 0: One is the    *)
(* score 1, and the numbers above it are 1 and a rounding error.           *)
(***************************************************************************)
EXTENDS Naturals, Sequences

CONSTANTS
    Kategoris, Brands, Kompetitors,
    Items,          \* our items
    KategoriOf,     \* the kategori of an item, or None
    BrandOf,        \* the brand of an item, or None
    StoreOf,        \* the products of a request, in the order of their rows:
                    \* the store of each
    OwnStore,       \* DBKLIK_KOMPETITOR_ID, or None
    Threshold, One, \* KOMPETITOR_MATCH_THRESHOLD, and the score 1
    ScoreTables,    \* bound: the scores of every item with every product
    None,           \* NULL
    MaxRequests,    \* bound: requests answered
    MaxEdits        \* bound: cells edited

Specific  == Kategoris \X Brands
Universal == {None} \X Brands
Cells     == Specific \cup Universal
Products  == DOMAIN StoreOf

ASSUME MatchingAssumption ==
    /\ None \notin Kategoris \cup Brands \cup Kompetitors
    /\ KategoriOf \in [Items -> Kategoris \cup {None}]
    /\ BrandOf \in [Items -> Brands \cup {None}]
    /\ StoreOf \in Seq(Kompetitors)
    /\ OwnStore \in Kompetitors \cup {None}
    /\ Threshold \in Nat /\ One \in Nat /\ Threshold < One
    /\ ScoreTables \subseteq [Items -> [Products -> Nat]]
    /\ MaxRequests \in Nat /\ MaxEdits \in Nat

VARIABLES
    cells,          \* kompetitor_mappings: the stores of a cell
    step,           \* of the request: its next statement or loop
    asked,          \* its items, or the one cell that is read
    cache,          \* pairCache and universalCache: the cells read so far
    allowed,        \* allowedByItem
    scores, next,   \* the similarities, and the next product of the loop
    best,           \* the best match so far of an item and a store
    columns,        \* the stores an answered page has columns for
    answer,         \* the list an answered cell read returns
    requests, edits,    \* bounded counters
    held            \* history: what each cell has held during the request

request == <<step, asked, cache, allowed, scores, next, best, columns, answer>>
vars    == <<cells, request, requests, edits, held>>

Unread == {None}        \* no entry: a cell the resolver has not read

Steps == {"idle", "universal", "pairs", "allow", "match", "columns",
          "rawUniversal", "rawPair", "answered"}
NoMatch == [product |-> 0, score |-> 0]
Nothing == [items |-> {}, cell |-> None]

NoCache   == [c \in Cells |-> Unread]
NoAllowed == [i \in Items |-> {}]
NoBest    == [i \in Items |-> [k \in Kompetitors |-> NoMatch]]

Least(a, b) == IF a <= b THEN a ELSE b
At(s)       == step = s

-----------------------------------------------------------------------------
(* MappingResolver.                                                        *)

\* Cells that are read by one statement; those already read are left alone.
Read(wanted) ==
    cache' = [c \in Cells |-> IF c \in wanted /\ cache[c] = Unread
                              THEN cells[c] ELSE cache[c]]

\* MUTANT: the universal cell only of items without kategori.
BrandsOfUniversal(items) ==
    {BrandOf[i] : i \in {j \in items : KategoriOf[j] = None}} \ {None}

\* PreloadPairs, of the items that have a brand.
BrandsOf(items) == {BrandOf[i] : i \in items} \ {None}
PairsOf(items)  == {<<KategoriOf[i], BrandOf[i]>> : i \in items} \cap Specific

\* MUTANT: the universal cell is added to the specific one.
ForPairUnion(i) ==
    IF BrandOf[i] = None THEN {}
    ELSE IF KategoriOf[i] = None THEN cache[<<None, BrandOf[i]>>]
    ELSE cache[<<KategoriOf[i], BrandOf[i]>>] \cup cache[<<None, BrandOf[i]>>]

\* ForPair, when the cells it asks for have been read.
ForPair(i) ==
    IF BrandOf[i] = None THEN {}
    ELSE IF KategoriOf[i] = None THEN cache[<<None, BrandOf[i]>>]
    ELSE IF cache[<<KategoriOf[i], BrandOf[i]>>] # {}
         THEN cache[<<KategoriOf[i], BrandOf[i]>>]
    ELSE cache[<<None, BrandOf[i]>>]

-----------------------------------------------------------------------------
(* A page: the cells of its items, the matches, the columns.               *)

\* Every request has a resolver of its own.
Receive(what, first) ==
    /\ At("idle") /\ requests < MaxRequests
    /\ asked' = what /\ step' = first
    /\ requests' = requests + 1
    /\ held' = [c \in Cells |-> {cells[c]}]

AskPage ==
    \E items \in (SUBSET Items) \ {{}}, table \in ScoreTables :
        /\ Receive([Nothing EXCEPT !.items = items],
                   IF BrandsOf(items) = {} THEN "allow" ELSE "universal")
        /\ scores' = table
        /\ UNCHANGED <<cells, cache, allowed, next, best, columns, answer, edits>>

\* preloadUniversal: UniversalRows.
ReadUniversal ==
    /\ At("universal")
    /\ Read({None} \X BrandsOf(asked.items))
    /\ step' = IF PairsOf(asked.items) = {} THEN "allow" ELSE "pairs"
    /\ UNCHANGED <<cells, asked, allowed, scores, next, best, columns, answer,
                   requests, edits, held>>

\* PreloadPairs: PairRows, less the cross pairs nobody asked for.
ReadPairs ==
    /\ At("pairs")
    /\ Read(PairsOf(asked.items))
    /\ step' = "allow"
    /\ UNCHANGED <<cells, asked, allowed, scores, next, best, columns, answer,
                   requests, edits, held>>

\* AllowedByItem; our own store may match every item.
Allow ==
    /\ At("allow")
    /\ allowed' = [i \in Items |-> IF i \in asked.items
                                   THEN ForPair(i) \cup ({OwnStore} \ {None})
                                   ELSE {}]
    /\ step' = "match" /\ next' = 1
    /\ UNCHANGED <<cells, asked, cache, scores, best, columns, answer,
                   requests, edits, held>>

\* MUTANT: an equal score replaces the match.
BetterOrEqual(i, p) ==
    LET old == best[i][StoreOf[p]] IN
    /\ scores[i][p] > Threshold /\ StoreOf[p] \in allowed[i]
    /\ old = NoMatch \/ scores[i][p] >= old.score

\* Whether a product is kept as the item's match in its store.
Better(i, p) ==
    LET old == best[i][StoreOf[p]] IN
    /\ scores[i][p] > Threshold /\ StoreOf[p] \in allowed[i]
    /\ old = NoMatch \/ scores[i][p] > old.score

\* ComputeMatches, of one product.  The score is stored capped.
MatchProduct ==
    /\ At("match") /\ next \in Products
    /\ best' = [i \in Items |->
                  IF i \in asked.items /\ Better(i, next)
                  THEN [best[i] EXCEPT ![StoreOf[next]] =
                          [product |-> next, score |-> Least(scores[i][next], One)]]
                  ELSE best[i]]
    /\ next' = next + 1
    /\ UNCHANGED <<cells, step, asked, cache, allowed, scores, columns, answer,
                   requests, edits, held>>

MatchEnds ==
    /\ At("match") /\ next \notin Products
    /\ step' = "columns"
    /\ UNCHANGED <<cells, asked, cache, allowed, scores, next, best, columns,
                   answer, requests, edits, held>>

\* MUTANT: the page looks the cells up again.
PageColumnsAgain ==
    /\ At("columns")
    /\ columns' = [i \in Items |->
         IF i \notin asked.items \/ BrandOf[i] = None THEN {}
         ELSE LET pair == <<KategoriOf[i], BrandOf[i]>> IN
              (IF pair \in Specific /\ cells[pair] # {} THEN cells[pair]
               ELSE cells[<<None, BrandOf[i]>>]) \ {OwnStore}]
    /\ step' = "answered"
    /\ UNCHANGED <<cells, asked, cache, allowed, scores, next, best, answer,
                   requests, edits, held>>

\* OurProducts: a column for every store of the item's cell but our own.
PageColumns ==
    /\ At("columns")
    /\ columns' = [i \in Items |-> IF i \in asked.items
                                   THEN ForPair(i) \ {OwnStore} ELSE {}]
    /\ step' = "answered"
    /\ UNCHANGED <<cells, asked, cache, allowed, scores, next, best, answer,
                   requests, edits, held>>

-----------------------------------------------------------------------------
(* MappingCell: one cell, for the edit form.                               *)

AskCell ==
    \E c \in Cells :
        /\ Receive([Nothing EXCEPT !.cell = c], "rawUniversal")
        /\ UNCHANGED <<cells, cache, allowed, scores, next, best, columns,
                       answer, edits>>

\* UniversalFor, which is also the first statement of a pair's preload.
ReadRawUniversal ==
    LET universal == <<None, asked.cell[2]>> IN
    /\ At("rawUniversal")
    /\ Read({universal})
    /\ IF asked.cell = universal
       THEN step' = "answered" /\ answer' = cache'[universal]
       ELSE step' = "rawPair"  /\ UNCHANGED answer
    /\ UNCHANGED <<cells, asked, allowed, scores, next, best, columns,
                   requests, edits, held>>

\* MUTANT: an empty cell is answered with the universal one.
ReadRawPairFallsBack ==
    /\ At("rawPair")
    /\ Read({asked.cell})
    /\ answer' = IF cache'[asked.cell] = {} THEN cache'[<<None, asked.cell[2]>>]
                                            ELSE cache'[asked.cell]
    /\ step' = "answered"
    /\ UNCHANGED <<cells, asked, allowed, scores, next, best, columns,
                   requests, edits, held>>

\* RawPair: the cell without the universal fallback.
ReadRawPair ==
    /\ At("rawPair")
    /\ Read({asked.cell})
    /\ answer' = cache'[asked.cell]
    /\ step' = "answered"
    /\ UNCHANGED <<cells, asked, allowed, scores, next, best, columns,
                   requests, edits, held>>

-----------------------------------------------------------------------------
\* The request is over; its resolver goes with it.
Reset ==
    /\ step' = "idle" /\ asked' = Nothing /\ cache' = NoCache
    /\ allowed' = NoAllowed /\ best' = NoBest /\ columns' = NoAllowed
    /\ answer' = {} /\ next' = 0
    /\ UNCHANGED <<cells, scores, requests, edits, held>>

Answered == At("answered") /\ Reset

\* A statement fails, and the request with it.
QueryFails ==
    /\ step \in {"universal", "pairs", "rawUniversal", "rawPair"}
    /\ Reset

\* Another request rewrites a cell.
EditCell ==
    \E c \in Cells, stores \in SUBSET Kompetitors :
        /\ edits < MaxEdits /\ stores # cells[c]
        /\ cells' = [cells EXCEPT ![c] = stores]
        /\ held' = [held EXCEPT ![c] = @ \cup {stores}]
        /\ edits' = edits + 1
        /\ UNCHANGED <<request, requests>>

Finished ==
    /\ At("idle") /\ requests = MaxRequests
    /\ UNCHANGED vars

Init ==
    /\ cells \in [Cells -> SUBSET Kompetitors]
    /\ step = "idle" /\ asked = Nothing /\ cache = NoCache
    /\ allowed = NoAllowed /\ best = NoBest /\ columns = NoAllowed
    /\ answer = {} /\ next = 0
    /\ scores = [i \in Items |-> [p \in Products |-> 0]]
    /\ requests = 0 /\ edits = 0
    /\ held = [c \in Cells |-> {cells[c]}]

Next ==
    \/ AskPage \/ ReadUniversal \/ ReadPairs \/ Allow
    \/ MatchProduct \/ MatchEnds \/ PageColumns
    \/ AskCell \/ ReadRawUniversal \/ ReadRawPair
    \/ Answered \/ QueryFails \/ EditCell \/ Finished

Spec == Init /\ [][Next]_vars

-----------------------------------------------------------------------------
(* Properties.                                                             *)

\* The request's locals hold what their types allow; no cell a loop needs is
\* left unread.
TypeOK ==
    /\ cells \in [Cells -> SUBSET Kompetitors]
    /\ step \in Steps
    /\ asked.items \subseteq Items /\ asked.cell \in Cells \cup {None}
    /\ cache \in [Cells -> (SUBSET Kompetitors) \cup {Unread}]
    /\ allowed \in [Items -> SUBSET Kompetitors]
    /\ scores \in [Items -> [Products -> Nat]] /\ next \in Nat
    /\ best \in [Items -> [Kompetitors -> [product : Products \cup {0},
                                           score   : 0..One]]]
    /\ columns \in [Items -> SUBSET Kompetitors]
    /\ answer \subseteq Kompetitors
    /\ requests \in Nat /\ edits \in Nat
    /\ held \in [Cells -> SUBSET SUBSET Kompetitors]
    /\ step \in {"allow", "match", "columns"} =>
         \A c \in PairsOf(asked.items) \cup ({None} \X BrandsOf(asked.items)) :
             cache[c] # Unread

\* A filled specific cell wins outright, whatever is edited meanwhile: the
\* stores an item may match were the list of one cell at one moment of the
\* request, and of the universal cell only if the specific one was empty then.
OneCellWins ==
    step \in {"match", "columns"} =>
        \A i \in asked.items :
            LET pair == <<KategoriOf[i], BrandOf[i]>>
                From(list) == allowed[i] \ {OwnStore} = list \ {OwnStore} IN
            BrandOf[i] # None =>
                \/ pair \in Specific /\ \E list \in held[pair] \ {{}} : From(list)
                \/ /\ pair \in Specific => {} \in held[pair]
                   /\ \E list \in held[<<None, BrandOf[i]>>] : From(list)

\* Whatever is edited between the two, a page has a column for every store it
\* has matched an item in: no price is computed and then dropped.
MatchesHaveColumns ==
    At("answered") =>
        \A i \in asked.items, k \in Kompetitors \ {OwnStore} :
            best[i][k] # NoMatch => k \in columns[i]

\* The match of an item in a store is one of the best: no product of the store
\* above the threshold has, as far as 1, a higher score, an earlier one has a
\* lower one unless both are above 1, and there is a match if there is a product.
BestIsKept ==
    step \in {"columns", "answered"} =>
        \A i \in asked.items : \A k \in allowed[i] :
            LET above == {p \in Products : StoreOf[p] = k /\ scores[i][p] > Threshold}
                won   == best[i][k].product IN
            /\ (above = {}) <=> (best[i][k] = NoMatch)
            /\ above # {} =>
                 /\ won \in above
                 /\ \A p \in above :
                      /\ Least(scores[i][p], One) <= best[i][k].score
                      /\ p < won /\ scores[i][p] >= scores[i][won] =>
                            scores[i][won] > One

\* The form that edits a cell shows what the cell held, never its fallback.
RawCellShown ==
    At("answered") /\ asked.cell # None => answer \in held[asked.cell]
=============================================================================
