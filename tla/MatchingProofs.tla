--------------------------- MODULE MatchingProofs ---------------------------
(***************************************************************************)
(* Proofs about Matching, for any cells, items, products and scores, and   *)
(* about the modules built on it, Matrix and Margins, for any filters,     *)
(* suspended brands, prices, cost rows and rates.                          *)
(*                                                                         *)
(* Matching: the invariants speak of the steps that use what was read; the *)
(* invariant that carries them says where it came from: every list in the  *)
(* caches is one the cell has held during the request (FromCells), the     *)
(* lists of the allowed stores are those of the caches (FromCache), only   *)
(* allowed stores have a match (OnlyAllowed), and the match of a store is  *)
(* best among the products the loop has seen (BestSoFar).                  *)
(*                                                                         *)
(* Matrix and Margins leave the variables of the modules below them alone  *)
(* or step as these do, so the theorems are of all three specifications.   *)
(*                                                                         *)
(* Matrix: a count is the size of a list its cell has held (CountsShown),  *)
(* and a cell that was never empty is on the axes read so far (AxesFilled).*)
(*                                                                         *)
(* Margins: rates come from the fee tables (RatesHeld) and rows from the   *)
(* rates in the cache (RowsPriced); that a dearer row earns more is then   *)
(* arithmetic: fees that leave a part of a further rupiah let the rest     *)
(* grow (NetGrows), and division and rounding keep the order.              *)
(***************************************************************************)
EXTENDS Margins, FiniteSetTheorems, WellFoundedInduction, TLAPS

Own == {OwnStore} \ {None}
Allowing == {"match", "columns", "answered"}

\* The locals a statement uses are there.
Located ==
    /\ step = "idle" => asked = Nothing /\ cache = NoCache /\ best = NoBest
    /\ step \in {"universal", "pairs", "allow", "match", "columns"} => asked.cell = None
    /\ step \in {"rawUniversal", "rawPair"} => asked.cell \in Cells /\ asked.items = {}
    /\ step = "rawPair" => asked.cell \in Specific
    /\ step \in {"universal", "pairs", "allow"} => best = NoBest
    /\ step = "pairs" => \A c \in {None} \X BrandsOf(asked.items) : cache[c] # Unread
    /\ step = "match" => next \in Nat \ {0}

FromCells ==
    \A c \in Cells : /\ cells[c] \in held[c]
                     /\ cache[c] # Unread => cache[c] \in held[c]

FromCache ==
    step \in {"match", "columns"} =>
        \A i \in asked.items : allowed[i] = ForPair(i) \cup Own

OnlyAllowed ==
    step \in Allowing =>
        \A i \in asked.items, k \in Kompetitors :
            /\ best[i][k] # NoMatch => k \in allowed[i]
            /\ step = "answered" /\ k \in allowed[i] \ {OwnStore} => k \in columns[i]

\* The products the loop has been at.
Seen(n) == {p \in Products : p < n}

\* The best of the products of a set.
BestOf(i, k, seen) ==
    LET above == {p \in seen : StoreOf[p] = k /\ scores[i][p] > Threshold}
        won   == best[i][k].product IN
    /\ (above = {}) <=> (best[i][k] = NoMatch)
    /\ above # {} =>
         /\ won \in above
         /\ best[i][k].score = Least(scores[i][won], One)
         /\ \A p \in above :
              /\ Least(scores[i][p], One) <= best[i][k].score
              /\ p < won /\ scores[i][p] >= scores[i][won] => scores[i][won] > One

BestSoFar ==
    /\ step = "match" =>
         \A i \in asked.items : \A k \in allowed[i] :
             BestOf(i, k, Seen(next))
    /\ step \in {"columns", "answered"} =>
         \A i \in asked.items : \A k \in allowed[i] : BestOf(i, k, Products)

IInv == TypeOK /\ Located /\ FromCells /\ FromCache /\ OnlyAllowed /\ BestSoFar
         /\ RawCellShown

-----------------------------------------------------------------------------
(* The operators.                                                          *)

\* A statement reads the cells it wants and leaves those read before alone.
LEMMA ReadCells ==
    ASSUME TypeOK, NEW wanted, Read(wanted)
    PROVE  /\ cache' \in [Cells -> (SUBSET Kompetitors) \cup {Unread}]
           /\ \A c \in Cells :
                /\ c \in wanted => cache'[c] # Unread
                /\ cache[c] # Unread => cache'[c] = cache[c]
                /\ cache'[c] \in {cache[c], cells[c]}
<1>1. \A c \in Cells : cells[c] \in SUBSET Kompetitors /\ cells[c] # Unread
  BY MatchingAssumption DEF TypeOK, Unread
<1>2. \A c \in Cells : cache[c] \in (SUBSET Kompetitors) \cup {Unread}
  BY DEF TypeOK
<1> QED
  BY <1>1, <1>2 DEF Read

\* The cells ForPair asks for are cells, and a page reads them.
LEMMA CellsOf ==
    ASSUME NEW items \in SUBSET Items, NEW i \in items, BrandOf[i] # None
    PROVE  /\ BrandOf[i] \in Brands
           /\ <<None, BrandOf[i]>> \in Cells
           /\ <<None, BrandOf[i]>> \in {None} \X BrandsOf(items)
           /\ KategoriOf[i] # None =>
                /\ <<KategoriOf[i], BrandOf[i]>> \in Specific
                /\ <<KategoriOf[i], BrandOf[i]>> \in Cells
                /\ <<KategoriOf[i], BrandOf[i]>> \in PairsOf(items)
<1>1. BrandOf[i] \in Brands
  BY MatchingAssumption
<1>2. BrandOf[i] \in BrandsOf(items)
  BY DEF BrandsOf
<1>3. KategoriOf[i] # None => KategoriOf[i] \in Kategoris
  BY MatchingAssumption
<1>4. <<KategoriOf[i], BrandOf[i]>> \in {<<KategoriOf[j], BrandOf[j]>> : j \in items}
  OBVIOUS
<1> QED
  BY <1>1, <1>2, <1>3, <1>4 DEF Cells, Universal, Specific, PairsOf

\* Once its cells have been read, an item has a list of stores.
LEMMA ForPairType ==
    ASSUME TypeOK, step \in {"allow", "match", "columns"}, NEW i \in asked.items
    PROVE  ForPair(i) \in SUBSET Kompetitors
<1>1. asked.items \in SUBSET Items
  BY DEF TypeOK
<1>2. CASE BrandOf[i] = None
  BY <1>2 DEF ForPair
<1>3. CASE BrandOf[i] # None
  <2>1. /\ <<None, BrandOf[i]>> \in Cells
        /\ cache[<<None, BrandOf[i]>>] # Unread
    BY <1>1, <1>3, CellsOf DEF TypeOK
  <2>2. KategoriOf[i] # None => /\ <<KategoriOf[i], BrandOf[i]>> \in Cells
                                /\ cache[<<KategoriOf[i], BrandOf[i]>>] # Unread
    BY <1>1, <1>3, CellsOf DEF TypeOK
  <2>3. \A c \in Cells : cache[c] # Unread => cache[c] \in SUBSET Kompetitors
    BY DEF TypeOK
  <2> QED
    BY <1>3, <2>1, <2>2, <2>3 DEF ForPair
<1> QED
  BY <1>2, <1>3

\* A pair of an item with brand and kategori is a specific cell, and the cells
\* a page reads are cells.
LEMMA ReadOnlyCells ==
    ASSUME NEW items \in SUBSET Items
    PROVE  PairsOf(items) \cup ({None} \X BrandsOf(items)) \subseteq Cells
<1>1. BrandsOf(items) \subseteq Brands
  BY MatchingAssumption DEF BrandsOf
<1> QED
  BY <1>1 DEF PairsOf, Cells, Universal

\* The smaller of two scores.
LEMMA LeastType ==
    ASSUME NEW s \in Nat
    PROVE  Least(s, One) \in 0..One /\ Least(s, One) <= s
BY MatchingAssumption DEF Least

\* Products are numbered, and their scores are numbers.
LEMMA Numbers ==
    ASSUME TypeOK
    PROVE  /\ Products \subseteq Nat \ {0}
           /\ \A p \in Products : StoreOf[p] \in Kompetitors
           /\ \A i \in Items, p \in Products : scores[i][p] \in Nat
<1>1. Products = 1..Len(StoreOf) /\ Len(StoreOf) \in Nat
  BY MatchingAssumption DEF Products
<1>2. \A p \in Products : StoreOf[p] \in Kompetitors
  BY <1>1, MatchingAssumption
<1>3. \A i \in Items : scores[i] \in [Products -> Nat]
  BY DEF TypeOK
<1> QED
  BY <1>1, <1>2, <1>3

\* A request starts empty and leaves nothing behind.
LEMMA EmptyTypes ==
    /\ NoCache \in [Cells -> (SUBSET Kompetitors) \cup {Unread}]
    /\ NoAllowed \in [Items -> SUBSET Kompetitors]
    /\ NoBest \in [Items -> [Kompetitors -> [product : Products \cup {0},
                                             score   : 0..One]]]
    /\ Nothing.items = {} /\ Nothing.cell = None
<1>1. 0 \in 0..One
  BY MatchingAssumption
<1> QED
  BY <1>1 DEF NoCache, NoAllowed, NoBest, NoMatch, Nothing

-----------------------------------------------------------------------------
(* Types.                                                                  *)

\* Every step keeps the types, and no loop of a page starts before the cells
\* it needs are read.
LEMMA TypeStep == TypeOK /\ Located /\ [Next]_vars => TypeOK'
<1> SUFFICES ASSUME TypeOK, Located, [Next]_vars PROVE TypeOK'
  OBVIOUS
<1> DEFINE Needed(items) == PairsOf(items) \cup ({None} \X BrandsOf(items))
<1>1. CASE AskPage
  <2>1. PICK items \in (SUBSET Items) \ {{}}, table \in ScoreTables :
          /\ Receive([Nothing EXCEPT !.items = items],
                     IF BrandsOf(items) = {} THEN "allow" ELSE "universal")
          /\ scores' = table
          /\ UNCHANGED <<cells, cache, allowed, next, best, columns, answer, edits>>
    BY <1>1 DEF AskPage
  <2>2. asked'.items = items /\ asked'.cell = None
    BY <2>1 DEF Receive, Nothing
  <2>3. scores' \in [Items -> [Products -> Nat]]
    BY <2>1, MatchingAssumption
  <2>4. held' \in [Cells -> SUBSET SUBSET Kompetitors] /\ requests' \in Nat
    BY <2>1 DEF Receive, TypeOK
  <2>5. step' \in Steps /\ step' \notin {"match", "columns"}
    BY <2>1 DEF Receive, Steps
  <2>6. ASSUME step' = "allow" PROVE Needed(items) = {}
    <3>1. BrandsOf(items) = {}
      BY <2>1, <2>6 DEF Receive
    <3>2. \A i \in items : BrandOf[i] \notin Brands
      BY <3>1, MatchingAssumption DEF BrandsOf
    <3> QED
      BY <3>1, <3>2 DEF PairsOf, Specific
  <2> QED
    BY <2>1, <2>2, <2>3, <2>4, <2>5, <2>6 DEF TypeOK
<1>2. CASE ReadUniversal
  <2> DEFINE wanted == {None} \X BrandsOf(asked.items)
  <2>1. Read(wanted)
    BY <1>2 DEF ReadUniversal
  <2>2. wanted \subseteq Cells
    BY ReadOnlyCells DEF TypeOK
  <2>3. \A c \in wanted : cache'[c] # Unread
    BY <2>1, <2>2, ReadCells
  <2>4. step' \in {"pairs", "allow"} /\ (step' = "allow" => PairsOf(asked.items) = {})
    BY <1>2 DEF ReadUniversal
  <2>5. cache' \in [Cells -> (SUBSET Kompetitors) \cup {Unread}]
    BY <2>1, ReadCells
  <2> QED
    BY <1>2, <2>3, <2>4, <2>5 DEF ReadUniversal, TypeOK, Steps
<1>3. CASE ReadPairs
  <2>1. Read(PairsOf(asked.items))
    BY <1>3 DEF ReadPairs
  <2>2. Needed(asked.items) \subseteq Cells
    BY ReadOnlyCells DEF TypeOK
  <2>3. \A c \in Needed(asked.items) : cache'[c] # Unread
    BY <1>3, <2>1, <2>2, ReadCells DEF ReadPairs, Located, At
  <2>4. cache' \in [Cells -> (SUBSET Kompetitors) \cup {Unread}]
    BY <2>1, ReadCells
  <2> QED
    BY <1>3, <2>3, <2>4 DEF ReadPairs, TypeOK, Steps
<1>4. CASE Allow
  <2>1. \A i \in asked.items : ForPair(i) \in SUBSET Kompetitors
    BY <1>4, ForPairType DEF Allow, At
  <2>2. {OwnStore} \ {None} \in SUBSET Kompetitors
    BY MatchingAssumption
  <2>3. allowed' \in [Items -> SUBSET Kompetitors]
    BY <1>4, <2>1, <2>2 DEF Allow
  <2> QED
    BY <1>4, <2>3 DEF Allow, At, TypeOK, Steps
<1>5. CASE MatchProduct
  <2>1. /\ StoreOf[next] \in Kompetitors
        /\ \A i \in Items : scores[i][next] \in Nat
    BY <1>5, Numbers DEF MatchProduct
  <2>2. ASSUME NEW i \in Items
        PROVE  [product |-> next, score |-> Least(scores[i][next], One)]
                 \in [product : Products \cup {0}, score : 0..One]
    BY <1>5, <2>1, LeastType DEF MatchProduct
  <2>3. best' \in [Items -> [Kompetitors -> [product : Products \cup {0},
                                              score   : 0..One]]]
    BY <1>5, <2>1, <2>2 DEF MatchProduct, TypeOK
  <2> QED
    BY <1>5, <2>3 DEF MatchProduct, TypeOK
<1>6. CASE MatchEnds
  BY <1>6 DEF MatchEnds, At, TypeOK, Steps
<1>7. CASE PageColumns
  <2>1. \A i \in asked.items : ForPair(i) \in SUBSET Kompetitors
    BY <1>7, ForPairType DEF PageColumns, At
  <2>2. columns' \in [Items -> SUBSET Kompetitors]
    BY <1>7, <2>1 DEF PageColumns
  <2> QED
    BY <1>7, <2>2 DEF PageColumns, TypeOK, Steps
<1>8. CASE AskCell
  <2>1. PICK c \in Cells :
          /\ Receive([Nothing EXCEPT !.cell = c], "rawUniversal")
          /\ UNCHANGED <<cells, cache, allowed, scores, next, best, columns,
                         answer, edits>>
    BY <1>8 DEF AskCell
  <2>2. asked'.items = {} /\ asked'.cell = c
    BY <2>1 DEF Receive, Nothing
  <2>3. held' \in [Cells -> SUBSET SUBSET Kompetitors] /\ requests' \in Nat
    BY <2>1 DEF Receive, TypeOK
  <2> QED
    BY <2>1, <2>2, <2>3 DEF Receive, TypeOK, Steps
<1>9. CASE ReadRawUniversal
  <2> DEFINE universal == <<None, asked.cell[2]>>
  <2>1. Read({universal}) /\ asked.cell \in Cells
    BY <1>9 DEF ReadRawUniversal, Located, At
  <2>2. universal \in Cells
    BY <2>1 DEF Cells, Specific, Universal
  <2>3. cache' \in [Cells -> (SUBSET Kompetitors) \cup {Unread}]
    BY <2>1, ReadCells
  <2>4. cache'[universal] # Unread
    BY <2>1, <2>2, ReadCells
  <2>5. answer' \in SUBSET Kompetitors
    BY <1>9, <2>2, <2>3, <2>4 DEF ReadRawUniversal, TypeOK
  <2>6. step' \in {"answered", "rawPair"}
    BY <1>9 DEF ReadRawUniversal
  <2> QED
    BY <1>9, <2>3, <2>5, <2>6 DEF ReadRawUniversal, TypeOK, Steps
<1>10. CASE ReadRawPair
  <2>1. Read({asked.cell}) /\ asked.cell \in Cells
    BY <1>10 DEF ReadRawPair, Located, At
  <2>2. cache' \in [Cells -> (SUBSET Kompetitors) \cup {Unread}]
    BY <2>1, ReadCells
  <2>3. cache'[asked.cell] # Unread
    BY <2>1, ReadCells
  <2> QED
    BY <1>10, <2>1, <2>2, <2>3 DEF ReadRawPair, TypeOK, Steps
<1>11. CASE Answered \/ QueryFails
  BY <1>11, EmptyTypes DEF Answered, QueryFails, Reset, TypeOK, Steps
<1>12. CASE EditCell
  BY <1>12 DEF EditCell, request, TypeOK
<1>13. CASE Finished \/ UNCHANGED vars
  BY <1>13 DEF Finished, vars, request, TypeOK
<1> QED
  BY <1>1, <1>2, <1>3, <1>4, <1>5, <1>6, <1>7, <1>8, <1>9, <1>10, <1>11, <1>12,
     <1>13 DEF Next

-----------------------------------------------------------------------------
(* The request's locals, and where they come from.                         *)

\* Every step leaves the next statement the locals it uses.
LEMMA LocatedStep == TypeOK /\ Located /\ [Next]_vars => Located'
<1> SUFFICES ASSUME TypeOK, Located, [Next]_vars PROVE Located'
  OBVIOUS
<1>1. CASE AskPage
  <2>1. PICK items \in (SUBSET Items) \ {{}}, table \in ScoreTables :
          /\ Receive([Nothing EXCEPT !.items = items],
                     IF BrandsOf(items) = {} THEN "allow" ELSE "universal")
          /\ UNCHANGED best
    BY <1>1 DEF AskPage
  <2>2. asked'.cell = None /\ step' \in {"allow", "universal"} /\ best' = NoBest
    BY <2>1 DEF Receive, Nothing, Located, At
  <2> QED
    BY <2>2 DEF Located
<1>2. CASE ReadUniversal
  <2> DEFINE wanted == {None} \X BrandsOf(asked.items)
  <2>1. \A c \in wanted : cache'[c] # Unread
    BY <1>2, ReadOnlyCells, ReadCells DEF ReadUniversal, TypeOK
  <2> QED
    BY <1>2, <2>1 DEF ReadUniversal, Located, At
<1>3. CASE ReadPairs \/ Allow \/ MatchProduct \/ MatchEnds \/ PageColumns
  BY <1>3 DEF ReadPairs, Allow, MatchProduct, MatchEnds, PageColumns, Located, At
<1>4. CASE AskCell
  <2>1. PICK c \in Cells : Receive([Nothing EXCEPT !.cell = c], "rawUniversal")
    BY <1>4 DEF AskCell
  <2>2. asked'.items = {} /\ asked'.cell = c /\ step' = "rawUniversal"
    BY <2>1 DEF Receive, Nothing
  <2> QED
    BY <2>2 DEF Located
<1>5. CASE ReadRawUniversal
  <2>1. asked.cell \in Cells /\ asked.cell # <<None, asked.cell[2]>> =>
          asked.cell \in Specific
    BY DEF Cells, Universal
  <2> QED
    BY <1>5, <2>1 DEF ReadRawUniversal, Located, At
<1>6. CASE ReadRawPair \/ Answered \/ QueryFails
  BY <1>6 DEF ReadRawPair, Answered, QueryFails, Reset, Located, At
<1>7. CASE EditCell \/ Finished \/ UNCHANGED vars
  BY <1>7 DEF EditCell, Finished, vars, request, Located, BrandsOf
<1> QED
  BY <1>1, <1>2, <1>3, <1>4, <1>5, <1>6, <1>7 DEF Next

\* Of every cell that is read, the request has what the cell held at some
\* moment of it.
LEMMA FromCellsStep == TypeOK /\ Located /\ FromCells /\ [Next]_vars => FromCells'
<1> SUFFICES ASSUME TypeOK, Located, FromCells, [Next]_vars, NEW c \in Cells
             PROVE  cells'[c] \in held'[c] /\ (cache'[c] # Unread => cache'[c] \in held'[c])
  BY DEF FromCells
<1>1. CASE AskPage \/ AskCell
  <2>1. cache' = NoCache /\ cells' = cells /\ held' = [d \in Cells |-> {cells[d]}]
    BY <1>1 DEF AskPage, AskCell, Receive, Located, At
  <2> QED
    BY <2>1 DEF NoCache
<1>2. CASE ReadUniversal \/ ReadPairs \/ ReadRawUniversal \/ ReadRawPair
  <2>1. PICK wanted : Read(wanted)
    BY <1>2 DEF ReadUniversal, ReadPairs, ReadRawUniversal, ReadRawPair
  <2>2. cells' = cells /\ held' = held
    BY <1>2 DEF ReadUniversal, ReadPairs, ReadRawUniversal, ReadRawPair
  <2>3. cache'[c] \in {cache[c], cells[c]}
    BY <2>1, ReadCells
  <2> QED
    BY <2>2, <2>3 DEF FromCells
<1>3. CASE Allow \/ MatchProduct \/ MatchEnds \/ PageColumns
  BY <1>3 DEF Allow, MatchProduct, MatchEnds, PageColumns, FromCells
<1>4. CASE Answered \/ QueryFails
  BY <1>4 DEF Answered, QueryFails, Reset, NoCache, FromCells
<1>5. CASE EditCell
  BY <1>5 DEF EditCell, request, FromCells, TypeOK
<1>6. CASE Finished \/ UNCHANGED vars
  BY <1>6 DEF Finished, vars, request, FromCells
<1> QED
  BY <1>1, <1>2, <1>3, <1>4, <1>5, <1>6 DEF Next

\* The stores an item may match are those of the cells that were read, while
\* the loop runs and until the columns are built.
LEMMA FromCacheStep == TypeOK /\ FromCache /\ [Next]_vars => FromCache'
<1> SUFFICES ASSUME TypeOK, FromCache, [Next]_vars PROVE FromCache'
  OBVIOUS
<1>1. CASE Allow
  <2>1. asked.items \subseteq Items
    BY DEF TypeOK
  <2> QED
    BY <1>1, <2>1 DEF Allow, FromCache, ForPair, Own
<1>2. CASE MatchProduct \/ MatchEnds
  BY <1>2 DEF MatchProduct, MatchEnds, At, FromCache, ForPair
<1>3. CASE EditCell \/ Finished \/ UNCHANGED vars
  BY <1>3 DEF EditCell, Finished, vars, request, FromCache, ForPair
<1>4. CASE \/ AskPage \/ ReadUniversal \/ ReadPairs \/ PageColumns \/ AskCell
           \/ ReadRawUniversal \/ ReadRawPair \/ Answered \/ QueryFails
  <2>1. step' \notin {"match", "columns"}
    BY <1>4 DEF AskPage, Receive, ReadUniversal, ReadPairs, PageColumns, AskCell,
                ReadRawUniversal, ReadRawPair, Answered, QueryFails, Reset
  <2> QED
    BY <2>1 DEF FromCache
<1> QED
  BY <1>1, <1>2, <1>3, <1>4 DEF Next

\* What a cell read answers is what was read of the cell.
LEMMA RawStep ==
    TypeOK /\ Located /\ FromCells /\ FromCells' /\ RawCellShown /\ [Next]_vars
        => RawCellShown'
<1> SUFFICES ASSUME TypeOK, Located, FromCells, FromCells', RawCellShown,
                    [Next]_vars, step' = "answered", asked'.cell # None
             PROVE  answer' \in held'[asked'.cell]
  BY DEF RawCellShown, At
<1>1. CASE ReadRawUniversal
  <2> DEFINE universal == <<None, asked.cell[2]>>
  <2>1. asked.cell \in Cells /\ asked.cell = universal /\ Read({universal})
    BY <1>1 DEF ReadRawUniversal, Located, At
  <2>2. cache'[universal] # Unread
    BY <2>1, ReadCells
  <2> QED
    BY <1>1, <2>1, <2>2 DEF ReadRawUniversal, FromCells
<1>2. CASE ReadRawPair
  <2>1. asked.cell \in Cells /\ Read({asked.cell})
    BY <1>2 DEF ReadRawPair, Located, At
  <2>2. cache'[asked.cell] # Unread
    BY <2>1, ReadCells
  <2> QED
    BY <1>2, <2>1, <2>2 DEF ReadRawPair, FromCells
<1>3. CASE EditCell
  BY <1>3 DEF EditCell, request, RawCellShown, At, TypeOK
<1>4. CASE Finished \/ UNCHANGED vars
  BY <1>4 DEF Finished, vars, request, RawCellShown, At
<1>5. CASE \/ AskPage \/ ReadUniversal \/ ReadPairs \/ Allow \/ MatchProduct
           \/ MatchEnds \/ AskCell \/ Answered \/ QueryFails
  BY <1>5 DEF AskPage, Receive, ReadUniversal, ReadPairs, Allow, MatchProduct,
              MatchEnds, AskCell, Answered, QueryFails, Reset, At
<1>6. CASE PageColumns
  BY <1>6 DEF PageColumns, Located, At
<1> QED
  BY <1>1, <1>2, <1>3, <1>4, <1>5, <1>6 DEF Next

\* Only an allowed store gets a match, and every one of them but our own gets a
\* column: both come from the same list.
LEMMA OnlyAllowedStep ==
    TypeOK /\ Located /\ FromCache /\ OnlyAllowed /\ [Next]_vars => OnlyAllowed'
<1> SUFFICES ASSUME TypeOK, Located, FromCache, OnlyAllowed, [Next]_vars
             PROVE  OnlyAllowed'
  OBVIOUS
<1>0. asked.items \subseteq Items
  BY DEF TypeOK
<1>1. CASE Allow
  <2>1. step' = "match" /\ best' = NoBest /\ asked' = asked
    BY <1>1 DEF Allow, Located, At
  <2>2. \A i \in asked.items, k \in Kompetitors : best'[i][k] = NoMatch
    BY <1>0, <2>1 DEF NoBest
  <2> QED
    BY <2>1, <2>2 DEF OnlyAllowed
<1>2. CASE MatchProduct
  <2>1. /\ step' = "match" /\ step \in Allowing
        /\ asked' = asked /\ allowed' = allowed
    BY <1>2 DEF MatchProduct, At, Allowing
  <2>2. ASSUME NEW i \in asked.items, NEW k \in Kompetitors, best'[i][k] # NoMatch
        PROVE  k \in allowed[i]
    <3>1. CASE best'[i][k] = best[i][k]
      BY <2>1, <2>2, <3>1 DEF OnlyAllowed
    <3>2. CASE best'[i][k] # best[i][k]
      <4>1. Better(i, next) /\ StoreOf[next] = k
        BY <1>0, <1>2, <3>2 DEF MatchProduct, TypeOK
      <4> QED
        BY <4>1 DEF Better
    <3> QED
      BY <3>1, <3>2
  <2> QED
    BY <2>1, <2>2 DEF OnlyAllowed
<1>3. CASE MatchEnds
  BY <1>3 DEF MatchEnds, At, OnlyAllowed, Allowing
<1>4. CASE PageColumns
  <2>1. /\ step = "columns" /\ step' = "answered" /\ step \in Allowing
        /\ asked' = asked /\ allowed' = allowed /\ best' = best
    BY <1>4 DEF PageColumns, At, Allowing
  <2>2. ASSUME NEW i \in asked.items, NEW k \in allowed[i] \ {OwnStore}
        PROVE  k \in columns'[i]
    <3>1. k \in ForPair(i)
      BY <2>1 DEF FromCache, Own
    <3>2. columns'[i] = ForPair(i) \ {OwnStore}
      BY <1>0, <1>4 DEF PageColumns
    <3> QED
      BY <3>1, <3>2
  <2> QED
    BY <2>1, <2>2 DEF OnlyAllowed
<1>5. CASE ReadRawUniversal \/ ReadRawPair
  <2>1. asked'.items = {}
    BY <1>5 DEF ReadRawUniversal, ReadRawPair, Located, At
  <2> QED
    BY <2>1 DEF OnlyAllowed
<1>6. CASE \/ AskPage \/ ReadUniversal \/ ReadPairs \/ AskCell \/ Answered
           \/ QueryFails
  <2>1. step' \notin Allowing
    BY <1>6 DEF AskPage, Receive, ReadUniversal, ReadPairs, AskCell, Answered,
                QueryFails, Reset, Allowing
  <2> QED
    BY <2>1 DEF OnlyAllowed
<1>7. CASE EditCell \/ Finished \/ UNCHANGED vars
  BY <1>7 DEF EditCell, Finished, vars, request, OnlyAllowed
<1> QED
  BY <1>1, <1>2, <1>3, <1>4, <1>5, <1>6, <1>7 DEF Next

-----------------------------------------------------------------------------
(* The best match.                                                         *)

\* A product of another store, or below the threshold, changes nothing.
LEMMA OtherProduct ==
    ASSUME TypeOK, MatchProduct, NEW i \in asked.items, NEW k \in allowed[i],
           BestOf(i, k, Seen(next)),
           StoreOf[next] # k \/ ~(scores[i][next] > Threshold)
    PROVE  BestOf(i, k, Seen(next))'
<1>1. i \in Items /\ k \in Kompetitors
  BY DEF TypeOK
<1>2. best'[i][k] = best[i][k] /\ scores' = scores
  BY <1>1 DEF MatchProduct, Better, TypeOK
<1>3. next \in Products /\ next' = next + 1
  BY DEF MatchProduct
<1>4. Seen(next)' = Seen(next) \cup {next}
  BY <1>3, Numbers DEF Seen
<1>5. {p \in Seen(next)' : StoreOf[p] = k /\ scores[i][p] > Threshold}
        = {p \in Seen(next) : StoreOf[p] = k /\ scores[i][p] > Threshold}
  BY <1>4
<1> QED
  BY <1>2, <1>5 DEF BestOf

\* A product of the store above the threshold replaces its match or not; the
\* match is best among one more product either way.
LEMMA OneMoreProduct ==
    ASSUME TypeOK, Located, MatchProduct, NEW i \in asked.items,
           NEW k \in allowed[i], BestOf(i, k, Seen(next)),
           StoreOf[next] = k, scores[i][next] > Threshold
    PROVE  BestOf(i, k, Seen(next))'
<1> DEFINE Above(n) == {p \in Seen(n) : StoreOf[p] = k /\ scores[i][p] > Threshold}
           old == best[i][k]
           s(p) == scores[i][p]
<1>1. i \in Items /\ k \in Kompetitors /\ next \in Products
  BY DEF TypeOK, MatchProduct
<1>2. /\ Products \subseteq Nat \ {0} /\ One \in Nat /\ Threshold \in Nat
      /\ \A p \in Products : s(p) \in Nat
  BY <1>1, Numbers, MatchingAssumption
<1>3. Above(next + 1) = Above(next) \cup {next} /\ next \notin Above(next)
  BY <1>1, <1>2 DEF Seen
<1>4. /\ {p \in Seen(next)' : StoreOf[p] = k /\ scores'[i][p] > Threshold}
           = Above(next + 1)
      /\ scores' = scores
  BY DEF MatchProduct, Seen
<1>5. /\ (Above(next) = {}) <=> (old = NoMatch)
      /\ Above(next) # {} =>
           /\ old.product \in Above(next)
           /\ old.score = Least(s(old.product), One)
           /\ \A p \in Above(next) :
                /\ Least(s(p), One) <= old.score
                /\ p < old.product /\ s(p) >= s(old.product) => s(old.product) > One
  BY DEF BestOf
<1>6. ASSUME old = NoMatch \/ s(next) > old.score
      PROVE  best'[i][k] = [product |-> next, score |-> Least(s(next), One)]
  BY <1>1, <1>6 DEF MatchProduct, Better, TypeOK
<1>7. ASSUME old # NoMatch, ~(s(next) > old.score) PROVE best'[i][k] = old
  BY <1>1, <1>7 DEF MatchProduct, Better, TypeOK
<1>8. CASE old = NoMatch
  <2>1. Above(next + 1) = {next}
    BY <1>3, <1>5, <1>8
  <2>2. best'[i][k] = [product |-> next, score |-> Least(s(next), One)]
    BY <1>6, <1>8
  <2>3. best'[i][k] # NoMatch
    BY <1>1, <1>2, <2>2 DEF NoMatch
  <2>4. Least(s(next), One) <= Least(s(next), One) /\ ~(next < next)
    BY <1>1, <1>2 DEF Least
  <2> QED
    BY <1>4, <2>1, <2>2, <2>3, <2>4 DEF BestOf
<1>9. CASE old # NoMatch /\ s(next) > old.score
  <2>1. best'[i][k] = [product |-> next, score |-> Least(s(next), One)]
    BY <1>6, <1>9
  <2>2. best'[i][k] # NoMatch
    BY <1>1, <1>2, <2>1 DEF NoMatch
  <2>3. ASSUME NEW p \in Above(next + 1)
        PROVE  /\ Least(s(p), One) <= Least(s(next), One)
               /\ p < next /\ s(p) >= s(next) => s(next) > One
    <3>1. s(p) \in Nat /\ s(next) \in Nat /\ s(old.product) \in Nat
      BY <1>1, <1>2, <1>5, <1>9 DEF Seen
    <3>2. CASE p = next
      BY <1>1, <1>2, <3>1, <3>2 DEF Least
    <3>3. CASE p # next
      <4>1. Least(s(p), One) <= old.score /\ old.score = Least(s(old.product), One)
        BY <1>3, <1>5, <1>9, <3>3
      <4> QED
        BY <1>2, <1>9, <3>1, <4>1 DEF Least
    <3> QED
      BY <3>2, <3>3
  <2>4. best'[i][k].product = next /\ best'[i][k].score = Least(s(next), One)
    BY <2>1
  <2> HIDE DEF Above
  <2> QED
    BY <1>3, <1>4, <2>2, <2>3, <2>4 DEF BestOf
<1>10. CASE old # NoMatch /\ ~(s(next) > old.score)
  <2>1. best'[i][k] = old
    BY <1>7, <1>10
  <2>2. /\ old.product \in Above(next) /\ old.product < next
        /\ old.score = Least(s(old.product), One)
    BY <1>5, <1>10 DEF Seen
  <2>3. ASSUME NEW p \in Above(next + 1)
        PROVE  /\ Least(s(p), One) <= old.score
               /\ p < old.product /\ s(p) >= s(old.product) => s(old.product) > One
    <3>1. s(p) \in Nat /\ s(old.product) \in Nat /\ s(next) \in Nat
      BY <1>1, <1>2, <2>2 DEF Seen
    <3>2. CASE p = next
      BY <1>1, <1>2, <1>10, <2>2, <3>1, <3>2 DEF Least, Seen
    <3>3. CASE p # next
      BY <1>3, <1>5, <1>10, <3>3
    <3> QED
      BY <3>2, <3>3
  <2> QED
    BY <1>3, <1>4, <1>10, <2>1, <2>2, <2>3 DEF BestOf
<1> QED
  BY <1>8, <1>9, <1>10

\* One more product keeps the matches best; when the loop ends it has been at
\* all of them.
LEMMA BestSoFarStep ==
    TypeOK /\ Located /\ BestSoFar /\ [Next]_vars => BestSoFar'
<1> SUFFICES ASSUME TypeOK, Located, BestSoFar, [Next]_vars PROVE BestSoFar'
  OBVIOUS
<1>0. asked.items \subseteq Items /\ \A i \in asked.items : allowed[i] \subseteq Kompetitors
  BY DEF TypeOK
<1>1. CASE Allow
  <2>1. step' = "match" /\ next' = 1 /\ best' = NoBest /\ asked' = asked
    BY <1>1 DEF Allow, Located, At
  <2>2. Seen(next)' = {}
    BY <2>1, Numbers DEF Seen
  <2>3. allowed' \in [Items -> SUBSET Kompetitors]
    BY <1>1, TypeStep DEF Next, TypeOK
  <2>4. \A i \in asked.items : \A k \in allowed'[i] : best'[i][k] = NoMatch
    BY <1>0, <2>1, <2>3 DEF NoBest
  <2> QED
    BY <2>1, <2>2, <2>4 DEF BestSoFar, BestOf
<1>2. CASE MatchProduct
  <2>1. /\ step = "match" /\ step' = "match"
        /\ asked' = asked /\ allowed' = allowed
    BY <1>2 DEF MatchProduct, At
  <2>2. ASSUME NEW i \in asked.items, NEW k \in allowed[i]
        PROVE  BestOf(i, k, Seen(next))'
    <3>1. BestOf(i, k, Seen(next))
      BY <2>1 DEF BestSoFar
    <3> QED
      BY <1>2, <3>1, OtherProduct, OneMoreProduct
  <2> QED
    BY <2>1, <2>2 DEF BestSoFar
<1>3. CASE MatchEnds
  <2>1. /\ step = "match" /\ step' = "columns"
        /\ UNCHANGED <<asked, allowed, best, scores>>
    BY <1>3 DEF MatchEnds, At
  <2>2. Seen(next) = Products
    <3>1. next \in Nat \ {0} /\ next \notin Products
      BY <1>3, <2>1 DEF MatchEnds, Located
    <3>2. Products = 1..Len(StoreOf) /\ Len(StoreOf) \in Nat
      BY MatchingAssumption DEF Products
    <3> QED
      BY <3>1, <3>2 DEF Seen
  <2> QED
    BY <2>1, <2>2 DEF BestSoFar, BestOf
<1>4. CASE PageColumns
  BY <1>4 DEF PageColumns, At, BestSoFar, BestOf
<1>5. CASE ReadRawUniversal \/ ReadRawPair
  <2>1. asked'.items = {}
    BY <1>5 DEF ReadRawUniversal, ReadRawPair, Located, At
  <2> QED
    BY <2>1 DEF BestSoFar
<1>6. CASE \/ AskPage \/ ReadUniversal \/ ReadPairs \/ AskCell \/ Answered
           \/ QueryFails
  <2>1. step' \notin {"match", "columns", "answered"}
    BY <1>6 DEF AskPage, Receive, ReadUniversal, ReadPairs, AskCell, Answered,
                QueryFails, Reset
  <2> QED
    BY <2>1 DEF BestSoFar
<1>7. CASE EditCell \/ Finished \/ UNCHANGED vars
  BY <1>7 DEF EditCell, Finished, vars, request, BestSoFar, BestOf, Seen
<1> QED
  BY <1>1, <1>2, <1>3, <1>4, <1>5, <1>6, <1>7 DEF Next

-----------------------------------------------------------------------------
(* The inductive invariant.                                                *)

\* A process without a request satisfies it.
LEMMA InitIInv == Init => IInv
<1> SUFFICES ASSUME Init PROVE IInv
  OBVIOUS
<1>1. step = "idle"
  BY DEF Init
<1>2. TypeOK
  <2>1. scores \in [Items -> [Products -> Nat]]
    BY DEF Init
  <2>2. held \in [Cells -> SUBSET SUBSET Kompetitors]
    BY DEF Init
  <2> QED
    BY <2>1, <2>2, EmptyTypes DEF Init, TypeOK, Steps
<1>3. FromCells
  BY DEF Init, FromCells, NoCache
<1> QED
  BY <1>1, <1>2, <1>3 DEF IInv, Init, Located, FromCache, OnlyAllowed, Allowing,
                          BestSoFar, RawCellShown, At

\* Every step preserves it.
LEMMA IInvStep == IInv /\ [Next]_vars => IInv'
BY TypeStep, LocatedStep, FromCellsStep, FromCacheStep, OnlyAllowedStep,
   BestSoFarStep, RawStep DEF IInv

-----------------------------------------------------------------------------
(* Matrix.                                                                 *)

\* The cells are lists of stores, and what a request finds in them is held.
MatrixHeld ==
    /\ cells \in [Cells -> SUBSET Kompetitors]
    /\ held \in [Cells -> SUBSET SUBSET Kompetitors]
    /\ turn # "idle" => step = "idle" /\ \A c \in Cells : cells[c] \in held[c]

Counting == {"counts", "universalCounts", "shown"}
Shown    == {"universalCounts", "shown"}

\* A count is of a list the cell has held, and of a cell that is drawn.
CountsShown ==
    /\ turn \in {"kategoris"} \cup Counting => matrix.brands \cap Suspended = {}
    /\ turn \in Shown =>
         \A c \in Specific : matrix.counts[c] # 0 =>
             /\ \E list \in held[c] : matrix.counts[c] = Cardinality(list)
             /\ matrix.kategoris # {} => c[1] \in matrix.kategoris
             /\ matrix.brands # {} => c[2] \in matrix.brands
    /\ turn = "shown" =>
         \A b \in Brands : matrix.universal[b] # 0 =>
             /\ \E list \in held[<<None, b>>] :
                    matrix.universal[b] = Cardinality(list)
             /\ matrix.brands # {} => b \in matrix.brands

\* Without a filter a cell that had stores throughout is on the axes read so far.
AxesFilled ==
    matrix.askedBrands = {} /\ matrix.askedKategoris = {} =>
        \A c \in Cells : {} \notin held[c] /\ c[2] \notin Suspended =>
            /\ turn \notin {"idle", "usedBrands"} => c[2] \in matrix.brands
            /\ turn \in {"brands", "kategoris"} \cup Counting /\ c \in Specific =>
                 c[1] \in matrix.kategoris
            /\ turn \in Shown /\ c \in Specific => matrix.counts[c] # 0
            /\ turn = "shown" /\ c \notin Specific => matrix.universal[c[2]] # 0

MatrixInv == MatrixTypeOK /\ MatrixHeld /\ CountsShown /\ AxesFilled

\* A cell is specific or universal, and its brand is one.
LEMMA CellKinds ==
    /\ \A c \in Specific : c \in Cells /\ c[1] \in Kategoris /\ c[2] \in Brands
    /\ \A c \in Cells \ Specific : c = <<None, c[2]>> /\ c[2] \in Brands
    /\ \A b \in Brands : <<None, b>> \in Cells
BY DEF Specific, Universal, Cells

\* A list of stores has a size, which is 0 just if it is empty.
LEMMA Sizes ==
    ASSUME NEW list \in SUBSET Kompetitors
    PROVE  Cardinality(list) \in Nat /\ (Cardinality(list) = 0 <=> list = {})
BY MatrixAssumption, FS_Subset, FS_CardinalityType, FS_EmptySet

\* The request of the matrix is left alone by everybody else's steps, but for
\* the lists its cells have held.
LEMMA MatrixBystander ==
    ASSUME MatrixInv, Next, UNCHANGED matrixVars, turn = "idle" \/ UNCHANGED step
    PROVE  MatrixInv'
<1>1. cells' \in [Cells -> SUBSET Kompetitors]
  BY DEF MatrixInv, MatrixHeld, Next, AskPage, ReadUniversal, ReadPairs, Allow,
         MatchProduct, MatchEnds, PageColumns, AskCell, ReadRawUniversal, ReadRawPair,
         Answered, QueryFails, Reset, EditCell, Finished, vars
<1>2. CASE EditCell
  <2>1. PICK c \in Cells, stores \in SUBSET Kompetitors :
          /\ cells' = [cells EXCEPT ![c] = stores]
          /\ held' = [held EXCEPT ![c] = @ \cup {stores}]
          /\ step' = step
    BY <1>2 DEF EditCell, request
  <2>2. held' \in [Cells -> SUBSET SUBSET Kompetitors]
        /\ \A d \in Cells : held[d] \subseteq held'[d]
    BY <2>1 DEF MatrixInv, MatrixHeld
  <2>3. turn # "idle" => \A d \in Cells : cells'[d] \in held'[d]
    BY <2>1 DEF MatrixInv, MatrixHeld
  <2>4. MatrixHeld'
    BY <1>1, <2>1, <2>2, <2>3 DEF MatrixInv, MatrixHeld, matrixVars
  <2>5. CountsShown'
    BY <2>2, CellKinds DEF MatrixInv, CountsShown, matrixVars
  <2>6. AxesFilled'
    BY <2>2 DEF MatrixInv, AxesFilled, matrixVars
  <2> QED
    BY <2>4, <2>5, <2>6 DEF MatrixInv, MatrixTypeOK, matrixVars
<1>3. CASE ~EditCell /\ turn # "idle"
  <2>1. cells' = cells /\ held' = held /\ step' = step
    BY <1>3 DEF MatrixInv, MatrixHeld, Next, AskPage, AskCell, Receive, ReadUniversal,
       ReadPairs, Allow, MatchProduct, MatchEnds, PageColumns, ReadRawUniversal,
       ReadRawPair, Answered, QueryFails, Reset, Finished, At, vars, request
  <2> QED
    BY <2>1 DEF MatrixInv, MatrixTypeOK, MatrixHeld, CountsShown, AxesFilled, matrixVars
<1>4. CASE turn = "idle"
  <2>1. held' \in [Cells -> SUBSET SUBSET Kompetitors]
    <3>1. CASE ~EditCell
      BY <1>1, <3>1 DEF MatrixInv, MatrixHeld, Next, AskPage, AskCell, Receive,
       ReadUniversal, ReadPairs, Allow, MatchProduct, MatchEnds, PageColumns,
       ReadRawUniversal, ReadRawPair, Answered, QueryFails, Reset, Finished, vars
    <3> QED
      BY <1>2, <3>1 DEF MatrixInv, MatrixHeld
  <2> QED
    BY <1>1, <1>4, <2>1 DEF MatrixInv, MatrixTypeOK, MatrixHeld, CountsShown,
                            AxesFilled, Counting, Shown, matrixVars
<1> QED
  BY <1>2, <1>3, <1>4

\* The ids of a filter that are rows.
LEMMA Filtered ==
    ASSUME NEW ids, NEW rows
    PROVE  /\ Filter(ids, rows) \subseteq rows
           /\ ids # {} => Filter(ids, rows) = ids \cap rows
BY DEF Filter

\* A statement of the matrix finds what the next ones rely on.
LEMMA MatrixMoves ==
    ASSUME MatrixInv, MatrixStep
    PROVE  MatrixInv'
<1>1. /\ turn \in Turns /\ matrix \in Matrices /\ MatrixTypeOK /\ MatrixHeld
      /\ CountsShown /\ AxesFilled
  BY DEF MatrixInv, MatrixTypeOK
<1>2. CASE AskMatrix
  <2>1. PICK brands \in SUBSET Brands, kategoris \in SUBSET Kategoris :
          matrix' = [NoMatrix EXCEPT !.askedBrands = brands,
                                     !.askedKategoris = kategoris]
    BY <1>2 DEF AskMatrix
  <2>2. MatrixTypeOK' /\ turn' = "usedBrands"
    BY <1>2, <2>1 DEF AskMatrix, MatrixTypeOK, Matrices, NoMatrix, Turns
  <2>3. MatrixHeld'
    BY <1>1, <1>2 DEF AskMatrix, MatrixHeld, At, request
  <2> QED
    BY <2>2, <2>3 DEF MatrixInv, CountsShown, AxesFilled, Counting, Shown
<1>3. ASSUME UNCHANGED vars, MatrixTypeOK', turn # "idle", CountsShown', AxesFilled'
      PROVE  MatrixInv'
  BY <1>1, <1>3 DEF MatrixInv, MatrixHeld, vars, request
<1>4. CASE ShowMatrix \/ MatrixFails
  <2>1. turn' = "idle" /\ matrix' = NoMatrix /\ turn # "idle" /\ UNCHANGED vars
    BY <1>4 DEF ShowMatrix, MatrixFails, Turned
  <2>2. MatrixTypeOK'
    BY <2>1 DEF MatrixTypeOK, Matrices, NoMatrix, Turns
  <2> QED
    BY <1>3, <2>1, <2>2 DEF CountsShown, AxesFilled, Counting, Shown
<1>5. ASSUME NEW from \in Turns \ {"idle"}, NEW to \in Turns, NEW m,
             Turned(from, to, m)
      PROVE  /\ turn = from /\ turn # "idle" /\ turn' = to /\ matrix' = m
             /\ UNCHANGED vars /\ held' = held
             /\ m \in Matrices => MatrixTypeOK'
             /\ \A c \in Cells : cells[c] \in held[c] /\ cells[c] \in SUBSET Kompetitors
  BY <1>1, <1>5 DEF Turned, MatrixTypeOK, MatrixHeld, vars
<1>6. CASE UsedBrands
  <2> DEFINE m == [matrix EXCEPT !.brands = {c[2] : c \in Filled}]
  <2>1. Turned("usedBrands", "usedKategoris", m)
    BY <1>6 DEF UsedBrands
  <2>2. \A c \in Filled : c \in Cells /\ c[2] \in Brands
    BY CellKinds DEF Filled
  <2>3. m \in Matrices /\ m.brands = {c[2] : c \in Filled}
    BY <1>1, <2>2 DEF Matrices
  <2> HIDE DEF m
  <2>4. /\ turn # "idle" /\ turn' = "usedKategoris" /\ matrix' = m /\ UNCHANGED vars
        /\ MatrixTypeOK' /\ held' = held
        /\ \A c \in Cells : cells[c] \in held[c]
    BY <1>5, <2>1, <2>3 DEF Turns
  <2>5. AxesFilled'
    BY <2>3, <2>4 DEF AxesFilled, Filled, Counting, Shown
  <2>6. CountsShown'
    BY <2>4 DEF CountsShown, Counting, Shown
  <2> QED
    BY <1>3, <2>4, <2>5, <2>6
<1>7. CASE UsedKategoris
  <2> DEFINE used == {c[1] : c \in Filled \cap Specific}
             brands == IF matrix.askedBrands = {} THEN matrix.brands
                                                  ELSE matrix.askedBrands
             kategoris == IF matrix.askedKategoris = {} THEN used
                                                        ELSE matrix.askedKategoris
             m == [matrix EXCEPT !.brands = brands, !.kategoris = kategoris]
             to == IF m.brands # {} THEN "brands"
                   ELSE IF m.kategoris # {} THEN "kategoris" ELSE "counts"
  <2>1. Turned("usedKategoris", to, m)
    BY <1>7 DEF UsedKategoris
  <2>2. /\ brands \in SUBSET Brands /\ kategoris \in SUBSET Kategoris
        /\ matrix.askedBrands = {} => brands = matrix.brands
        /\ matrix.askedKategoris = {} => kategoris = used
    <3>1. \A c \in Filled \cap Specific : c[1] \in Kategoris
      BY CellKinds
    <3> QED
      BY <1>1, <3>1 DEF Matrices
  <2> HIDE DEF brands, kategoris
  <2>3. /\ m \in Matrices
        /\ m.askedBrands = matrix.askedBrands
        /\ m.askedKategoris = matrix.askedKategoris
        /\ m.askedBrands = {} => m.brands = matrix.brands
        /\ m.askedKategoris = {} => m.kategoris = used
    BY <1>1, <2>2 DEF Matrices
  <2>4. to \in {"brands", "kategoris", "counts"} /\ (to # "brands" => m.brands = {})
    OBVIOUS
  <2> HIDE DEF m, to
  <2>5. /\ turn = "usedKategoris" /\ turn' = to /\ matrix' = m /\ UNCHANGED vars
        /\ MatrixTypeOK' /\ held' = held
        /\ \A c \in Cells : cells[c] \in held[c]
    BY <1>5, <2>1, <2>3, <2>4 DEF Turns
  <2>6. AxesFilled'
    <3> SUFFICES ASSUME m.askedBrands = {}, m.askedKategoris = {}, NEW c \in Cells,
                        {} \notin held[c], c[2] \notin Suspended
                 PROVE  /\ c[2] \in m.brands
                        /\ c \in Specific => c[1] \in m.kategoris
      BY <2>4, <2>5 DEF AxesFilled, Counting, Shown
    <3>1. c[2] \in matrix.brands
      BY <1>1, <2>3, <2>5 DEF AxesFilled
    <3>2. c \in Filled
      BY <2>5 DEF Filled
    <3> QED
      BY <2>3, <3>1, <3>2
  <2>7. CountsShown'
    BY <2>4, <2>5 DEF CountsShown, Counting, Shown
  <2> QED
    BY <1>3, <2>5, <2>6, <2>7
<1>8. CASE ListBrands
  <2> DEFINE m == [matrix EXCEPT !.brands = Filter(@, Brands \ Suspended)]
             to == IF matrix.kategoris # {} THEN "kategoris" ELSE "counts"
  <2>1. Turned("brands", to, m)
    BY <1>8 DEF ListBrands
  <2>2. /\ m \in Matrices
        /\ m.askedBrands = matrix.askedBrands
        /\ m.askedKategoris = matrix.askedKategoris
        /\ m.kategoris = matrix.kategoris
        /\ m.brands = Filter(matrix.brands, Brands \ Suspended)
    BY <1>1, Filtered DEF Matrices
  <2>3. to \in {"kategoris", "counts"}
    OBVIOUS
  <2> HIDE DEF m, to
  <2>4. /\ turn = "brands" /\ turn' = to /\ matrix' = m /\ UNCHANGED vars
        /\ MatrixTypeOK' /\ held' = held
    BY <1>5, <2>1, <2>2, <2>3 DEF Turns
  <2>5. AxesFilled'
    <3> SUFFICES ASSUME m.askedBrands = {}, m.askedKategoris = {}, NEW c \in Cells,
                        {} \notin held[c], c[2] \notin Suspended
                 PROVE  /\ c[2] \in m.brands
                        /\ c \in Specific => c[1] \in m.kategoris
      BY <2>3, <2>4 DEF AxesFilled, Counting, Shown
    <3>1. c[2] \in matrix.brands /\ (c \in Specific => c[1] \in matrix.kategoris)
      BY <1>1, <2>2, <2>4 DEF AxesFilled
    <3>2. c[2] \in Brands
      BY CellKinds
    <3> QED
      BY <2>2, <3>1, <3>2 DEF Filter
  <2>6. m.brands \cap Suspended = {}
    BY <2>2 DEF Filter
  <2>7. CountsShown'
    BY <2>3, <2>4, <2>6 DEF CountsShown, Counting, Shown
  <2> QED
    BY <1>3, <2>4, <2>5, <2>7
<1>9. CASE ListKategoris
  <2> DEFINE m == [matrix EXCEPT !.kategoris = Filter(@, Kategoris)]
  <2>1. Turned("kategoris", "counts", m)
    BY <1>9 DEF ListKategoris
  <2>2. /\ m \in Matrices
        /\ m.askedBrands = matrix.askedBrands
        /\ m.askedKategoris = matrix.askedKategoris
        /\ m.kategoris = Filter(matrix.kategoris, Kategoris)
        /\ m.brands = matrix.brands
    BY <1>1, Filtered DEF Matrices
  <2> HIDE DEF m
  <2>3. /\ turn = "kategoris" /\ turn' = "counts" /\ matrix' = m /\ UNCHANGED vars
        /\ MatrixTypeOK' /\ held' = held
    BY <1>5, <2>1, <2>2 DEF Turns
  <2>4. AxesFilled'
    <3> SUFFICES ASSUME m.askedBrands = {}, m.askedKategoris = {}, NEW c \in Cells,
                        {} \notin held[c], c[2] \notin Suspended
                 PROVE  /\ c[2] \in m.brands
                        /\ c \in Specific => c[1] \in m.kategoris
      BY <2>3 DEF AxesFilled, Counting, Shown
    <3>1. c[2] \in matrix.brands /\ (c \in Specific => c[1] \in matrix.kategoris)
      BY <1>1, <2>2, <2>3 DEF AxesFilled
    <3> QED
      BY <2>2, <3>1, CellKinds DEF Filter
  <2>5. CountsShown'
    BY <1>1, <2>2, <2>3 DEF CountsShown, Counting, Shown
  <2> QED
    BY <1>3, <2>3, <2>4, <2>5
<1>10. CASE CountCells
  <2> DEFINE brands    == Filter(matrix.brands, Brands)
             kategoris == Filter(matrix.kategoris, Kategoris)
             counts    == [c \in Specific |->
                             IF c[1] \in kategoris /\ c[2] \in brands
                             THEN Cardinality(cells[c]) ELSE 0]
             m == [matrix EXCEPT !.counts = counts]
  <2>1. Turned("counts", "universalCounts", m)
    BY <1>10 DEF CountCells
  <2>2. \A c \in Specific : Cardinality(cells[c]) \in Nat
                              /\ (Cardinality(cells[c]) = 0 <=> cells[c] = {})
    BY <1>1, Sizes, CellKinds DEF MatrixHeld
  <2>3. counts \in [Specific -> Nat]
    BY <2>2
  <2> HIDE DEF counts, brands, kategoris
  <2>4. /\ m \in Matrices
        /\ m.askedBrands = matrix.askedBrands
        /\ m.askedKategoris = matrix.askedKategoris
        /\ m.kategoris = matrix.kategoris /\ m.brands = matrix.brands
        /\ m.counts = counts
    BY <1>1, <2>3 DEF Matrices
  <2> HIDE DEF m
  <2>5. /\ turn = "counts" /\ turn' = "universalCounts" /\ matrix' = m
        /\ UNCHANGED vars /\ MatrixTypeOK' /\ held' = held
        /\ \A c \in Cells : cells[c] \in held[c]
    BY <1>5, <2>1, <2>4 DEF Turns
  <2>6. AxesFilled'
    <3> SUFFICES ASSUME m.askedBrands = {}, m.askedKategoris = {}, NEW c \in Cells,
                        {} \notin held[c], c[2] \notin Suspended
                 PROVE  /\ c[2] \in m.brands
                        /\ c \in Specific => c[1] \in m.kategoris /\ m.counts[c] # 0
      BY <2>5 DEF AxesFilled, Counting, Shown
    <3>1. c[2] \in matrix.brands /\ (c \in Specific => c[1] \in matrix.kategoris)
      BY <1>1, <2>4, <2>5 DEF AxesFilled, Counting
    <3>2. cells[c] # {}
      BY <2>5
    <3>3. ASSUME c \in Specific PROVE counts[c] # 0
      <4>1. c[1] \in kategoris /\ c[2] \in brands
        BY <3>1, <3>3, CellKinds DEF Filter, kategoris, brands
      <4> QED
        BY <2>2, <3>2, <3>3, <4>1 DEF counts
    <3> QED
      BY <2>4, <3>1, <3>3
  <2>7. ASSUME NEW c \in Specific, counts[c] # 0
        PROVE  /\ \E list \in held[c] : counts[c] = Cardinality(list)
               /\ matrix.kategoris # {} => c[1] \in matrix.kategoris
               /\ matrix.brands # {} => c[2] \in matrix.brands
    <3>1. c[1] \in kategoris /\ c[2] \in brands /\ counts[c] = Cardinality(cells[c])
      BY <2>7 DEF counts
    <3>2. cells[c] \in held[c]
      BY <2>5, CellKinds
    <3> QED
      BY <3>1, <3>2 DEF Filter, kategoris, brands
  <2>8. CountsShown'
    BY <1>1, <2>4, <2>5, <2>7 DEF CountsShown, Counting, Shown
  <2> QED
    BY <1>3, <2>5, <2>6, <2>8
<1>11. CASE CountUniversal
  <2> DEFINE brands == Filter(matrix.brands, Brands)
             counts == [b \in Brands |-> IF b \in brands
                                         THEN Cardinality(cells[<<None, b>>]) ELSE 0]
             m == [matrix EXCEPT !.universal = counts]
  <2>1. Turned("universalCounts", "shown", m)
    BY <1>11 DEF CountUniversal
  <2>2. \A b \in Brands :
          /\ Cardinality(cells[<<None, b>>]) \in Nat
          /\ Cardinality(cells[<<None, b>>]) = 0 <=> cells[<<None, b>>] = {}
    BY <1>1, Sizes, CellKinds DEF MatrixHeld
  <2>3. counts \in [Brands -> Nat]
    BY <2>2
  <2> HIDE DEF counts, brands
  <2>4. /\ m \in Matrices
        /\ m.askedBrands = matrix.askedBrands
        /\ m.askedKategoris = matrix.askedKategoris
        /\ m.kategoris = matrix.kategoris /\ m.brands = matrix.brands
        /\ m.counts = matrix.counts /\ m.universal = counts
    BY <1>1, <2>3 DEF Matrices
  <2> HIDE DEF m
  <2>5. /\ turn = "universalCounts" /\ turn' = "shown" /\ matrix' = m
        /\ UNCHANGED vars /\ MatrixTypeOK' /\ held' = held
        /\ \A c \in Cells : cells[c] \in held[c]
    BY <1>5, <2>1, <2>4 DEF Turns
  <2>6. AxesFilled'
    <3> SUFFICES ASSUME m.askedBrands = {}, m.askedKategoris = {}, NEW c \in Cells,
                        {} \notin held[c], c[2] \notin Suspended
                 PROVE  /\ c[2] \in m.brands
                        /\ c \in Specific => c[1] \in m.kategoris /\ m.counts[c] # 0
                        /\ c \notin Specific => m.universal[c[2]] # 0
      BY <2>5 DEF AxesFilled, Counting, Shown
    <3>1. /\ c[2] \in matrix.brands
          /\ c \in Specific => c[1] \in matrix.kategoris /\ matrix.counts[c] # 0
      BY <1>1, <2>4, <2>5 DEF AxesFilled, Counting, Shown
    <3>2. cells[c] # {}
      BY <2>5
    <3>3. ASSUME c \notin Specific PROVE counts[c[2]] # 0
      <4>1. c = <<None, c[2]>> /\ c[2] \in Brands
        BY <3>3, CellKinds
      <4>2. c[2] \in brands
        BY <3>1, <4>1 DEF Filter, brands
      <4>3. Cardinality(cells[<<None, c[2]>>]) # 0
        BY <2>2, <3>2, <4>1
      <4> QED
        BY <4>1, <4>2, <4>3 DEF counts
    <3> QED
      BY <2>4, <3>1, <3>3
  <2>7. ASSUME NEW b \in Brands, counts[b] # 0
        PROVE  /\ \E list \in held[<<None, b>>] : counts[b] = Cardinality(list)
               /\ matrix.brands # {} => b \in matrix.brands
    <3>1. b \in brands /\ counts[b] = Cardinality(cells[<<None, b>>])
      BY <2>7 DEF counts
    <3>2. cells[<<None, b>>] \in held[<<None, b>>]
      BY <2>5, CellKinds
    <3> QED
      BY <3>1, <3>2 DEF Filter, brands
  <2>8. CountsShown'
    BY <1>1, <2>4, <2>5, <2>7 DEF CountsShown, Counting, Shown
  <2> QED
    BY <1>3, <2>5, <2>6, <2>8
<1> QED
  BY <1>2, <1>4, <1>6, <1>7, <1>8, <1>9, <1>10, <1>11 DEF MatrixStep

\* A matrix that nobody asked for promises nothing.
LEMMA InitMatrixInv == MatrixInit => MatrixInv
<1> SUFFICES ASSUME MatrixInit PROVE MatrixInv
  OBVIOUS
<1>1. MatrixTypeOK
  BY DEF MatrixInit, MatrixTypeOK, Matrices, NoMatrix, Turns
<1>2. MatrixHeld
  BY DEF MatrixInit, Init, MatrixHeld
<1> QED
  BY <1>1, <1>2 DEF MatrixInit, MatrixInv, CountsShown, AxesFilled, Counting, Shown

\* The steps of Matching and those of the matrix keep the invariant.
LEMMA MatrixInvStep == MatrixInv /\ [MatrixNext]_<<vars, matrixVars>> => MatrixInv'
<1>1. MatrixInv /\ UNCHANGED <<vars, matrixVars>> => MatrixInv'
  BY DEF MatrixInv, MatrixTypeOK, MatrixHeld, CountsShown, AxesFilled, vars, matrixVars,
         request
<1> QED
  BY <1>1, MatrixMoves, MatrixBystander DEF MatrixNext

-----------------------------------------------------------------------------
(* Margins: what the calculator does with its numbers.                     *)

\* Among some numbers one is the least.
LEMMA LeastNumber ==
    ASSUME NEW T \in SUBSET Nat, T # {}
    PROVE  \E n \in T : \A o \in T : n <= o
<1>1. OpToRel(<, Nat) = {ss \in Nat \X Nat : ss[1] < ss[2]}
  BY DEF OpToRel
<1> DEFINE R == {ss \in Nat \X Nat : ss[1] < ss[2]}
<1>2. IsWellFoundedOn(R, Nat)
  BY <1>1, NatLessThanWellFounded
<1>3. PICK n \in T : \A o \in T : <<o, n>> \notin R
  <2> HIDE DEF R
  <2> QED
    BY <1>2, WFMin
<1>4. \A o \in T : ~(o < n)
  BY <1>3
<1> QED
  BY <1>4

\* The sum of some rows is a number.
LEMMA SumOfRows ==
    ASSUME NEW s \in Seq(Nat), NEW L \in Nat, L = Len(s),
           NEW sum, sum = CHOOSE f : f = [n \in 0..L |-> IF n = 0 THEN 0
                                                         ELSE f[n - 1] + s[n]]
    PROVE  sum[L] \in Nat
<1> DEFINE Row(f, m) == [n \in 0..m |-> IF n = 0 THEN 0 ELSE f[n - 1] + s[n]]
           Good(m) == \E f \in [0..m -> Nat] : f = Row(f, m)
           T == {m \in 0..L : ~Good(m)}
<1>1. T = {}
  <2> SUFFICES ASSUME T # {} PROVE FALSE
    OBVIOUS
  <2>0. T \in SUBSET Nat
    OBVIOUS
  <2>1. PICK m \in T : \A o \in T : m <= o
    <3> HIDE DEF T
    <3> QED
      BY <2>0, LeastNumber
  <2>2. m \in 0..L /\ ~Good(m)
    OBVIOUS
  <2>3. m # 0
    <3> DEFINE f == [n \in 0..0 |-> 0]
    <3>1. f \in [0..0 -> Nat] /\ f = Row(f, 0)
      OBVIOUS
    <3> QED
      BY <2>2, <3>1
  <2>4. m - 1 \in 0..L /\ m - 1 \notin T /\ m \in 1..L /\ m \in Nat
    <3>1. m - 1 \in 0..L /\ m \in 1..L /\ m \in Nat
      BY <2>2, <2>3
    <3> HIDE DEF T
    <3>2. m - 1 \notin T
      BY <2>1, <3>1
    <3> QED
      BY <3>1, <3>2
  <2>5. PICK h \in [0..(m - 1) -> Nat] : h = Row(h, m - 1)
    BY <2>4
  <2> DEFINE f == [n \in 0..m |-> IF n = m THEN h[m - 1] + s[m] ELSE h[n]]
  <2>6. s[m] \in Nat
    BY <2>4
  <2>7. f \in [0..m -> Nat]
    BY <2>4, <2>5, <2>6
  <2>8. \A n \in 0..m : f[n] = IF n = 0 THEN 0 ELSE f[n - 1] + s[n]
    <3> TAKE n \in 0..m
    <3>1. CASE n = m
      <4>1. n - 1 \in 0..m /\ n - 1 # m /\ n # 0
        BY <2>4, <3>1
      <4> QED
        BY <3>1, <4>1
    <3>2. CASE n # m /\ n = 0
      <4>1. 0 \in 0..(m - 1) /\ 0 \in 0..m /\ f[n] = h[0]
        BY <2>4, <3>2
      <4>2. h[0] = 0
        BY <2>5, <4>1
      <4> QED
        BY <3>2, <4>1, <4>2
    <3>3. CASE n # m /\ n # 0
      <4>1. n \in 0..(m - 1) /\ n - 1 \in 0..m /\ n - 1 # m
        BY <2>4, <3>3
      <4>2. h[n] = h[n - 1] + s[n]
        BY <2>5, <3>3, <4>1
      <4> QED
        BY <3>3, <4>1, <4>2
    <3> QED
      BY <3>1, <3>2, <3>3
  <2>9. f = Row(f, m)
    <3> HIDE DEF f
    <3> QED
      BY <2>7, <2>8
  <2> QED
    BY <2>2, <2>7, <2>9
<1>2. sum = Row(sum, L)
  <2>1. L \in 0..L /\ L \notin T
    <3> HIDE DEF T
    <3> QED
      BY <1>1
  <2>2. PICK f \in [0..L -> Nat] : f = Row(f, L)
    BY <2>1
  <2> QED
    BY <2>2
<1> DEFINE U == {n \in 0..L : sum[n] \notin Nat}
<1>3. U = {}
  <2> SUFFICES ASSUME U # {} PROVE FALSE
    OBVIOUS
  <2>0. U \in SUBSET Nat
    OBVIOUS
  <2>1. PICK n \in U : \A o \in U : n <= o
    <3> HIDE DEF U
    <3> QED
      BY <2>0, LeastNumber
  <2>2. n \in 0..L /\ sum[n] \notin Nat
    OBVIOUS
  <2>3. sum[n] = IF n = 0 THEN 0 ELSE sum[n - 1] + s[n]
    BY <1>2, <2>2
  <2>4. n # 0 /\ n - 1 \in 0..L /\ n \in 1..L
    BY <2>2, <2>3
  <2>5. sum[n - 1] \in Nat
    <3>1. n - 1 \in 0..L /\ n \in Nat
      BY <2>2, <2>4
    <3>2. n - 1 \notin U
      <4> HIDE DEF U
      <4> QED
        BY <2>1, <3>1
    <3> QED
      BY <3>1, <3>2
  <2>6. s[n] \in Nat
    BY <2>4
  <2> QED
    BY <2>2, <2>3, <2>4, <2>5, <2>6
<1> QED
  BY <1>3

\* A quotient is a whole number, and grows with what is divided.
LEMMA Quotients ==
    ASSUME NEW x \in Int, NEW y \in Int, x <= y, NEW b \in Nat \ {0}
    PROVE  /\ x \div b \in Int /\ y \div b \in Int /\ x \div b <= y \div b
           /\ x >= 0 => x \div b >= 0
<1>1. ASSUME NEW z \in Int
      PROVE  z \div b \in Int /\ b * (z \div b) <= z /\ z < b * (z \div b) + b
  OBVIOUS
<1>2. ASSUME NEW p \in Int, NEW q \in Int, p <= q PROVE b * p <= b * q
  BY <1>2
<1> DEFINE p == x \div b
           q == y \div b
<1>3. p \in Int /\ b * p <= x /\ x < b * p + b
  BY <1>1
<1>4. q \in Int /\ b * q <= y /\ y < b * q + b
  BY <1>1
<1> HIDE DEF p, q
<1>5. p <= q
  <2> SUFFICES ASSUME q + 1 <= p PROVE FALSE
    BY <1>3, <1>4
  <2>1. b * (q + 1) <= b * p
    BY <1>2, <1>3, <1>4
  <2>2. b * (q + 1) = b * q + b
    BY <1>4
  <2> QED
    BY <1>3, <1>4, <2>1, <2>2
<1>6. x >= 0 => x \div b >= 0
  OBVIOUS
<1> QED
  BY <1>3, <1>4, <1>5, <1>6 DEF p, q

\* An average cost is a number of rupiah.
LEMMA AverageType == ASSUME NEW i \in Items PROVE AverageHpp(i) \in Nat
<1> DEFINE s == HppRows[i]
           L == Len(s)
           sum == CHOOSE f : f = [n \in 0..L |-> IF n = 0 THEN 0 ELSE f[n - 1] + s[n]]
<1>1. AverageHpp(i) = IF s = <<>> THEN 0 ELSE sum[L] \div L
  BY DEF AverageHpp
<1>2. s \in Seq(Nat) /\ L \in Nat /\ (s # <<>> => L # 0)
  BY MarginsAssumption
<1>3. sum[L] \in Nat
  <2> HIDE DEF s
  <2> QED
    BY <1>2, SumOfRows
<1> HIDE DEF sum, L
<1>4. s # <<>> => sum[L] \div L \in Nat
  BY <1>2, <1>3, Quotients
<1> QED
  BY <1>1, <1>4

\* Rounding keeps the order of what is rounded.
LEMMA RoundingKeepsOrder ==
    ASSUME NEW x \in Int, NEW y \in Int, x <= y, NEW b \in Nat \ {0}
    PROVE  /\ RoundHalfAway(x, b) \in Int /\ RoundHalfAway(y, b) \in Int
           /\ RoundHalfAway(x, b) <= RoundHalfAway(y, b)
<1>0. 2 * b \in Nat \ {0}
  OBVIOUS
<1>1. CASE x >= 0
  <2>1. 2 * x + b \in Int /\ 2 * y + b \in Int /\ 2 * x + b <= 2 * y + b /\ y >= 0
    BY <1>1
  <2> QED
    BY <1>0, <1>1, <2>1, Quotients DEF RoundHalfAway
<1>2. CASE x < 0 /\ y < 0
  <2>1. b - 2 * x \in Int /\ b - 2 * y \in Int /\ b - 2 * y <= b - 2 * x
    BY <1>2
  <2>2. /\ (b - 2 * x) \div (2 * b) \in Int /\ (b - 2 * y) \div (2 * b) \in Int
        /\ (b - 2 * y) \div (2 * b) <= (b - 2 * x) \div (2 * b)
    BY <1>0, <2>1, Quotients
  <2>3. /\ RoundHalfAway(x, b) = -((b - 2 * x) \div (2 * b))
        /\ RoundHalfAway(y, b) = -((b - 2 * y) \div (2 * b))
    BY <1>2 DEF RoundHalfAway
  <2> DEFINE p == (b - 2 * x) \div (2 * b)
             q == (b - 2 * y) \div (2 * b)
  <2> HIDE DEF p, q
  <2>4. p \in Int /\ q \in Int /\ q <= p /\ RoundHalfAway(x, b) = -p
        /\ RoundHalfAway(y, b) = -q
    BY <2>2, <2>3 DEF p, q
  <2> QED
    BY <2>4
<1>3. CASE x < 0 /\ y >= 0
  <2>1. b - 2 * x \in Nat /\ 2 * y + b \in Nat
    BY <1>3
  <2> DEFINE p == (b - 2 * x) \div (2 * b)
             q == (2 * y + b) \div (2 * b)
  <2>2. p \in Int /\ p >= 0 /\ q \in Int /\ q >= 0
    BY <1>0, <2>1, Quotients
  <2>3. RoundHalfAway(x, b) = -p /\ RoundHalfAway(y, b) = q
    BY <1>3 DEF RoundHalfAway
  <2> HIDE DEF p, q
  <2> QED
    BY <2>2, <2>3
<1> QED
  BY <1>1, <1>2, <1>3

\* What is left of a price p: x and y are its two fees before the second's cap.
Net(p, hpp, x, y) ==
    1000 * (p - hpp) - x - AtMost(40000000, y) - 5 * p
      - AtMost(50000000, 18 * p) - AtMost(60000000, 45 * p) - p

\* Fees are shares of the price.
LEMMA FeesGrow ==
    ASSUME NEW h \in Nat, NEW g \in Nat, g <= h, NEW r \in Nat, NEW o \in Nat,
           r + o <= 931
    PROVE  /\ h * r \in Nat /\ g * r \in Nat /\ h * o \in Nat /\ g * o \in Nat
           /\ 0 <= h * r - g * r /\ 0 <= h * o - g * o
           /\ (h * r - g * r) + (h * o - g * o) <= 931 * (h - g)
<1>1. PICK d \in Nat : h = g + d
  <2>1. h - g \in Nat /\ h = g + (h - g)
    OBVIOUS
  <2> QED
    BY <2>1
<1>2. h * r = g * r + d * r /\ h * o = g * o + d * o
  BY <1>1
<1>3. d * r \in Nat /\ d * o \in Nat /\ g * r \in Nat /\ g * o \in Nat
  OBVIOUS
<1>4. d * r + d * o <= 931 * d
  <2>1. PICK t \in 0..931 : t = r + o
    OBVIOUS
  <2>2. d * r + d * o = d * t
    BY <2>1
  <2>3. d * t <= 931 * d
    OBVIOUS
  <2> QED
    BY <2>2, <2>3
<1> DEFINE x == g * r
           y == d * r
           v == g * o
           w == d * o
           p == h * r
           q == h * o
<1>5. /\ p = x + y /\ q = v + w /\ h - g = d /\ y + w <= 931 * d
      /\ x \in Nat /\ y \in Nat /\ v \in Nat /\ w \in Nat
  BY <1>1, <1>2, <1>3, <1>4
<1> HIDE DEF x, y, v, w, p, q
<1>6. p \in Nat /\ q \in Nat /\ 0 <= p - x /\ 0 <= q - v
      /\ (p - x) + (q - v) <= 931 * d
  BY <1>5
<1> QED
  BY <1>5, <1>6 DEF x, v, p, q

\* Where the fees and the shares of the formula do not take more than there is of
\* a further rupiah, the rest of a price grows with it.
LEMMA NetGrows ==
    ASSUME NEW h \in Nat, NEW g \in Nat, g <= h, NEW hpp \in Nat,
           NEW x \in Nat, NEW y \in Nat, NEW v \in Nat, NEW w \in Nat,
           0 <= x - v, 0 <= y - w, (x - v) + (y - w) <= 931 * (h - g)
    PROVE  Net(g, hpp, v, w) <= Net(h, hpp, x, y)
BY SMT DEF Net, AtMost

\* The margin of an item, in rupiah, is what is left of its price.
LEMMA NilaiIsNet ==
    ASSUME NEW i \in Items, FeeOf[i] # None, Shopee[i] # 0, NEW hpp \in Nat,
           NEW fee \in Nat, NEW ongkir \in Nat
    PROVE  Nilai(i, hpp, fee, ongkir) =
             Net(Shopee[i], hpp, Shopee[i] * fee, Shopee[i] * ongkir)
BY SMT DEF Nilai, Net

\* It is a number, and so is the percentage of the cost.
LEMMA NilaiType ==
    ASSUME NEW i \in Items, NEW hpp \in Nat, NEW fee \in Nat, NEW ongkir \in Nat
    PROVE  Nilai(i, hpp, fee, ongkir) \in Int
<1>1. CASE FeeOf[i] = None \/ Shopee[i] = 0
  BY <1>1, SMT DEF Nilai
<1>2. CASE FeeOf[i] # None /\ Shopee[i] # 0
  <2>1. Shopee[i] \in Nat /\ Shopee[i] * fee \in Nat /\ Shopee[i] * ongkir \in Nat
    BY MarginsAssumption
  <2>2. ASSUME NEW p \in Nat, NEW x \in Nat, NEW y \in Nat
        PROVE  Net(p, hpp, x, y) \in Int
    BY SMT DEF Net, AtMost
  <2> QED
    BY <1>2, <2>1, <2>2, NilaiIsNet
<1> QED
  BY <1>1, <1>2

LEMMA MarginType ==
    ASSUME NEW i \in Items, NEW fee \in Nat, NEW ongkir \in Nat
    PROVE  Margin(i, fee, ongkir) \in Int
<1> DEFINE hpp == AverageHpp(i)
           b   == IF hpp = 0 THEN 1 ELSE hpp
           n   == Nilai(i, hpp, fee, ongkir)
<1>1. hpp \in Nat /\ b \in Nat \ {0}
  BY AverageType
<1>2. Margin(i, fee, ongkir) = RoundHalfAway(n, b)
  BY DEF Margin
<1> HIDE DEF hpp, b
<1>3. n \in Int /\ n <= n
  BY <1>1, NilaiType
<1> HIDE DEF n
<1> QED
  BY <1>1, <1>2, <1>3, RoundingKeepsOrder

\* Of two items that differ in price only, rates that leave a share of a rupiah
\* do not eat up the difference.
LEMMA NilaiGrows ==
    ASSUME NEW i \in Items, NEW j \in Items, Shopee[i] >= Shopee[j], Shopee[j] # 0,
           FeeOf[i] = FeeOf[j], NEW hpp \in Nat, NEW fee \in Nat,
           NEW ongkir \in Nat, fee + ongkir <= 931
    PROVE  Nilai(j, hpp, fee, ongkir) <= Nilai(i, hpp, fee, ongkir)
<1>1. CASE FeeOf[i] = None
  BY <1>1, SMT DEF Nilai
<1>2. CASE FeeOf[i] # None
  <2>1. /\ Shopee[i] \in Nat /\ Shopee[j] \in Nat /\ Shopee[j] <= Shopee[i]
        /\ Shopee[i] # 0
    BY MarginsAssumption
  <2> DEFINE n == Net(Shopee[i], hpp, Shopee[i] * fee, Shopee[i] * ongkir)
             m == Net(Shopee[j], hpp, Shopee[j] * fee, Shopee[j] * ongkir)
  <2>2. m <= n
    <3> DEFINE h == Shopee[i]
               g == Shopee[j]
               x == h * fee
               y == h * ongkir
               v == g * fee
               w == g * ongkir
    <3>1. /\ x \in Nat /\ v \in Nat /\ y \in Nat /\ w \in Nat
          /\ 0 <= x - v /\ 0 <= y - w
          /\ (x - v) + (y - w) <= 931 * (h - g)
      BY <2>1, FeesGrow
    <3>2. n = Net(h, hpp, x, y) /\ m = Net(g, hpp, v, w)
      OBVIOUS
    <3>3. h \in Nat /\ g \in Nat /\ g <= h
      BY <2>1
    <3> HIDE DEF n, m, h, g, x, y, v, w
    <3>4. Net(g, hpp, v, w) <= Net(h, hpp, x, y)
      BY <3>1, <3>3, NetGrows
    <3> QED
      BY <3>2, <3>4
  <2>3. Nilai(i, hpp, fee, ongkir) = n /\ Nilai(j, hpp, fee, ongkir) = m
    BY <1>2, <2>1, NilaiIsNet
  <2> HIDE DEF n, m
  <2> QED
    BY <2>2, <2>3
<1> QED
  BY <1>1, <1>2

\* Neither does the percentage of the cost.
LEMMA MarginGrows ==
    ASSUME NEW i \in Items, NEW j \in Items, Shopee[i] >= Shopee[j], Shopee[j] # 0,
           FeeOf[i] = FeeOf[j], AverageHpp(i) = AverageHpp(j),
           NEW fee \in Nat, NEW ongkir \in Nat, fee + ongkir <= 931
    PROVE  Margin(j, fee, ongkir) <= Margin(i, fee, ongkir)
<1> DEFINE hpp == AverageHpp(i)
           b   == IF hpp = 0 THEN 1 ELSE hpp
<1>1. hpp \in Nat /\ b \in Nat \ {0}
  BY AverageType
<1>2. /\ Margin(i, fee, ongkir) = RoundHalfAway(Nilai(i, hpp, fee, ongkir), b)
      /\ Margin(j, fee, ongkir) = RoundHalfAway(Nilai(j, hpp, fee, ongkir), b)
  BY DEF Margin
<1> HIDE DEF hpp, b
<1> DEFINE n == Nilai(i, hpp, fee, ongkir)
           m == Nilai(j, hpp, fee, ongkir)
<1>3. n \in Int /\ m \in Int /\ m <= n
  BY <1>1, NilaiType, NilaiGrows
<1> HIDE DEF n, m
<1>4. RoundHalfAway(m, b) <= RoundHalfAway(n, b)
  BY <1>1, <1>3, RoundingKeepsOrder
<1> QED
  BY <1>2, <1>4 DEF n, m

-----------------------------------------------------------------------------
(* Margins: the rows of a page.                                            *)

\* A rate that was read is one its fee has had.
RatesHeld ==
    \A f \in Fees : /\ rates[f] \in heldRates[f]
                    /\ feeCache[f] # NotRead => feeCache[f] \in heldRates[f]

\* A row that is built keeps the rates it was built from in the cache.
RowsPriced ==
    \A i \in Items : margins[i] # Unpriced =>
        /\ Shopee[i] # 0
        /\ \A f \in FeesOf(i) : feeCache[f] # NotRead
        /\ margins[i] =
             <<Margin(i, Rate("shopee", FeeOf[i]), Rate("ongkir", OngkirOf[i]))>>

FeesForgotten == step = "idle" => feeCache = NoFees /\ margins = NoMargins

MarginsInv == MarginsTypeOK /\ FeesForgotten /\ RatesHeld /\ RowsPriced

\* The fees of an item, and what their rates are once they are read.
LEMMA FeesRead ==
    ASSUME NEW i \in Items, feeCache \in [Fees -> Rates \cup {NotRead}],
           \A f \in FeesOf(i) : feeCache[f] # NotRead
    PROVE  /\ FeeOf[i] # None => /\ <<"shopee", FeeOf[i]>> \in FeesOf(i)
                                 /\ <<"shopee", FeeOf[i]>> \in Fees
           /\ OngkirOf[i] # None => /\ <<"ongkir", OngkirOf[i]>> \in FeesOf(i)
                                    /\ <<"ongkir", OngkirOf[i]>> \in Fees
           /\ Rate("shopee", FeeOf[i]) \in Nat
           /\ Rate("ongkir", OngkirOf[i]) \in Nat
<1>1. /\ FeeOf[i] # None => <<"shopee", FeeOf[i]>> \in Fees
      /\ OngkirOf[i] # None => <<"ongkir", OngkirOf[i]>> \in Fees
  BY DEF Fees
<1>2. /\ FeeOf[i] # None => <<"shopee", FeeOf[i]>> \in FeesOf(i)
      /\ OngkirOf[i] # None => <<"ongkir", OngkirOf[i]>> \in FeesOf(i)
  BY <1>1 DEF FeesOf
<1>3. /\ FeeOf[i] # None => feeCache[<<"shopee", FeeOf[i]>>] \in Nat
      /\ OngkirOf[i] # None => feeCache[<<"ongkir", OngkirOf[i]>>] \in Nat
  BY <1>1, <1>2, MarginsAssumption
<1> QED
  BY <1>1, <1>2, <1>3 DEF Rate

\* Before the first request nothing is cached.
LEMMA InitMarginsInv == MarginsInit => MarginsInv
<1> SUFFICES ASSUME MarginsInit PROVE MarginsInv
  OBVIOUS
<1>1. MarginsTypeOK
  BY MarginsAssumption DEF MarginsInit, MarginsTypeOK, NoFees, NoMargins, Unpriced
<1>2. FeesForgotten /\ RatesHeld /\ RowsPriced
  BY DEF MarginsInit, FeesForgotten, RatesHeld, RowsPriced, NoFees, NoMargins
<1> QED
  BY <1>1, <1>2 DEF MarginsInv

\* Lookups, rows, edits of rates and everything else keep the invariant.
LEMMA MarginsInvStep ==
    MarginsInv /\ [MarginsNext]_<<vars, matrixVars, feeVars>> => MarginsInv'
<1> SUFFICES ASSUME MarginsInv, [MarginsNext]_<<vars, matrixVars, feeVars>>
             PROVE  MarginsInv'
  OBVIOUS
<1>1. MarginsTypeOK /\ FeesForgotten /\ RatesHeld /\ RowsPriced
  BY DEF MarginsInv
\* Rows and fees that are left alone stay as they are.
<1>2. ASSUME UNCHANGED <<rates, feeCache, margins>>,
             \/ heldRates' = heldRates
             \/ feeCache = NoFees /\ heldRates' = [f \in Fees |-> {rates[f]}],
             step' = "idle" => step = "idle"
      PROVE  MarginsInv'
  <2>1. MarginsTypeOK'
    BY <1>1, <1>2 DEF MarginsTypeOK
  <2>2. RatesHeld'
    BY <1>1, <1>2 DEF RatesHeld, NoFees
  <2>3. FeesForgotten' /\ RowsPriced'
    BY <1>1, <1>2 DEF FeesForgotten, RowsPriced, Rate
  <2> QED
    BY <2>1, <2>2, <2>3 DEF MarginsInv
\* A page that ends takes its rows and fees with it.
<1>3. ASSUME ForgetPage, rates' = rates, heldRates' = heldRates
      PROVE  MarginsInv'
  <2>1. MarginsTypeOK'
    BY <1>1, <1>3 DEF MarginsTypeOK, ForgetPage, NoFees, NoMargins, Unpriced
  <2>2. FeesForgotten' /\ RatesHeld' /\ RowsPriced'
    BY <1>1, <1>3 DEF FeesForgotten, RatesHeld, RowsPriced, ForgetPage, NoFees, NoMargins
  <2> QED
    BY <2>1, <2>2 DEF MarginsInv
<1>4. CASE Elsewhere
  <2>1. rates' = rates
    BY <1>4 DEF Elsewhere
  <2>2. CASE step # "idle" /\ step' = "idle"
    BY <1>3, <1>4, <2>1, <2>2 DEF Elsewhere, At
  <2>3. CASE step = "idle" /\ step' # "idle"
    BY <1>1, <1>2, <1>4, <2>1, <2>3 DEF Elsewhere, At, FeesForgotten
  <2>4. CASE step' = "idle" <=> step = "idle"
    BY <1>2, <1>4, <2>1, <2>4 DEF Elsewhere, At
  <2> QED
    BY <2>2, <2>3, <2>4
<1>5. ASSUME NEW i \in Items, LookUpFee(i) PROVE MarginsInv'
  <2>1. PICK f \in Missing(i) :
          /\ At("answered") /\ feeCache' = [feeCache EXCEPT ![f] = rates[f]]
          /\ UNCHANGED <<vars, matrixVars, rates, margins, heldRates>>
    BY <1>5 DEF LookUpFee, Building
  <2>2. /\ f \in Fees /\ feeCache[f] = NotRead /\ rates[f] # NotRead
        /\ step # "idle" /\ step' = step /\ rates' = rates /\ margins' = margins
        /\ heldRates' = heldRates
    BY <1>1, <2>1, MarginsAssumption
       DEF Missing, FeesOf, At, vars, request, MarginsTypeOK, NotRead
  <2>3. MarginsTypeOK'
    BY <1>1, <2>1, <2>2 DEF MarginsTypeOK
  <2>4. RatesHeld'
    BY <1>1, <2>1, <2>2 DEF MarginsTypeOK, RatesHeld
  <2>5. RowsPriced'
    <3> SUFFICES ASSUME NEW j \in Items, margins[j] # Unpriced
                 PROVE  /\ Shopee[j] # 0
                        /\ \A g \in FeesOf(j) : feeCache'[g] # NotRead
                        /\ margins[j] = <<Margin(j, Rate("shopee", FeeOf[j])',
                                                    Rate("ongkir", OngkirOf[j])')>>
      BY <2>2 DEF RowsPriced, Rate
    <3>1. /\ Shopee[j] # 0 /\ \A g \in FeesOf(j) : feeCache[g] # NotRead
          /\ margins[j] = <<Margin(j, Rate("shopee", FeeOf[j]),
                                       Rate("ongkir", OngkirOf[j]))>>
          /\ feeCache \in [Fees -> Rates \cup {NotRead}]
      BY <1>1 DEF RowsPriced, MarginsTypeOK
    <3>2. \A g \in FeesOf(j) : feeCache'[g] = feeCache[g]
      BY <2>1, <2>2, <3>1 DEF FeesOf
    <3>3. /\ Rate("shopee", FeeOf[j])' = Rate("shopee", FeeOf[j])
          /\ Rate("ongkir", OngkirOf[j])' = Rate("ongkir", OngkirOf[j])
      BY <3>1, <3>2, FeesRead DEF Rate
    <3> QED
      BY <3>1, <3>2, <3>3
  <2> QED
    BY <2>2, <2>3, <2>4, <2>5 DEF MarginsInv, FeesForgotten
<1>6. ASSUME NEW i \in Items, LookUpFails(i) PROVE MarginsInv'
  BY <1>3, <1>6 DEF LookUpFails
<1>7. ASSUME NEW i \in Items, PriceRow(i) PROVE MarginsInv'
  <2> DEFINE new == Margin(i, Rate("shopee", FeeOf[i]), Rate("ongkir", OngkirOf[i]))
  <2>1. /\ At("answered") /\ i \in RowsLeft /\ Missing(i) = {}
        /\ margins' = [margins EXCEPT ![i] = <<new>>]
        /\ UNCHANGED <<vars, matrixVars, rates, feeCache, heldRates>>
    BY <1>7 DEF PriceRow, Building
  <2>2. /\ Shopee[i] # 0 /\ \A f \in FeesOf(i) : feeCache[f] # NotRead
        /\ step # "idle" /\ step' = step /\ rates' = rates /\ feeCache' = feeCache
        /\ heldRates' = heldRates
    BY <2>1 DEF RowsLeft, Missing, At, vars, request
  <2>3. new \in Int
    <3>1. Rate("shopee", FeeOf[i]) \in Nat /\ Rate("ongkir", OngkirOf[i]) \in Nat
      BY <1>1, <2>2, FeesRead DEF MarginsTypeOK
    <3> QED
      BY <3>1, MarginType
  <2> HIDE DEF new
  <2>5. MarginsTypeOK'
    BY <1>1, <2>1, <2>2, <2>3 DEF MarginsTypeOK
  <2>6. RatesHeld'
    BY <1>1, <2>2 DEF RatesHeld
  <2>7. RowsPriced'
    <3> SUFFICES ASSUME NEW j \in Items, margins'[j] # Unpriced
                 PROVE  /\ Shopee[j] # 0
                        /\ \A g \in FeesOf(j) : feeCache[g] # NotRead
                        /\ margins'[j] = <<Margin(j, Rate("shopee", FeeOf[j]),
                                                     Rate("ongkir", OngkirOf[j]))>>
      BY <2>2 DEF RowsPriced, Rate
    <3>1. CASE j = i
      BY <1>1, <2>1, <2>2, <3>1 DEF MarginsTypeOK, new
    <3>2. CASE j # i
      <4>1. margins'[j] = margins[j]
        BY <1>1, <2>1, <3>2 DEF MarginsTypeOK
      <4> QED
        BY <1>1, <4>1 DEF RowsPriced
    <3> QED
      BY <3>1, <3>2
  <2> QED
    BY <2>2, <2>5, <2>6, <2>7 DEF MarginsInv, FeesForgotten
<1>8. ASSUME NEW f \in Fees, EditRate(f) PROVE MarginsInv'
  <2>1. PICK rate \in Rates :
          /\ rates' = [rates EXCEPT ![f] = rate]
          /\ heldRates' = [heldRates EXCEPT ![f] = @ \cup {rate}]
          /\ feeCache' = feeCache /\ margins' = margins /\ step' = step
    BY <1>8 DEF EditRate, request
  <2>2. MarginsTypeOK'
    BY <1>1, <2>1 DEF MarginsTypeOK
  <2>3. RatesHeld'
    BY <1>1, <2>1 DEF RatesHeld, MarginsTypeOK
  <2>4. FeesForgotten' /\ RowsPriced'
    BY <1>1, <2>1 DEF FeesForgotten, RowsPriced, Rate
  <2> QED
    BY <2>2, <2>3, <2>4 DEF MarginsInv
<1>9. CASE UNCHANGED <<vars, matrixVars, feeVars>>
  BY <1>2, <1>9 DEF vars, request, feeVars
<1> QED
  BY <1>4, <1>5, <1>6, <1>7, <1>8, <1>9 DEF MarginsNext

\* It therefore holds throughout.
LEMMA AlwaysMarginsInv == MarginsSpec => []MarginsInv
BY InitMarginsInv, MarginsInvStep, PTL DEF MarginsSpec

\* Fees, rates and margins keep their types; in particular a margin is a number,
\* whatever the cost rows and prices are.
THEOREM MarginsTypeCorrect == MarginsSpec => []MarginsTypeOK
<1>1. MarginsInv => MarginsTypeOK
  BY DEF MarginsInv
<1> QED
  BY <1>1, AlwaysMarginsInv, PTL

\* The margin of a row comes from rates its own two fees had during the request,
\* whatever other rows looked up before it and whatever was edited since.
THEOREM MarginsAreOfHeldRates == MarginsSpec => []MarginsOfHeldRates
<1>1. MarginsInv => MarginsOfHeldRates
  <2> SUFFICES ASSUME MarginsInv, NEW i \in Items, margins[i] # Unpriced
               PROVE  \E fee    \in IF FeeOf[i] = None THEN {0}
                                    ELSE heldRates[<<"shopee", FeeOf[i]>>],
                         ongkir \in IF OngkirOf[i] = None THEN {0}
                                    ELSE heldRates[<<"ongkir", OngkirOf[i]>>] :
                        margins[i] = <<Margin(i, fee, ongkir)>>
    BY DEF MarginsOfHeldRates
  <2> DEFINE fee == Rate("shopee", FeeOf[i])
             ongkir == Rate("ongkir", OngkirOf[i])
  <2>1. /\ \A f \in FeesOf(i) : feeCache[f] # NotRead
        /\ margins[i] = <<Margin(i, fee, ongkir)>>
        /\ feeCache \in [Fees -> Rates \cup {NotRead}]
    BY DEF MarginsInv, RowsPriced, MarginsTypeOK
  <2>2. /\ fee \in IF FeeOf[i] = None THEN {0} ELSE heldRates[<<"shopee", FeeOf[i]>>]
        /\ ongkir \in IF OngkirOf[i] = None THEN {0}
                      ELSE heldRates[<<"ongkir", OngkirOf[i]>>]
    BY <2>1, FeesRead DEF MarginsInv, RatesHeld, Rate
  <2> HIDE DEF fee, ongkir
  <2> QED
    BY <2>1, <2>2
<1> QED
  BY <1>1, AlwaysMarginsInv, PTL

\* Of two rows of a page with the same fee categories and cost the dearer has no
\* lower margin, for any prices and rates that leave a share of a rupiah, caps
\* reached or not, and edits between the two rows: the feeCache gives both the
\* same rates.
THEOREM DearerRowsEarnMore == MarginsSpec => []DearerRowEarnsMore
<1>1. MarginsInv => DearerRowEarnsMore
  <2> SUFFICES ASSUME MarginsInv, NEW i \in Items, NEW j \in Items,
                      margins[i] # Unpriced, margins[j] # Unpriced,
                      FeeOf[i] = FeeOf[j], OngkirOf[i] = OngkirOf[j],
                      AverageHpp(i) = AverageHpp(j), Shopee[i] >= Shopee[j],
                      LeavesAShare(i)
               PROVE  margins[i][1] >= margins[j][1]
    BY DEF DearerRowEarnsMore
  <2>1. PICK fee \in Nat, ongkir \in Nat :
          /\ fee + ongkir <= 931
          /\ margins[i] = <<Margin(i, fee, ongkir)>>
          /\ margins[j] = <<Margin(j, fee, ongkir)>>
          /\ Shopee[j] # 0
    <3>1. /\ \A f \in FeesOf(i) : feeCache[f] # NotRead
          /\ feeCache \in [Fees -> Rates \cup {NotRead}]
      BY DEF MarginsInv, RowsPriced, MarginsTypeOK
    <3>2. Rate("shopee", FeeOf[i]) \in Nat /\ Rate("ongkir", OngkirOf[i]) \in Nat
      BY <3>1, FeesRead
    <3>3. Rate("shopee", FeeOf[i]) + Rate("ongkir", OngkirOf[i]) <= 931
      BY <3>2 DEF LeavesAShare
    <3> QED
      BY <3>2, <3>3 DEF MarginsInv, RowsPriced
  <2>2. Margin(i, fee, ongkir) \in Int /\ Margin(j, fee, ongkir) \in Int
    BY MarginType
  <2>3. Margin(j, fee, ongkir) <= Margin(i, fee, ongkir)
    BY <2>1, MarginGrows
  <2> QED
    BY <2>1, <2>2, <2>3
<1> QED
  BY <1>1, AlwaysMarginsInv, PTL

-----------------------------------------------------------------------------
(* The three specifications.  Margins leaves the request of Matching and    *)
(* the matrix alone, but for a page that fails on a fee, and so do edited    *)
(* rates: both invariants hold of the whole panel.                          *)

\* A step of Matrix is one of Matching, or the matrix's own.
LEMMA MatrixKeepsIInv ==
    ASSUME IInv, [MatrixNext]_<<vars, matrixVars>>
    PROVE  IInv'
<1>1. CASE [Next]_vars
  BY <1>1, IInvStep
<1>2. CASE AskMatrix
  <2>1. /\ UNCHANGED <<cells, request, edits>> /\ requests' = requests + 1
        /\ held' = [c \in Cells |-> {cells[c]}] /\ step = "idle"
    BY <1>2 DEF AskMatrix, At
  <2>2. TypeOK'
    BY <2>1 DEF IInv, TypeOK, request, PairsOf, BrandsOf
  <2>3. FromCells'
    BY <2>1, ReadOnlyCells DEF IInv, Located, FromCells, NoCache, request
  <2>4. Located' /\ FromCache' /\ OnlyAllowed' /\ BestSoFar' /\ RawCellShown'
    BY <2>1 DEF IInv, Located, FromCache, OnlyAllowed, Allowing, BestSoFar,
                RawCellShown, At, request
  <2> QED
    BY <2>2, <2>3, <2>4 DEF IInv
<1>3. MatrixStep /\ ~AskMatrix => UNCHANGED vars
  BY DEF MatrixStep, UsedBrands, UsedKategoris, ListBrands, ListKategoris, CountCells,
         CountUniversal, ShowMatrix, MatrixFails, Turned
<1> QED
  BY <1>1, <1>2, <1>3 DEF MatrixNext

\* A step of Margins is one of Matrix, or edits a rate: a page that fails on a
\* fee ends as an answered one does.
LEMMA MatrixStepOrRate ==
    ASSUME MatrixInv, [MarginsNext]_<<vars, matrixVars, feeVars>>
    PROVE  [MatrixNext]_<<vars, matrixVars>> \/ \E f \in Fees : EditRate(f)
<1>1. ASSUME NEW i \in Items, LookUpFails(i) PROVE MatrixNext
  <2>1. Answered /\ UNCHANGED matrixVars /\ step # "idle"
    BY <1>1 DEF LookUpFails, Building, Answered, At
  <2>2. turn = "idle"
    BY <2>1 DEF MatrixInv, MatrixHeld
  <2> QED
    BY <2>1, <2>2 DEF MatrixNext, Next
<1>2. \A i \in Items : LookUpFee(i) \/ PriceRow(i) => UNCHANGED <<vars, matrixVars>>
  BY DEF LookUpFee, PriceRow
<1> QED
  BY <1>1, <1>2 DEF MarginsNext, Elsewhere

\* An edited rate is no cell and no part of a request.
LEMMA RateKeepsInvs ==
    ASSUME IInv, MatrixInv, NEW f \in Fees, EditRate(f)
    PROVE  IInv' /\ MatrixInv'
<1>1. UNCHANGED <<cells, request, requests, held, matrixVars>> /\ edits' = edits + 1
  BY DEF EditRate
<1>2. TypeOK'
  BY <1>1 DEF IInv, TypeOK, request, PairsOf, BrandsOf
<1>3. Located' /\ FromCells' /\ FromCache' /\ RawCellShown'
  BY <1>1 DEF IInv, Located, FromCells, FromCache, RawCellShown, At, request, ForPair,
              BrandsOf
<1>4. OnlyAllowed' /\ BestSoFar'
  BY <1>1 DEF IInv, OnlyAllowed, BestSoFar, BestOf, Seen, request
<1>5. MatrixInv'
  BY <1>1 DEF MatrixInv, MatrixTypeOK, MatrixHeld, CountsShown, AxesFilled,
              matrixVars, request
<1> QED
  BY <1>2, <1>3, <1>4, <1>5 DEF IInv

\* Requests of Matching alone, beside the matrix, or with prices: what is read
\* of the cells is the same.
LEMMA AlwaysIInv == Spec \/ MatrixSpec \/ MarginsSpec => []IInv
<1>1. Init \/ MatrixInit \/ MarginsInit => IInv
  BY InitIInv DEF MatrixInit, MarginsInit
<1>2. MatrixInit \/ MarginsInit => MatrixInv
  BY InitMatrixInv DEF MarginsInit
<1>3. IInv /\ [Next]_vars => IInv'
  BY IInvStep
<1>4. IInv /\ MatrixInv /\ [MatrixNext]_<<vars, matrixVars>> => IInv' /\ MatrixInv'
  BY MatrixKeepsIInv, MatrixInvStep
<1>5. IInv /\ MatrixInv /\ [MarginsNext]_<<vars, matrixVars, feeVars>>
        => IInv' /\ MatrixInv'
  BY <1>4, MatrixStepOrRate, RateKeepsInvs
<1> QED
  BY <1>1, <1>2, <1>3, <1>4, <1>5, PTL DEF Spec, MatrixSpec, MarginsSpec

LEMMA AlwaysMatrixInv == MatrixSpec \/ MarginsSpec => []MatrixInv
<1>1. MatrixInit \/ MarginsInit => MatrixInv
  BY InitMatrixInv DEF MarginsInit
<1>2. MarginsInit => IInv
  BY InitIInv DEF MatrixInit, MarginsInit
<1>3. MatrixInv /\ [MatrixNext]_<<vars, matrixVars>> => MatrixInv'
  BY MatrixInvStep
<1>4. IInv /\ MatrixInv /\ [MarginsNext]_<<vars, matrixVars, feeVars>>
        => IInv' /\ MatrixInv'
  BY <1>3, MatrixKeepsIInv, MatrixStepOrRate, RateKeepsInvs
<1> QED
  BY <1>1, <1>2, <1>3, <1>4, PTL DEF MatrixSpec, MarginsSpec

-----------------------------------------------------------------------------
(* Theorems about Matching and Matrix, within Margins too.                  *)

\* In every state the request's locals have their types, and no cell a loop of
\* a page needs has been left unread.
THEOREM TypeCorrect == Spec \/ MatrixSpec \/ MarginsSpec => []TypeOK
<1>1. IInv => TypeOK
  BY DEF IInv
<1> QED
  BY <1>1, AlwaysIInv, PTL

\* The stores an item may match are the list of one cell, a filled specific
\* cell before the universal one, however many cells are edited while the
\* resolver reads.
THEOREM OneCell == Spec \/ MatrixSpec \/ MarginsSpec => []OneCellWins
<1>1. IInv => OneCellWins
  <2> SUFFICES ASSUME IInv, step \in {"match", "columns"}, NEW i \in asked.items,
                      BrandOf[i] # None
               PROVE  LET pair == <<KategoriOf[i], BrandOf[i]>>
                          From(list) == allowed[i] \ {OwnStore} = list \ {OwnStore} IN
                      \/ pair \in Specific /\ \E list \in held[pair] \ {{}} : From(list)
                      \/ /\ pair \in Specific => {} \in held[pair]
                         /\ \E list \in held[<<None, BrandOf[i]>>] : From(list)
    BY DEF OneCellWins
  <2> DEFINE pair == <<KategoriOf[i], BrandOf[i]>>
             universal == <<None, BrandOf[i]>>
  <2>1. asked.items \in SUBSET Items
    BY DEF IInv, TypeOK
  <2>2. allowed[i] = ForPair(i) \cup Own
    BY DEF IInv, FromCache
  <2>3. \A list : list = ForPair(i) => allowed[i] \ {OwnStore} = list \ {OwnStore}
    BY <2>2 DEF Own
  <2>4. universal \in Cells /\ cache[universal] \in held[universal]
    BY <2>1, CellsOf DEF IInv, TypeOK, FromCells
  <2>5. CASE KategoriOf[i] = None
    <3>1. pair \notin Specific
      BY <2>5, MatchingAssumption DEF Specific
    <3>2. ForPair(i) = cache[universal]
      BY <2>5 DEF ForPair
    <3> QED
      BY <2>3, <2>4, <3>1, <3>2
  <2>6. CASE KategoriOf[i] # None
    <3>1. pair \in Specific /\ cache[pair] \in held[pair]
      BY <2>1, <2>6, CellsOf DEF IInv, TypeOK, FromCells
    <3>2. CASE cache[pair] # {}
      <4>1. ForPair(i) = cache[pair]
        BY <2>6, <3>2 DEF ForPair
      <4> QED
        BY <2>3, <3>1, <3>2, <4>1
    <3>3. CASE cache[pair] = {}
      <4>1. ForPair(i) = cache[universal]
        BY <2>6, <3>3 DEF ForPair
      <4> QED
        BY <2>3, <2>4, <3>1, <3>3, <4>1
    <3> QED
      BY <3>2, <3>3
  <2> QED
    BY <2>5, <2>6
<1> QED
  BY <1>1, AlwaysIInv, PTL

\* No store an item is matched in lacks a column on the page, whatever is
\* edited between the matching and the columns.
THEOREM Columns == Spec \/ MatrixSpec \/ MarginsSpec => []MatchesHaveColumns
<1>1. IInv => MatchesHaveColumns
  <2> SUFFICES ASSUME IInv, step = "answered", NEW i \in asked.items,
                      NEW k \in Kompetitors \ {OwnStore}, best[i][k] # NoMatch
               PROVE  k \in columns[i]
    BY DEF MatchesHaveColumns, At
  <2> QED
    BY DEF IInv, OnlyAllowed, Allowing
<1> QED
  BY <1>1, AlwaysIInv, PTL

\* The loop over the products keeps a best match of every item and store, for
\* any number of products, stores and scores.
THEOREM Best == Spec \/ MatrixSpec \/ MarginsSpec => []BestIsKept
<1>1. IInv => BestIsKept
  <2> SUFFICES ASSUME IInv, step \in {"columns", "answered"},
                      NEW i \in asked.items, NEW k \in allowed[i]
               PROVE  LET above == {p \in Products : StoreOf[p] = k /\ scores[i][p] > Threshold}
                          won   == best[i][k].product IN
                      /\ (above = {}) <=> (best[i][k] = NoMatch)
                      /\ above # {} =>
                           /\ won \in above
                           /\ \A p \in above :
                                /\ Least(scores[i][p], One) <= best[i][k].score
                                /\ p < won /\ scores[i][p] >= scores[i][won] =>
                                      scores[i][won] > One
    BY DEF BestIsKept
  <2>1. BestOf(i, k, Products)
    BY DEF IInv, BestSoFar
  <2> QED
    BY <2>1 DEF BestOf
<1> QED
  BY <1>1, AlwaysIInv, PTL

\* The answer to a read of one cell is what the cell held at a moment of the
\* read, never the universal cell's list.
THEOREM RawCell == Spec \/ MatrixSpec \/ MarginsSpec => []RawCellShown
<1>1. IInv => RawCellShown
  BY DEF IInv
<1> QED
  BY <1>1, AlwaysIInv, PTL

\* MappingMatrix keeps its types: axes are brands and kategoris, counts numbers.
THEOREM MatrixTypeCorrect == MatrixSpec \/ MarginsSpec => []MatrixTypeOK
<1>1. MatrixInv => MatrixTypeOK
  BY DEF MatrixInv
<1> QED
  BY <1>1, AlwaysMatrixInv, PTL

\* What MappingMatrix counts is the number of stores a drawn cell had at a moment of
\* the request, and no suspended brand is drawn: six statements, any edits between.
THEOREM CountsAreOfShownCells == MatrixSpec \/ MarginsSpec => []CountsOfShownCells
<1>1. MatrixInv => CountsOfShownCells
  BY DEF MatrixInv, CountsOfShownCells, CountsShown, Counting, Shown
<1> QED
  BY <1>1, AlwaysMatrixInv, PTL

\* Without a filter no cell that had stores throughout the request, and whose brand
\* is not suspended, is missing from the matrix.
THEOREM EveryMappedCellIsShown == MatrixSpec \/ MarginsSpec => []MappedCellsAreShown
<1>1. MatrixInv => MappedCellsAreShown
  BY DEF MatrixInv, MappedCellsAreShown, AxesFilled, Counting, Shown
<1> QED
  BY <1>1, AlwaysMatrixInv, PTL

\* Through all three modules, the locals of a request keep their types, and a page
\* finds every cell its loops need among those it has read.
THEOREM PagesTypeCorrect == MarginsSpec => []PagesTypeOK
<1>1. TypeOK /\ MatrixTypeOK /\ MarginsTypeOK => PagesTypeOK
  BY DEF PagesTypeOK
<1> QED
  BY <1>1, TypeCorrect, MatrixTypeCorrect, MarginsTypeCorrect, PTL
=============================================================================
