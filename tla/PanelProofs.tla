---------------------------- MODULE PanelProofs -----------------------------
(***************************************************************************)
(* Proofs about Panel, for any numbers of workers, processes, readers,     *)
(* stores, batches and items.                                              *)
(*                                                                         *)
(* A page reads the latest batch, then each store's batches, then their    *)
(* rows, while imports go on.  What it has read stays true enough because  *)
(* of what IngestProofs shows of every step of an import: a batch a store  *)
(* can be read from stays one (Grows).  ReaderInv says what a page may     *)
(* rely on at each statement.                                              *)
(*                                                                         *)
(* A page that weighs its rows writes to the cache of the imports, so the  *)
(* invariant of SettledProofs is carried over it; and pages implement      *)
(* Reading, because what ReaderInv says when the batches are resolved is   *)
(* what a pick promises, and until then a page shows nothing (Unseen).     *)
(***************************************************************************)
EXTENDS Panel, SettledProofs, ScrapingProofs

Unresolved == {"latest", "batchRows"}

\* What the page of r may rely on at its statement.
ReaderInv(r) ==
    /\ \A k \in Kompetitors : page[r].known[k] \subseteq Readable(k)
    /\ rpc[r] = "batchRows" =>
         /\ page[r].latest \in BatchIds
         /\ \A k \in Kompetitors : \A b \in page[r].known[k] :
              executed[b] <= executed[page[r].latest]
    /\ \A k \in Kompetitors :
         page[r].batchOf[k] # None => page[r].batchOf[k] \in Readable(k)
    /\ rpc[r] \notin {"idle"} \cup Unresolved =>
         \A k \in Kompetitors : \A b \in page[r].known[k] :
             /\ page[r].batchOf[k] # None
             /\ executed[b] <= executed[page[r].batchOf[k]]
    /\ rpc[r] \in Filled =>
         \A k \in Paired(page[r]) : page[r].rows[k].titles # {}

PageInv ==
    /\ IInv
    /\ executed \in [BatchIds -> Days]
    /\ rpc \in [Readers -> PageSteps] /\ page \in [Readers -> Pages]
    /\ pages \in Nat
    /\ \A r \in Readers : ReaderInv(r)

-----------------------------------------------------------------------------
(* The pipeline below the pages.                                           *)

\* What a page leaves of the pipeline is the tables and the imports: storing
\* weights changes the cache and a history only.
LEMMA CacheOnly ==
    ASSUME IInv, NEW p \in Procs, NEW key \in Keys, NEW corpus \in Corpora,
           cache' = [cache EXCEPT ![p][key] = corpus],
           clean' \in SUBSET Workers,
           UNCHANGED <<tables, pc, job, requests, edits, acked, settled>>
    PROVE  IInv'
<1> USE DEF IInv
<1>1. TypeOK'
  BY DEF TypeOK, tables
<1>2. \A w \in Workers : WorkerInv(w)'
  BY DEF WorkerInv, HasRows, tables
<1>3. Versioned' /\ SummaryFromStored' /\ AckedDurable'
  BY DEF Versioned, SummaryFromStored, AckedDurable, HasRows, tables
<1> QED
  BY <1>1, <1>2, <1>3

\* A page that is being built puts only corpora into the cache.
LEMMA WeightsStep ==
    ASSUME PageInv, NEW r \in Readers, StoreWeights(r)
    PROVE  IInv' /\ UNCHANGED <<batches, products, summaries>>
<1>1. page[r] \in Pages /\ ReaderProc[r] \in Procs /\ clean \in SUBSET Workers
  BY PanelAssumption DEF PageInv, IInv, TypeOK
<1>2. PageKey(page[r]) \in Keys /\ page[r].corpus \in Corpora
  BY <1>1 DEF PageKey, Paired, Keys, Pages
<1> QED
  BY <1>1, <1>2, CacheOnly DEF StoreWeights, PageInv, tables

\* Every step of Panel is a step of Ingest, except that of a page that stores the
\* weights it computed.
LEMMA StepOrWeights ==
    ASSUME [PanelNext]_panelVars
    PROVE  [Next]_vars \/ \E r \in Readers : StoreWeights(r)
<1>1. ASSUME NEW r \in Readers, AskPage(r) \/ Build(r), ~StoreWeights(r)
      PROVE  UNCHANGED vars
  BY <1>1 DEF Build, AskPage, ReadLatest, ReadBatchRows, ReadCells, ReadPairs,
              GetWeights, ReadCorpus, ReadCorpusItems, ShowPage, PageFails
<1>2. Beside => Next
  BY DEF Beside, Next
<1>3. \A p \in Procs : CrashAll(p) => Next
  BY DEF CrashAll, Next
<1>4. UNCHANGED panelVars => UNCHANGED vars
  BY DEF panelVars
<1> QED
  BY <1>1, <1>2, <1>3, <1>4 DEF PanelNext

\* Every step of Panel keeps the pipeline's invariant and loses no rows.
LEMMA PipelineStep ==
    ASSUME PageInv, [PanelNext]_panelVars
    PROVE  IInv' /\ Grows
<1>1. IInv /\ TypeOK
  BY DEF PageInv, IInv
<1>2. CASE [Next]_vars
  BY <1>1, <1>2, IInvStep, GrowsStep
<1>3. ASSUME NEW r \in Readers, StoreWeights(r)
      PROVE  IInv' /\ Grows
  BY <1>1, <1>3, WeightsStep, UnchangedGrows
<1> QED
  BY <1>2, <1>3, StepOrWeights

\* A batch a store can be read from stays one.
LEMMA StaysReadable ==
    ASSUME Grows, NEW k \in Kompetitors
    PROVE  Readable(k) \subseteq Readable(k)'
BY DEF Grows, Readable, Completed

-----------------------------------------------------------------------------
(* The pages.                                                              *)

\* A page that a step leaves alone keeps what it relies on.
LEMMA PageKept ==
    ASSUME Grows, NEW r \in Readers, ReaderInv(r),
           executed' = executed, rpc'[r] = rpc[r], page'[r] = page[r]
    PROVE  ReaderInv(r)'
<1>1. \A k \in Kompetitors : Readable(k) \subseteq Readable(k)'
  BY StaysReadable
<1> QED
  BY <1>1 DEF ReaderInv, Paired

\* So does one that ends.
LEMMA PageEnds ==
    ASSUME NEW r \in Readers, rpc'[r] = "idle", page'[r] = NoPage
    PROVE  ReaderInv(r)'
BY DEF ReaderInv, NoPage, Unresolved, Filled

\* And one that has resolved its stores' batches, as long as it has rows when it
\* goes on to weigh them.
LEMMA PageGoesOn ==
    ASSUME Grows, NEW r \in Readers, ReaderInv(r), executed' = executed,
           rpc[r] \notin {"idle"} \cup Unresolved, rpc'[r] \notin Unresolved,
           page'[r].known = page[r].known, page'[r].batchOf = page[r].batchOf,
           rpc'[r] \in Filled =>
               \A k \in Paired(page'[r]) : page'[r].rows[k].titles # {}
    PROVE  ReaderInv(r)'
<1>1. \A k \in Kompetitors : Readable(k) \subseteq Readable(k)'
  BY StaysReadable
<1> QED
  BY <1>1 DEF ReaderInv, Unresolved

\* The locals of no page.
LEMMA NoPageType == NoPage \in Pages
BY DEF NoPage, Pages, NoRows, Loads, NoCorpus, Corpora

\* A local of a page that is replaced by another one of its type.
LEMMA PageUpdates ==
    ASSUME NEW p \in Pages
    PROVE  /\ \A x \in BatchIds : [p EXCEPT !.latest = x] \in Pages
           /\ \A x \in [Kompetitors -> BatchIds \cup {None}] :
                [p EXCEPT !.batchOf = x] \in Pages
           /\ \A x \in [Items -> SUBSET Kompetitors] :
                [p EXCEPT !.allowed = x] \in Pages
           /\ \A x \in [Kompetitors -> Loads] : [p EXCEPT !.rows = x] \in Pages
           /\ \A x \in Corpora : [p EXCEPT !.corpus = x] \in Pages
BY DEF Pages

\* A page that a statement gets further reads nothing it could not rely on: what
\* each local becomes, and what that gives the next statement.
LEMMA BuildStep ==
    ASSUME PageInv, Grows, NEW r \in Readers, AskPage(r) \/ Build(r)
    PROVE  /\ executed' = executed /\ pages' \in Nat
           /\ \E step \in PageSteps : rpc' = [rpc EXCEPT ![r] = step]
           /\ \E p \in Pages : page' = [page EXCEPT ![r] = p]
           /\ ReaderInv(r)'
<1> DEFINE p == page[r]
<1>0. /\ p \in Pages /\ rpc \in [Readers -> PageSteps] /\ page \in [Readers -> Pages]
      /\ rpc[r] \in PageSteps /\ pages \in Nat /\ ReaderInv(r) /\ TypeOK
      /\ executed \in [BatchIds -> Days] /\ None \notin BatchIds /\ Days \subseteq Nat
  BY IngestAssumption, DatedAssumption DEF PageInv, IInv
<1>1. \A k \in Kompetitors : /\ Readable(k) \subseteq Readable(k)'
                             /\ Readable(k) \subseteq Completed
                             /\ Readable(k) \subseteq BatchIds
  BY StaysReadable DEF Readable, Completed
<1>2. page' = page => \E q \in Pages : page' = [page EXCEPT ![r] = q]
  BY <1>0
<1>3. \A step : Turn(r, step) => rpc' = [rpc EXCEPT ![r] = step] /\ rpc'[r] = step
  BY <1>0 DEF Turn
<1>4. \A q \in Pages : Learn(r, q) => page' = [page EXCEPT ![r] = q] /\ page'[r] = q
  BY <1>0 DEF Learn
<1>5. CASE AskPage(r)
  <2> PICK items \in (SUBSET Items) \ {{}} :
        /\ Learn(r, [NoPage EXCEPT !.items = items,
                                   !.known = [k \in Kompetitors |-> Readable(k)]])
        /\ Turn(r, "latest")
        /\ pages' = pages + 1
        /\ executed' = executed
    BY <1>5 DEF AskPage
  <2> DEFINE q == [NoPage EXCEPT !.items = items,
                                 !.known = [k \in Kompetitors |-> Readable(k)]]
  <2>1. /\ q \in Pages
        /\ q.known = [k \in Kompetitors |-> Readable(k)]
        /\ q.batchOf = [k \in Kompetitors |-> None]
    BY <1>1, NoPageType DEF NoPage, Pages
  <2>2. page' = [page EXCEPT ![r] = q] /\ page'[r] = q
    BY <2>1, <1>4
  <2>3. rpc'[r] = "latest" /\ rpc' = [rpc EXCEPT ![r] = "latest"]
    BY <1>3
  <2> HIDE DEF q
  <2>4. ReaderInv(r)'
    <3>1. /\ page'[r].known = [k \in Kompetitors |-> Readable(k)]
          /\ page'[r].batchOf = [k \in Kompetitors |-> None]
      BY <2>1, <2>2
    <3> QED
      BY <1>1, <2>3, <3>1 DEF ReaderInv, Unresolved, Filled
  <2>5. pages' \in Nat /\ "latest" \in PageSteps
    BY <1>0 DEF PageSteps
  <2> QED
    BY <2>1, <2>2, <2>3, <2>4, <2>5
<1>6. CASE ReadLatest(r)
  <2>1. CASE Completed = {} /\ Turn(r, "cells") /\ UNCHANGED page
    <3>1. rpc'[r] = "cells" /\ rpc' = [rpc EXCEPT ![r] = "cells"]
      BY <2>1, <1>3
    <3>2. \A k \in Kompetitors : p.known[k] = {}
      BY <2>1, <1>0, <1>1 DEF ReaderInv
    <3>3. ReaderInv(r)'
      BY <2>1, <3>1, <3>2, <1>0, <1>1, <1>6
      DEF ReaderInv, Filled, ReadLatest
    <3> QED
      BY <1>0, <1>2, <1>6, <2>1, <3>1, <3>3 DEF ReadLatest, PageSteps
  <2>2. ASSUME NEW b \in BatchIds, First(b, Newest(Completed)),
               Learn(r, [p EXCEPT !.latest = b]), Turn(r, "batchRows")
        PROVE  /\ \E step \in PageSteps : rpc' = [rpc EXCEPT ![r] = step]
               /\ \E q \in Pages : page' = [page EXCEPT ![r] = q]
               /\ ReaderInv(r)'
    <3>1. rpc'[r] = "batchRows" /\ rpc' = [rpc EXCEPT ![r] = "batchRows"]
      BY <2>2, <1>3
    <3>2. /\ [p EXCEPT !.latest = b] \in Pages
          /\ [p EXCEPT !.latest = b].latest = b
          /\ [p EXCEPT !.latest = b].known = p.known
          /\ [p EXCEPT !.latest = b].batchOf = p.batchOf
      BY <1>0, PageUpdates DEF Pages
    <3>3. /\ page' = [page EXCEPT ![r] = [p EXCEPT !.latest = b]]
          /\ page'[r] = [p EXCEPT !.latest = b]
      BY <2>2, <3>2, <1>4
    <3>4. \A o \in Completed : executed[o] <= executed[b]
      BY <2>2 DEF First, Newest
    <3>5. \A k \in Kompetitors : \A o \in p.known[k] : executed[o] <= executed[b]
      BY <3>4, <1>0, <1>1 DEF ReaderInv
    <3>6. executed' = executed
      BY <1>6 DEF ReadLatest
    <3>7. ReaderInv(r)'
      BY <3>1, <3>2, <3>3, <3>5, <3>6, <1>0, <1>1 DEF ReaderInv, Unresolved, Filled
    <3> QED
      BY <3>1, <3>2, <3>3, <3>7 DEF PageSteps
  <2> QED
    BY <1>0, <1>6, <2>1, <2>2 DEF ReadLatest
<1>7. CASE ReadBatchRows(r)
  <2> PICK batchOf \in [Kompetitors -> BatchIds \cup {None}] :
        /\ Resolves(batchOf, p.latest)
        /\ Learn(r, [p EXCEPT !.batchOf = batchOf])
    BY <1>7 DEF ReadBatchRows
  <2>1. rpc'[r] = "cells" /\ rpc' = [rpc EXCEPT ![r] = "cells"]
    BY <1>3, <1>7 DEF ReadBatchRows
  <2>2. /\ [p EXCEPT !.batchOf = batchOf] \in Pages
        /\ [p EXCEPT !.batchOf = batchOf].batchOf = batchOf
        /\ [p EXCEPT !.batchOf = batchOf].known = p.known
    BY <1>0, PageUpdates DEF Pages
  <2>3. /\ page' = [page EXCEPT ![r] = [p EXCEPT !.batchOf = batchOf]]
        /\ page'[r] = [p EXCEPT !.batchOf = batchOf]
    BY <2>2, <1>4
  <2>4. ASSUME NEW k \in Kompetitors, batchOf[k] # None
        PROVE  batchOf[k] \in Readable(k)
    BY <2>4 DEF Resolves, Newest, UpTo
  <2>5. ASSUME NEW k \in Kompetitors, NEW b \in p.known[k]
        PROVE  batchOf[k] # None /\ executed[b] <= executed[batchOf[k]]
    <3>1. b \in Readable(k) /\ executed[b] <= executed[p.latest]
      BY <1>0, <1>7, <2>5 DEF ReaderInv, ReadBatchRows, PageAt
    <3>2. b \in UpTo(k, p.latest)
      BY <3>1 DEF UpTo
    <3>3. batchOf[k] \in Newest(UpTo(k, p.latest))
      BY <3>2 DEF Resolves
    <3>4. batchOf[k] \in BatchIds
      BY <3>3, <1>1 DEF Newest, UpTo
    <3> QED
      BY <3>2, <3>3, <3>4, <1>0 DEF Newest
  <2>6. executed' = executed /\ pages' = pages
    BY <1>7 DEF ReadBatchRows
  <2>7. ReaderInv(r)'
    BY <2>1, <2>2, <2>3, <2>4, <2>5, <2>6, <1>0, <1>1
    DEF ReaderInv, Unresolved, Filled
  <2> QED
    BY <2>1, <2>2, <2>3, <2>6, <2>7, <1>0 DEF PageSteps
<1>8. CASE ReadCells(r)
  <2> DEFINE allowed == [i \in Items |-> IF i \in p.items
                                         THEN Allowed[i] \cup ({OwnStore} \ {None})
                                         ELSE {}]
             q == [p EXCEPT !.allowed = allowed]
             step == IF Paired(q) = {} THEN "show" ELSE "products"
  <2>1. /\ Learn(r, q) /\ Turn(r, step) /\ rpc[r] = "cells"
        /\ executed' = executed /\ pages' = pages
    BY <1>8 DEF ReadCells, PageAt
  <2>2. allowed \in [Items -> SUBSET Kompetitors]
    BY <1>0, AllowedType, PanelAssumption
  <2>3. q \in Pages /\ q.known = p.known /\ q.batchOf = p.batchOf
    BY <2>2, <1>0, PageUpdates DEF Pages
  <2>4. page' = [page EXCEPT ![r] = q] /\ page'[r] = q
    BY <2>1, <2>3, <1>4
  <2>5. rpc' = [rpc EXCEPT ![r] = step] /\ rpc'[r] = step /\ step \in PageSteps
    BY <2>1, <1>3 DEF PageSteps
  <2>6. ReaderInv(r)'
    BY <1>0, <2>1, <2>3, <2>4, <2>5, PageGoesOn DEF Unresolved, Filled
  <2> QED
    BY <1>0, <2>1, <2>3, <2>4, <2>5, <2>6
<1>9. CASE ReadPairs(r)
  <2> DEFINE rows == [k \in Kompetitors |-> IF k \in Paired(p)
                                            THEN products[p.batchOf[k]][k]
                                            ELSE NoRows]
             q == [p EXCEPT !.rows = rows]
             step == IF \A k \in Kompetitors : rows[k].titles = {}
                     THEN "show" ELSE "weights"
  <2>1. /\ Learn(r, q) /\ Turn(r, step) /\ rpc[r] = "products"
        /\ executed' = executed /\ pages' = pages
    BY <1>9 DEF ReadPairs, PageAt
  <2>2. ASSUME NEW k \in Paired(p)
        PROVE  k \in Kompetitors /\ p.batchOf[k] \in Readable(k)
    <3>1. PICK i \in p.items : k \in p.allowed[i]
      BY DEF Paired
    <3>2. k \in Kompetitors
      BY <3>1, <1>0 DEF Pages
    <3> QED
      BY <3>2, <1>0 DEF Paired, ReaderInv
  <2>3. ASSUME NEW k \in Paired(p)
        PROVE  rows[k] \in Loads /\ rows[k].titles # {}
    <3>1. rows[k] = products[p.batchOf[k]][k] /\ p.batchOf[k] \in BatchIds
      BY <2>2, <1>1
    <3>2. products[p.batchOf[k]][k] \in Loads
      BY <2>2, <3>1, <1>0 DEF TypeOK
    <3>3. HasRows(p.batchOf[k], k)
      BY <2>2 DEF Readable
    <3> QED
      BY <3>1, <3>2, <3>3 DEF HasRows
  <2>4. rows \in [Kompetitors -> Loads]
    BY <2>3 DEF NoRows, Loads
  <2>5. /\ q \in Pages /\ q.known = p.known /\ q.batchOf = p.batchOf
        /\ q.items = p.items /\ q.allowed = p.allowed /\ q.rows = rows
    BY <2>4, <1>0, PageUpdates DEF Pages
  <2>6. Paired(q) = Paired(p)
    BY <2>5 DEF Paired
  <2>7. page' = [page EXCEPT ![r] = q] /\ page'[r] = q
    BY <2>1, <2>5, <1>4
  <2>8. rpc' = [rpc EXCEPT ![r] = step] /\ rpc'[r] = step /\ step \in PageSteps
    BY <2>1, <1>3 DEF PageSteps
  <2> HIDE DEF rows, q, step
  <2>9. step \in {"show", "weights"}
    BY DEF step
  <2>10. ReaderInv(r)'
    BY <1>0, <2>1, <2>3, <2>5, <2>6, <2>7, <2>8, <2>9, PageGoesOn DEF Unresolved
  <2> QED
    BY <1>0, <2>1, <2>5, <2>7, <2>8, <2>10
<1>10. ASSUME NEW corpus \in Corpora, Learn(r, [p EXCEPT !.corpus = corpus]),
              NEW step \in Filled, Turn(r, step), rpc[r] \in Filled,
              executed' = executed
       PROVE  /\ \E x \in PageSteps : rpc' = [rpc EXCEPT ![r] = x]
              /\ \E q \in Pages : page' = [page EXCEPT ![r] = q]
              /\ ReaderInv(r)'
  <2> DEFINE q == [p EXCEPT !.corpus = corpus]
  <2>1. /\ q \in Pages /\ q.known = p.known /\ q.batchOf = p.batchOf
        /\ q.items = p.items /\ q.allowed = p.allowed /\ q.rows = p.rows
    BY <1>0, PageUpdates DEF Pages
  <2>2. Paired(q) = Paired(p)
    BY <2>1 DEF Paired
  <2>3. page' = [page EXCEPT ![r] = q] /\ page'[r] = q
    BY <1>10, <2>1, <1>4
  <2>4. rpc' = [rpc EXCEPT ![r] = step] /\ rpc'[r] = step /\ step \in PageSteps
    BY <1>10, <1>3 DEF PageSteps, Filled
  <2> HIDE DEF q
  <2>5. \A k \in Paired(page'[r]) : page'[r].rows[k].titles # {}
    BY <1>0, <1>10, <2>1, <2>2, <2>3 DEF ReaderInv
  <2>6. ReaderInv(r)'
    BY <1>0, <1>10, <2>1, <2>3, <2>4, <2>5, PageGoesOn DEF Unresolved, Filled
  <2> QED
    BY <2>1, <2>3, <2>4, <2>6
<1>11. PageKey(p) \in Keys
  BY <1>0 DEF PageKey, Paired, Keys, Pages
<1>12. CASE GetWeights(r)
  <2>1. cache[ReaderProc[r]][PageKey(p)] \in Corpora
    BY <1>0, <1>11, PanelAssumption DEF TypeOK
  <2> QED
    BY <1>0, <1>10, <1>12, <2>1 DEF GetWeights, PageAt, Filled
<1>13. CASE ReadCorpus(r)
  <2>1. Names(PageKey(p)) \in Corpora
    BY <1>0, <1>11, NamesType
  <2> QED
    BY <1>0, <1>10, <1>13, <2>1 DEF ReadCorpus, PageAt, Filled
<1>14. CASE ReadCorpusItems(r)
  <2>1. p.corpus \cup Mappable \in Corpora
    BY <1>0, AllowedType DEF Pages, Corpora
  <2>2. [p EXCEPT !.corpus = @ \cup Mappable]
          = [p EXCEPT !.corpus = p.corpus \cup Mappable]
    OBVIOUS
  <2> QED
    BY <1>0, <1>10, <1>14, <2>1, <2>2 DEF ReadCorpusItems, PageAt, Filled
<1>15. CASE StoreWeights(r)
  <2>1. /\ rpc[r] = "store" /\ executed' = executed /\ pages' = pages /\ page' = page
        /\ rpc'[r] = "show" /\ rpc' = [rpc EXCEPT ![r] = "show"]
    BY <1>3, <1>15 DEF StoreWeights, PageAt
  <2>2. ReaderInv(r)'
    BY <1>0, <2>1, PageGoesOn DEF ReaderInv, Unresolved, Filled
  <2> QED
    BY <1>0, <1>2, <2>1, <2>2 DEF PageSteps
<1>16. CASE ShowPage(r) \/ PageFails(r)
  <2>1. /\ Learn(r, NoPage) /\ Turn(r, "idle")
        /\ executed' = executed /\ pages' = pages
    BY <1>16 DEF ShowPage, PageFails
  <2>2. page' = [page EXCEPT ![r] = NoPage] /\ page'[r] = NoPage
    BY <2>1, <1>4, NoPageType
  <2>3. rpc' = [rpc EXCEPT ![r] = "idle"] /\ rpc'[r] = "idle"
    BY <2>1, <1>3
  <2> QED
    BY <1>0, <2>1, <2>2, <2>3, PageEnds, NoPageType DEF PageSteps
<1> QED
  BY <1>5, <1>6, <1>7, <1>8, <1>9, <1>12, <1>13, <1>14, <1>15, <1>16 DEF Build

-----------------------------------------------------------------------------
(* The theorems.                                                           *)

LEMMA InitPageInv == PanelInit => PageInv
<1> SUFFICES ASSUME PanelInit PROVE PageInv
  OBVIOUS
<1>1. IInv
  BY InitIInv DEF PanelInit
<1>2. \A r \in Readers : ReaderInv(r)
  BY DEF PanelInit, ReaderInv, NoPage, Unresolved, Filled
<1> QED
  BY <1>1, <1>2, NoPageType DEF PanelInit, DatedInit, PageInv, PageSteps

\* Steps of a page change that page alone, crashes end pages, and other steps
\* leave every page as it is.
LEMMA PageInvStep == PageInv /\ [PanelNext]_panelVars => PageInv'
<1> SUFFICES ASSUME PageInv, [PanelNext]_panelVars PROVE PageInv'
  OBVIOUS
<1>1. IInv' /\ Grows
  BY PipelineStep
<1>2. /\ rpc \in [Readers -> PageSteps] /\ page \in [Readers -> Pages]
      /\ executed \in [BatchIds -> Days] /\ pages \in Nat
      /\ \A r \in Readers : ReaderInv(r)
  BY DEF PageInv
<1>3. ASSUME NEW r \in Readers, AskPage(r) \/ Build(r)
      PROVE  PageInv'
  <2>1. PICK step \in PageSteps, p \in Pages :
          /\ rpc' = [rpc EXCEPT ![r] = step] /\ page' = [page EXCEPT ![r] = p]
          /\ executed' = executed /\ pages' \in Nat /\ ReaderInv(r)'
    BY <1>1, <1>3, BuildStep
  <2>2. \A o \in Readers \ {r} : rpc'[o] = rpc[o] /\ page'[o] = page[o]
    BY <2>1, <1>2
  <2>3. \A o \in Readers : ReaderInv(o)'
    BY <1>1, <1>2, <2>1, <2>2, PageKept
  <2> QED
    BY <1>1, <1>2, <2>1, <2>3 DEF PageInv
<1>4. ASSUME NEW p \in Procs, CrashAll(p)
      PROVE  PageInv'
  <2>1. /\ executed' = executed /\ pages' = pages
        /\ rpc'  = [r \in Readers |-> IF ReaderProc[r] = p THEN "idle" ELSE rpc[r]]
        /\ page' = [r \in Readers |-> IF ReaderProc[r] = p THEN NoPage ELSE page[r]]
    BY <1>4 DEF CrashAll
  <2>2. \A r \in Readers : ReaderInv(r)'
    BY <1>1, <1>2, <2>1, PageKept, PageEnds
  <2> QED
    BY <1>1, <1>2, <2>1, <2>2, NoPageType DEF PageInv, PageSteps
<1>5. CASE UNCHANGED reader
  <2>1. \A r \in Readers : ReaderInv(r)'
    BY <1>1, <1>2, <1>5, PageKept DEF reader
  <2> QED
    BY <1>1, <1>2, <1>5, <2>1 DEF PageInv, reader
<1> QED
  BY <1>3, <1>4, <1>5 DEF PanelNext, panelVars

LEMMA PanelInductive == PanelSpec => []PageInv
BY InitPageInv, PageInvStep, PTL DEF PanelSpec

\* Whatever is imported, fails or crashes between the statements of a page, its
\* locals keep their types, and a page that has got to its rows has some of every
\* store it reads.
THEOREM PageTypeCorrect == PanelSpec => []PageTypeOK
<1>1. PageInv => PageTypeOK
  BY DEF PageInv, PageTypeOK, ReaderInv, Filled
<1> QED
  BY <1>1, PanelInductive, PTL

\* A page of OurProducts reads each store from a batch at least as new as every
\* completed batch that had rows of the store when the page was asked for.
THEOREM PagesAreNotOlder == PanelSpec => []PageNotOlder
<1>1. PageInv => PageNotOlder
  BY DEF PageInv, PageNotOlder, ReaderInv, Unresolved
<1> QED
  BY <1>1, PanelInductive, PTL

-----------------------------------------------------------------------------
(* The imports beside the pages.  Pages share the imports' cache, so what   *)
(* SettledProofs shows of imports alone has to be shown again with them.    *)

\* Weights a page stores are no import's but those of a batch set; an import of
\* exactly that batch is no longer a clean one, and the others never look there.
LEMMA SettledWhenWeighing ==
    ASSUME SettledInv, PageInv, NEW r \in Readers, StoreWeights(r)
    PROVE  SettledInv'
<1> DEFINE key == PageKey(page[r])
<1>1. /\ IInv /\ TypeOK /\ OneSummary
      /\ \A w \in Workers : WorkerInv(w) /\ Placed(w) /\ Alone(w) /\ Exact(w)
      /\ \A b \in BatchIds : Blank(b) /\ Held(b)
  BY DEF SettledInv, IInv
<1>2. /\ IInv' /\ UNCHANGED <<tables, pc, job, settled>>
      /\ clean' = {w \in clean : {job[w].batch} # key}
      /\ cache' = [cache EXCEPT ![ReaderProc[r]][key] = page[r].corpus]
  BY WeightsStep DEF StoreWeights
<1>3. \A b \in BatchIds : Untouched(b) /\ batches'[b] = batches[b]
  BY <1>2 DEF Untouched, tables
<1>4. OneSummary'
  BY <1>1, <1>2 DEF OneSummary, tables
<1>5. ASSUME NEW w \in Workers PROVE Placed(w)' /\ Alone(w)'
  <2>1. Placed(w)'
    BY <1>1, <1>2 DEF Placed, tables
  <2>2. Alone(w)'
    BY <1>1, <1>2 DEF Alone
  <2> QED
    BY <2>1, <2>2
<1>6. ASSUME NEW w \in Workers PROVE Exact(w)'
  <2>1. CASE w \notin clean'
    BY <2>1 DEF Exact
  <2>2. CASE w \in clean'
    <3>1. w \in clean /\ {job[w].batch} # key
      BY <1>2, <2>2
    <3>2. pc[w] \in Located => job[w].batch \in BatchIds /\ Untouched(job[w].batch)
      BY <1>1, <1>3 DEF WorkerInv
    <3>3. cache'[ProcOf[w]][{job[w].batch}] = cache[ProcOf[w]][{job[w].batch}]
      BY <1>1, <1>2, <3>1, IngestAssumption DEF TypeOK
    <3>4. pc'[w] = pc[w] /\ job'[w] = job[w]
      BY <1>2
    <3> QED
      BY <1>1, <3>1, <3>2, <3>3, <3>4, ExactKept
  <2> QED
    BY <2>1, <2>2
<1>7. ASSUME NEW b \in BatchIds PROVE Blank(b)' /\ Held(b)'
  <2>1. Blank(b)'
    BY <1>1, <1>2 DEF Blank, tables
  <2>2. \A w \in Workers : b \in settled /\ pc'[w] # "idle" =>
                              job'[w].code # batches[b].code
    BY <1>1, <1>2 DEF Held
  <2>3. Held(b)'
    BY <1>1, <1>2, <1>3, <2>2, HeldKept
  <2> QED
    BY <2>1, <2>3
<1> QED
  BY <1>2, <1>4, <1>5, <1>6, <1>7 DEF SettledInv

LEMMA PanelKeepsSettled == PanelSpec => []SettledInv
<1>1. PanelInit => SettledInv
  BY InitSettledInv DEF PanelInit
<1>2. SettledInv /\ PageInv /\ [PanelNext]_panelVars => SettledInv'
  BY StepOrWeights, SettledInvStep, SettledWhenWeighing
<1> QED
  BY <1>1, <1>2, PanelInductive, PTL DEF PanelSpec

\* Whatever pages are built meanwhile, from whatever weights they leave in the
\* cache that the imports use, an import that ran alone in its batch and to its
\* end left exactly the matches of the rows and cells there are.
THEOREM PagesSpoilNoMatches == PanelSpec => []SettledMatches
<1>1. SettledInv => SettledMatches
  BY DEF SettledInv, IInv, TypeOK, Held, Remapped, SettledMatches
<1> QED
  BY <1>1, PanelKeepsSettled, PTL

-----------------------------------------------------------------------------
(* The abstract pages.  The mapping needs that a file of a store is never   *)
(* empty (Filed), and that a page says nothing of batches and rows before   *)
(* the statements that read them (Unseen).                                  *)

Filed ==
    \A b \in BatchIds, k \in Kompetitors :
        products[b][k].version # 0 => HasRows(b, k)

Unseen(r) ==
    /\ rpc[r] = "idle" => page[r] = NoPage
    /\ rpc[r] \in Unresolved => page[r].batchOf = NoPage.batchOf
    /\ rpc[r] \notin Filled => page[r].rows = NoPage.rows

Views == [r \in Readers |-> Seen(rpc[r], page[r])]

\* ReplaceProducts never stores an empty file.
LEMMA FiledStep == IInv /\ Filed /\ [Next]_vars => Filed'
<1> SUFFICES ASSUME IInv, Filed, [Next]_vars, products' # products PROVE Filed'
  BY DEF Filed, HasRows
<1>1. PICK w \in Workers : ReplaceProducts(w)
  <2>1. \A p \in Procs : ~Crash(p) /\ ~ExpireIdf(p)
    BY DEF Crash, ExpireIdf, tables
  <2>2. \A i \in Items : ~EditCell(i)
    BY DEF EditCell, CellsBecome
  <2>3. ASSUME NEW w \in Workers, Begin(w) \/ Step(w) PROVE ReplaceProducts(w)
    BY <2>3 DEF Begin, Step, FindBatch, CreateBatch, AggregateProducts, FindSummaries,
       WriteSummaries, MarkCompleted, StatementFails, ReadProducts, ReadItems,
       ForgetIdf, GetIdf, ReadNames, ReadItemNames, SetIdf, ReadAllowed,
       ReplaceMappings, MappingFails, tables
  <2> QED
    BY <2>1, <2>2, <2>3 DEF Next, Finished, vars, tables
<1>2. /\ job[w].batch \in BatchIds /\ job[w].kompetitor \in Kompetitors
      /\ job[w].titles # {}
  BY <1>1 DEF IInv, ReplaceProducts, At, WorkerInv, Located, Steps, ImportSteps
<1> SUFFICES ASSUME NEW b \in BatchIds, NEW k \in Kompetitors,
                    products'[b][k].version # 0
             PROVE  products'[b][k].titles # {}
  BY DEF Filed, HasRows
<1>3. CASE b = job[w].batch /\ k = job[w].kompetitor
  <2>1. products'[b][k] = [version |-> products[b][k].version + 1,
                           titles |-> job[w].titles]
    BY <1>1, <1>2, <1>3 DEF IInv, TypeOK, ReplaceProducts
  <2> QED
    BY <1>2, <2>1
<1>4. CASE ~(b = job[w].batch /\ k = job[w].kompetitor)
  <2>1. products'[b][k] = products[b][k]
    BY <1>1, <1>2, <1>4 DEF IInv, TypeOK, ReplaceProducts
  <2> QED
    BY <2>1 DEF Filed, HasRows
<1> QED
  BY <1>3, <1>4

\* A store can be read from the batches that have a file of it.
LEMMA ReadableFiles ==
    ASSUME IInv, Filed, NEW k \in Kompetitors
    PROVE  Reader!Readable(k) = Readable(k)
<1>1. \A b \in BatchIds : HasRows(b, k) <=> products[b][k].version # 0
  BY DEF IInv, Versioned, Filed
<1> QED
  BY <1>1 DEF Reader!Readable, Readable, Completed

\* What a page has seen at each of its statements.
LEMMA SeenAt ==
    ASSUME NEW step \in PageSteps, NEW p \in Pages
    PROVE  /\ step = "idle" /\ p = NoPage => Seen(step, p) = Reader!NoView
           /\ step \in Unresolved /\ p.batchOf = NoPage.batchOf /\ p.rows = NoPage.rows
                => Seen(step, p) = Reader!Asked(p.known)
           /\ step \in {"cells", "products"} /\ p.rows = NoPage.rows
                => Seen(step, p) = Reader!Picked(p.known, p.batchOf)
           /\ step \in Filled
                => Seen(step, p) = Reader!View("shown", p.known, p.batchOf,
                                      [k \in Kompetitors |-> p.rows[k].version])
<1>1. p.rows = NoPage.rows =>
        [k \in Kompetitors |-> p.rows[k].version] = Reader!Nothing
  BY DEF NoPage, NoRows, Reader!Nothing
<1>2. /\ NoPage.batchOf = Reader!Nowhere
      /\ NoPage.known = [k \in Kompetitors |-> {}]
  BY DEF NoPage, Reader!Nowhere
<1> QED
  BY <1>1, <1>2 DEF Seen, Filled, Picked, Unresolved, PageSteps, Reader!NoView,
     Reader!Asked, Reader!Picked, Reader!View

\* A page that moves changes its own view only.
LEMMA ViewsMove ==
    ASSUME NEW r \in Readers, NEW step, NEW q,
           rpc \in [Readers -> PageSteps], page \in [Readers -> Pages],
           rpc' = [rpc EXCEPT ![r] = step], page' = [page EXCEPT ![r] = q]
    PROVE  /\ rpc'[r] = step /\ page'[r] = q
           /\ Views[r] = Seen(rpc[r], page[r])
           /\ Views' = [Views EXCEPT ![r] = Seen(step, q)]
<1>1. \A o \in Readers : /\ rpc'[o] = IF o = r THEN step ELSE rpc[o]
                         /\ page'[o] = IF o = r THEN q ELSE page[o]
  OBVIOUS
<1>2. \A o \in Readers : Views'[o] = [Views EXCEPT ![r] = Seen(step, q)][o]
  BY <1>1 DEF Views
<1> QED
  BY <1>1, <1>2 DEF Views

\* What a page can rely on once it has picked its batches is what a pick promises.
LEMMA Picks ==
    ASSUME PageInv, Filed, NEW r \in Readers, NEW q \in Pages,
           rpc[r] \in Unresolved, page[r].batchOf = NoPage.batchOf,
           page[r].rows = NoPage.rows,
           rpc' = [rpc EXCEPT ![r] = "cells"], page' = [page EXCEPT ![r] = q],
           q.known = page[r].known, q.rows = page[r].rows,
           ReaderInv(r)', UNCHANGED <<vars, executed>>
    PROVE  Reader!Pick(r)
<1> DEFINE p    == page[r]
           from == q.batchOf
<1>1. /\ p \in Pages /\ rpc \in [Readers -> PageSteps] /\ page \in [Readers -> Pages]
      /\ rpc[r] \in PageSteps /\ "cells" \in PageSteps /\ IInv
      /\ from \in [Kompetitors -> BatchIds \cup {None}]
  BY DEF PageInv, PageSteps, Pages
<1>2. /\ rpc'[r] = "cells" /\ page'[r] = q
      /\ Views[r] = Reader!Asked(p.known)
      /\ Views' = [Views EXCEPT ![r] = Reader!Picked(p.known, from)]
  <2>1. /\ rpc'[r] = "cells" /\ page'[r] = q
        /\ Views[r] = Seen(rpc[r], p) /\ Views' = [Views EXCEPT ![r] = Seen("cells", q)]
    BY <1>1, ViewsMove
  <2>2. Seen(rpc[r], p) = Reader!Asked(p.known)
    BY <1>1, SeenAt
  <2>3. Seen("cells", q) = Reader!Picked(p.known, from)
    BY <1>1, SeenAt
  <2> QED
    BY <2>1, <2>2, <2>3
<1>3. Views[r].known = p.known
  BY <1>2 DEF Reader!Asked, Reader!View
<1>4. Reader!Picks(p.known, from)
  <2> SUFFICES ASSUME NEW k \in Kompetitors
               PROVE  /\ from[k] # None => from[k] \in Reader!Readable(k)
                      /\ \A b \in p.known[k] :
                           from[k] # None /\ executed[b] <= executed[from[k]]
    BY DEF Reader!Picks
  <2>1. Readable(k)' = Readable(k) /\ executed' = executed
    BY DEF Readable, Completed, HasRows, vars, tables
  <2>2. Reader!Readable(k) = Readable(k)
    BY <1>1, ReadableFiles
  <2>3. /\ from[k] # None => from[k] \in Readable(k)
        /\ \A b \in p.known[k] : from[k] # None /\ executed[b] <= executed[from[k]]
    BY <1>2, <2>1 DEF ReaderInv, Unresolved
  <2> QED
    BY <2>2, <2>3
<1> HIDE DEF p, from
<1> QED
  BY <1>1, <1>2, <1>3, <1>4 DEF Reader!Pick, Views

\* What a page shows is what its batches hold when it reads them.
LEMMA Shows ==
    ASSUME PageInv, NEW r \in Readers, NEW q \in Pages, NEW step \in Filled,
           NEW some \in SUBSET {k \in Kompetitors : page[r].batchOf[k] # None},
           rpc[r] \in {"cells", "products"}, page[r].rows = NoPage.rows,
           rpc' = [rpc EXCEPT ![r] = step], page' = [page EXCEPT ![r] = q],
           q.known = page[r].known, q.batchOf = page[r].batchOf,
           \A k \in Kompetitors : q.rows[k] = IF k \in some
                                              THEN products[page[r].batchOf[k]][k]
                                              ELSE NoRows
    PROVE  Reader!Show(r)
<1> DEFINE p     == page[r]
           shows == [k \in Kompetitors |->
                       IF k \in some THEN products[p.batchOf[k]][k].version ELSE 0]
<1>1. /\ p \in Pages /\ rpc \in [Readers -> PageSteps] /\ page \in [Readers -> Pages]
      /\ rpc[r] \in PageSteps /\ step \in PageSteps
      /\ p.batchOf \in [Kompetitors -> BatchIds \cup {None}]
  BY DEF PageInv, PageSteps, Pages, Filled
<1>2. [k \in Kompetitors |-> q.rows[k].version] = shows
  BY DEF NoRows
<1>3. /\ Views[r] = Reader!Picked(p.known, p.batchOf)
      /\ Views' = [Views EXCEPT ![r] = Reader!View("shown", p.known, p.batchOf, shows)]
  <2>1. Views[r] = Seen(rpc[r], p) /\ Views' = [Views EXCEPT ![r] = Seen(step, q)]
    BY <1>1, ViewsMove
  <2>2. Seen(rpc[r], p) = Reader!Picked(p.known, p.batchOf)
    BY <1>1, SeenAt
  <2>3. Seen(step, q) = Reader!View("shown", p.known, p.batchOf, shows)
    BY <1>1, <1>2, SeenAt
  <2> QED
    BY <2>1, <2>2, <2>3
<1>4. Views[r].known = p.known /\ Views[r].from = p.batchOf
  BY <1>3 DEF Reader!Picked, Reader!View
<1> DEFINE files == [b \in BatchIds |->
                       [k \in Kompetitors |-> products[b][k].version]]
           view  == Views[r]
<1>5. shows = [k \in Kompetitors |-> IF k \in some THEN files[view.from[k]][k] ELSE 0]
  BY <1>1, <1>4
<1>6. /\ view = Reader!Picked(view.known, view.from)
      /\ Views' = [Views EXCEPT ![r] = Reader!View("shown", view.known, view.from, shows)]
      /\ some \in SUBSET {k \in Kompetitors : view.from[k] # None}
  BY <1>3, <1>4
<1> HIDE DEF p, shows
<1> QED
  BY <1>5, <1>6 DEF Reader!Show, Views

\* A page that ends, ends its view.
LEMMA Drops ==
    ASSUME PageInv, NEW some \in SUBSET Readers,
           \A r \in Readers : IF r \in some THEN rpc'[r] = "idle" /\ page'[r] = NoPage
                              ELSE rpc'[r] = rpc[r] /\ page'[r] = page[r]
    PROVE  Reader!Drop(some)
<1>1. Seen("idle", NoPage) = Reader!NoView
  BY SeenAt, NoPageType DEF PageSteps
<1>2. Views' = [r \in Readers |-> IF r \in some THEN Reader!NoView ELSE Views[r]]
  BY <1>1 DEF Views
<1> QED
  BY <1>2 DEF Reader!Drop, Views

\* Every statement of a page is a look at the batches, the end of the page, or
\* changes nothing of what the page has seen.
LEMMA LookStep ==
    ASSUME PageInv, Filed, NEW r \in Readers, Unseen(r), AskPage(r) \/ Build(r),
           ReaderInv(r)',
           NEW step \in PageSteps, rpc' = [rpc EXCEPT ![r] = step],
           NEW q \in Pages, page' = [page EXCEPT ![r] = q]
    PROVE  /\ Reader!Look \/ UNCHANGED Views
           /\ Unseen(r)'
<1> DEFINE p == page[r]
<1>0. /\ p \in Pages /\ rpc \in [Readers -> PageSteps] /\ page \in [Readers -> Pages]
      /\ rpc[r] \in PageSteps /\ IInv /\ NoPage \in Pages
      /\ "idle" \in PageSteps /\ "latest" \in PageSteps
  BY NoPageType DEF PageInv, PageSteps
<1>1. /\ rpc'[r] = step /\ page'[r] = q /\ Views[r] = Seen(rpc[r], p)
      /\ Views' = [Views EXCEPT ![r] = Seen(step, q)]
  BY <1>0, ViewsMove
<1>2. \A x : Turn(r, x) => x = step
  BY <1>0, <1>1 DEF Turn
<1>3. \A x : Learn(r, x) => x = q
  BY <1>0, <1>1 DEF Learn
<1>4. ASSUME Seen(step, q) = Seen(rpc[r], p) PROVE UNCHANGED Views
  BY <1>1, <1>4 DEF Views
<1>5. Unseen(r)' <=> /\ step = "idle" => q = NoPage
                     /\ step \in Unresolved => q.batchOf = NoPage.batchOf
                     /\ step \notin Filled => q.rows = NoPage.rows
  BY <1>1 DEF Unseen
<1>6. CASE AskPage(r)
  <2>1. PICK items \in SUBSET Items :
          /\ rpc[r] = "idle" /\ step = "latest"
          /\ q = [NoPage EXCEPT !.items = items,
                                !.known = [k \in Kompetitors |-> Readable(k)]]
    BY <1>2, <1>3, <1>6 DEF AskPage, PageAt
  <2>2. /\ q.known = [k \in Kompetitors |-> Readable(k)]
        /\ q.batchOf = NoPage.batchOf /\ q.rows = NoPage.rows
    BY <2>1 DEF NoPage
  <2>3. Seen(rpc[r], p) = Reader!NoView
    BY <1>0, <2>1, SeenAt DEF Unseen
  <2>4. q.known = [k \in Kompetitors |-> Reader!Readable(k)]
    BY <1>0, <2>2, ReadableFiles
  <2>5. Seen(step, q) = Reader!Asked([k \in Kompetitors |-> Reader!Readable(k)])
    <3>1. Seen(step, q) = Reader!Asked(q.known)
      BY <1>0, <2>1, <2>2, SeenAt DEF Unresolved
    <3> QED
      BY <2>4, <3>1
  <2>6. Reader!Ask(r)
    BY <1>1, <2>3, <2>5 DEF Reader!Ask, Views
  <2> QED
    BY <1>5, <2>1, <2>2, <2>6 DEF Reader!Look, Filled, Unresolved
<1>7. CASE ReadLatest(r)
  <2>1. /\ rpc[r] = "latest" /\ p.batchOf = NoPage.batchOf /\ p.rows = NoPage.rows
        /\ UNCHANGED <<vars, executed>>
    BY <1>7 DEF ReadLatest, PageAt, Unseen, Unresolved, Filled
  <2>2. CASE Completed = {} /\ step = "cells" /\ q = p
    <3>1. Reader!Pick(r)
      BY <2>1, <2>2, Picks DEF Unresolved
    <3> QED
      BY <1>5, <2>1, <2>2, <3>1 DEF Reader!Look, Unresolved
  <2>3. ASSUME NEW b \in BatchIds, step = "batchRows", q = [p EXCEPT !.latest = b]
        PROVE  UNCHANGED Views /\ Unseen(r)'
    <3>1. q.known = p.known /\ q.batchOf = p.batchOf /\ q.rows = p.rows
      BY <1>0, <2>3 DEF Pages
    <3>2. /\ Seen(step, q) = Reader!Asked(p.known)
          /\ Seen(rpc[r], p) = Reader!Asked(p.known)
      BY <1>0, <2>1, <2>3, <3>1, SeenAt DEF Unresolved
    <3> QED
      BY <1>4, <1>5, <2>1, <2>3, <3>1, <3>2
  <2> QED
    BY <1>1, <1>2, <1>3, <1>7, <2>2, <2>3 DEF ReadLatest
<1>8. CASE ReadBatchRows(r)
  <2>1. PICK batchOf \in [Kompetitors -> BatchIds \cup {None}] :
          /\ rpc[r] = "batchRows" /\ step = "cells"
          /\ q = [p EXCEPT !.batchOf = batchOf]
          /\ UNCHANGED <<vars, executed>>
    BY <1>2, <1>3, <1>8 DEF ReadBatchRows, PageAt
  <2>2. /\ p.batchOf = NoPage.batchOf /\ p.rows = NoPage.rows
        /\ q.known = p.known /\ q.rows = p.rows
    BY <1>0, <2>1 DEF Pages, Unseen, Unresolved, Filled
  <2>3. Reader!Pick(r)
    BY <2>1, <2>2, Picks DEF Unresolved
  <2> QED
    BY <1>5, <2>1, <2>2, <2>3 DEF Reader!Look, Unresolved
<1>9. CASE ReadCells(r)
  <2>1. PICK allowed :
          /\ rpc[r] = "cells" /\ step \in {"show", "products"}
          /\ q = [p EXCEPT !.allowed = allowed]
    BY <1>2, <1>3, <1>9 DEF ReadCells, PageAt
  <2>2. /\ p.rows = NoPage.rows
        /\ q.known = p.known /\ q.batchOf = p.batchOf /\ q.rows = p.rows
    BY <1>0, <2>1 DEF Pages, Unseen, Filled
  <2>3. CASE step = "show"
    <3>1. \A k \in Kompetitors : q.rows[k] = NoRows
      BY <2>2 DEF NoPage
    <3>2. step \in Filled
      BY <2>3 DEF Filled
    <3>3. Reader!Show(r)
      <4>1. \A k \in Kompetitors : q.rows[k] = IF k \in {} THEN products[p.batchOf[k]][k]
                                               ELSE NoRows
        BY <3>1
      <4>2. {} \in SUBSET {k \in Kompetitors : p.batchOf[k] # None}
        OBVIOUS
      <4> QED
        BY <2>1, <2>2, <3>2, <4>1, <4>2, Shows
    <3> QED
      BY <1>5, <2>3, <3>2, <3>3 DEF Reader!Look, Unresolved
  <2>4. CASE step = "products"
    <3>1. /\ Seen(step, q) = Reader!Picked(p.known, p.batchOf)
          /\ Seen(rpc[r], p) = Reader!Picked(p.known, p.batchOf)
      BY <1>0, <2>1, <2>2, <2>4, SeenAt
    <3> QED
      BY <1>4, <1>5, <2>2, <2>4, <3>1 DEF Unresolved
  <2> QED
    BY <2>1, <2>3, <2>4
<1>10. CASE ReadPairs(r)
  <2> DEFINE rows == [k \in Kompetitors |-> IF k \in Paired(p)
                                            THEN products[p.batchOf[k]][k]
                                            ELSE NoRows]
             some == Paired(p) \cap Kompetitors
  <2>1. /\ rpc[r] = "products" /\ step \in {"show", "weights"}
        /\ q = [p EXCEPT !.rows = rows]
    BY <1>2, <1>3, <1>10 DEF ReadPairs, PageAt
  <2>2. /\ p.rows = NoPage.rows
        /\ q.known = p.known /\ q.batchOf = p.batchOf /\ q.rows = rows
    BY <1>0, <2>1 DEF Pages, Unseen, Filled
  <2>3. some \in SUBSET {k \in Kompetitors : p.batchOf[k] # None}
    BY DEF Paired
  <2>4. \A k \in Kompetitors : q.rows[k] = IF k \in some THEN products[p.batchOf[k]][k]
                                           ELSE NoRows
    BY <2>2
  <2>5. step \in Filled /\ step # "idle" /\ step \notin Unresolved
    BY <2>1 DEF Filled, Unresolved
  <2>6. Reader!Show(r)
    <3> HIDE DEF rows, some
    <3> QED
      BY <2>1, <2>2, <2>3, <2>4, <2>5, Shows
  <2> QED
    BY <1>5, <2>5, <2>6 DEF Reader!Look
<1>11. ASSUME rpc[r] \in Filled, step \in Filled, q.known = p.known,
              q.batchOf = p.batchOf, q.rows = p.rows
       PROVE  UNCHANGED Views /\ Unseen(r)'
  <2>1. /\ Seen(step, q) = Reader!View("shown", p.known, p.batchOf,
                             [k \in Kompetitors |-> p.rows[k].version])
        /\ Seen(rpc[r], p) = Reader!View("shown", p.known, p.batchOf,
                               [k \in Kompetitors |-> p.rows[k].version])
    <3> HIDE DEF p
    <3> QED
      BY <1>0, <1>11, SeenAt
  <2> QED
    BY <1>4, <1>5, <1>11, <2>1 DEF Filled, Unresolved
<1>12. CASE GetWeights(r) \/ ReadCorpus(r) \/ ReadCorpusItems(r)
  <2>1. PICK corpus : q = [p EXCEPT !.corpus = corpus]
    BY <1>3, <1>12 DEF GetWeights, ReadCorpus, ReadCorpusItems
  <2>2. rpc[r] \in Filled /\ step \in Filled
    BY <1>2, <1>12 DEF GetWeights, ReadCorpus, ReadCorpusItems, PageAt, Filled
  <2> QED
    BY <1>0, <1>11, <2>1, <2>2 DEF Pages
<1>13. CASE StoreWeights(r)
  <2>1. q = p /\ rpc[r] \in Filled /\ step \in Filled
    BY <1>1, <1>2, <1>13 DEF StoreWeights, PageAt, Filled
  <2> QED
    BY <1>11, <2>1
<1>14. CASE ShowPage(r) \/ PageFails(r)
  <2>1. step = "idle" /\ q = NoPage
    BY <1>2, <1>3, <1>14 DEF ShowPage, PageFails
  <2>2. Reader!Drop({r})
    BY <1>0, <1>1, <2>1, Drops
  <2> QED
    BY <1>5, <2>1, <2>2 DEF Reader!Look, Unresolved, Filled
<1> QED
  BY <1>6, <1>7, <1>8, <1>9, <1>10, <1>12, <1>13, <1>14 DEF Build

\* A step of the pipeline below is one of the abstract batches.
LEMMA BatchesStep ==
    ASSUME IInv, Opened, [Next]_vars
    PROVE  Reader!Next \/ UNCHANGED Reader!vars
<1>1. Promise!Next => Reader!Next
  BY DEF Promise!Next, Promise!Open, Promise!Store, Promise!Summarise, Promise!Complete,
     Promise!Acknowledge, Reader!Next, Reader!Open, Reader!Store, Reader!Summarise,
     Reader!Complete, Reader!Acknowledge
<1>2. UNCHANGED Promise!vars => UNCHANGED Reader!vars
  BY DEF Promise!vars, Reader!vars
<1> QED
  BY <1>1, <1>2, StepImplements

LookInv == Opened /\ Filed /\ \A r \in Readers : Unseen(r)

\* Every step of Panel keeps what the mapping needs, and is a step of the abstract
\* batches, of a page that looks at them, or of neither.
LEMMA LookInvStep ==
    ASSUME PageInv, LookInv, [PanelNext]_panelVars
    PROVE  LookInv' /\ [Reader!ReadingNext]_(Reader!readingVars)
<1>1. IInv /\ Opened /\ Filed /\ \A r \in Readers : Unseen(r)
  BY DEF PageInv, LookInv
<1>2. /\ rpc \in [Readers -> PageSteps] /\ page \in [Readers -> Pages]
  BY DEF PageInv
<1>3. executed' = executed
  BY DEF PanelNext, AskPage, Build, ReadLatest, ReadBatchRows, ReadCells, ReadPairs,
     GetWeights, ReadCorpus, ReadCorpusItems, StoreWeights, ShowPage, PageFails,
     CrashAll, reader, panelVars
<1>4. ASSUME Reader!Next \/ UNCHANGED Reader!vars, UNCHANGED Views
      PROVE  [Reader!ReadingNext]_(Reader!readingVars)
  BY <1>3, <1>4 DEF Reader!ReadingNext, Reader!readingVars, Views
<1>5. ASSUME Reader!Look, UNCHANGED Reader!vars
      PROVE  [Reader!ReadingNext]_(Reader!readingVars)
  BY <1>3, <1>5 DEF Reader!ReadingNext
<1>6. ASSUME [Next]_vars
      PROVE  /\ Opened' /\ Filed'
             /\ Reader!Next \/ UNCHANGED Reader!vars
  BY <1>1, <1>6, OpenedStep, FiledStep, BatchesStep
<1>7. ASSUME NEW r \in Readers, AskPage(r) \/ Build(r)
      PROVE  LookInv' /\ [Reader!ReadingNext]_(Reader!readingVars)
  <2>1. UNCHANGED vars \/ StoreWeights(r)
    BY <1>7 DEF Build, AskPage, ReadLatest, ReadBatchRows, ReadCells, ReadPairs,
                GetWeights, ReadCorpus, ReadCorpusItems, ShowPage, PageFails
  <2>2. UNCHANGED <<tables, pc, job, acked>>
    BY <2>1 DEF StoreWeights, vars, history
  <2>3. UNCHANGED Reader!vars /\ Opened' /\ Filed'
    BY <1>1, <2>2 DEF tables, Reader!vars, Described, Opened, Filed, HasRows
  <2>4. PICK step \in PageSteps, q \in Pages :
          /\ rpc' = [rpc EXCEPT ![r] = step] /\ page' = [page EXCEPT ![r] = q]
          /\ ReaderInv(r)'
    BY <1>7, PipelineStep, BuildStep
  <2>5. (Reader!Look \/ UNCHANGED Views) /\ Unseen(r)'
    BY <1>1, <1>7, <2>4, LookStep
  <2>6. \A o \in Readers \ {r} : Unseen(o)'
    BY <1>1, <1>2, <2>4 DEF Unseen
  <2> QED
    BY <1>4, <1>5, <2>3, <2>5, <2>6 DEF LookInv
<1>8. ASSUME NEW p \in Procs, CrashAll(p)
      PROVE  LookInv' /\ [Reader!ReadingNext]_(Reader!readingVars)
  <2>1. Opened' /\ Filed'
    BY <1>6, <1>8 DEF CrashAll, Next
  <2>2. UNCHANGED Reader!vars
    BY <1>8 DEF CrashAll, Crash, tables, Reader!vars, Described
  <2>3. \A r \in Readers : IF ReaderProc[r] = p
                           THEN rpc'[r] = "idle" /\ page'[r] = NoPage
                           ELSE rpc'[r] = rpc[r] /\ page'[r] = page[r]
    BY <1>8 DEF CrashAll
  <2>4. \A r \in Readers : Unseen(r)'
    BY <1>1, <2>3 DEF Unseen, Unresolved, Filled
  <2>5. Reader!Drop({r \in Readers : ReaderProc[r] = p})
    BY <2>3, Drops
  <2> QED
    BY <1>5, <2>1, <2>2, <2>4, <2>5 DEF LookInv, Reader!Look
<1>9. CASE (Beside \/ UNCHANGED vars) /\ UNCHANGED reader
  <2>1. [Next]_vars
    BY <1>9 DEF Beside, Next
  <2>2. UNCHANGED Views /\ \A r \in Readers : Unseen(r)'
    BY <1>1, <1>9 DEF reader, Views, Unseen
  <2> QED
    BY <1>4, <1>6, <2>1, <2>2 DEF LookInv
<1> QED
  BY <1>7, <1>8, <1>9 DEF PanelNext, panelVars

\* The statements of OurProducts, between which imports commit, fail and crash,
\* show what two looks at the batches would: no page mixes the files of a store,
\* or shows a batch that was not complete when it was picked.
THEOREM PagesImplementReading == PanelSpec => ImplementsReading
<1>1. PanelInit => LookInv
  <2> SUFFICES ASSUME PanelInit PROVE LookInv
    OBVIOUS
  <2>1. Filed
    BY DEF PanelInit, Init, Filed, NoRows
  <2>2. \A r \in Readers : Unseen(r)
    BY DEF PanelInit, Unseen, NoPage
  <2> QED
    BY <2>1, <2>2, InitOpened DEF PanelInit, LookInv
<1>2. PanelInit => Reader!ReadingInit
  <2> SUFFICES ASSUME PanelInit PROVE Reader!ReadingInit
    OBVIOUS
  <2>1. Reader!Init
    BY EmptySeq DEF PanelInit, Init, Reader!Init, Described, NoRows
  <2>2. executed \in [BatchIds -> Nat]
    BY DatedAssumption DEF PanelInit, DatedInit
  <2>3. Seen("idle", NoPage) = Reader!NoView
    BY SeenAt, NoPageType DEF PageSteps
  <2>4. Views = [r \in Readers |-> Reader!NoView]
    BY <2>3 DEF Views, PanelInit
  <2> QED
    BY <2>1, <2>2, <2>4 DEF Reader!ReadingInit, Views
<1>3. PageInv /\ LookInv /\ [PanelNext]_panelVars =>
        LookInv' /\ [Reader!ReadingNext]_(Reader!readingVars)
  BY LookInvStep
<1> QED
  BY <1>1, <1>2, <1>3, PanelInductive, PTL
  DEF PanelSpec, ImplementsReading, Reader!ReadingSpec

=============================================================================
