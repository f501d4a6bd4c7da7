------------------------------- MODULE Panel --------------------------------
(***************************************************************************)
(* The Our Product panel (KompetitorService.OurProducts) beside the        *)
(* imports of Ingest: pages are read with six or more statements and no    *)
(* transaction, from tables that imports change and with token weights     *)
(* from the cache that imports and pages of one process share.             *)
(*                                                                         *)
(* A page lists items.  Of each store mapped to an item it shows the best  *)
(* matching product of the store's effective batch, with that batch's      *)
(* date, marked stale when the batch is not the latest one.                *)
(***************************************************************************)
EXTENDS Dated

CONSTANTS
    Readers,        \* pages being built at the same time
    ReaderProc,     \* the process that serves a reader
    OwnStore,       \* DBKLIK_KOMPETITOR_ID, or None
    MaxPages        \* bound: pages asked for

ASSUME PanelAssumption ==
    /\ ReaderProc \in [Readers -> Procs]
    /\ OwnStore \in Kompetitors \cup {None}
    /\ MaxPages \in Nat

VARIABLES
    rpc, page,  \* per reader: the next statement, and the request's locals
    pages       \* bounded counter

reader    == <<executed, rpc, page, pages>>
panelVars == <<vars, reader>>

PageSteps == {"idle", "latest", "batchRows", "cells", "products", "weights",
              "corpus", "corpusItems", "store", "show"}

Pages == [items   : SUBSET Items,
          latest  : BatchIds \cup {None},
          batchOf : [Kompetitors -> BatchIds \cup {None}],
          allowed : [Items -> SUBSET Kompetitors],
          rows    : [Kompetitors -> Loads],
          corpus  : Corpora,
          known   : [Kompetitors -> SUBSET BatchIds]]   \* history: see Readable
NoPage == [items |-> {}, latest |-> None,
           batchOf |-> [k \in Kompetitors |-> None],
           allowed |-> [i \in Items |-> {}],
           rows |-> [k \in Kompetitors |-> NoRows], corpus |-> NoCorpus,
           known |-> [k \in Kompetitors |-> {}]]

PageAt(r, step)  == rpc[r] = step
Turn(r, step)    == rpc' = [rpc EXCEPT ![r] = step]
Learn(r, locals) == page' = [page EXCEPT ![r] = locals]

-----------------------------------------------------------------------------
(* OurProducts, in the order of its statements.                            *)

\* OurProductRepository.Page: some items.
AskPage(r) ==
    \E items \in (SUBSET Items) \ {{}} :
        /\ PageAt(r, "idle") /\ pages < MaxPages
        /\ Learn(r, [NoPage EXCEPT !.items = items,
                                   !.known = [k \in Kompetitors |-> Readable(k)]])
        /\ Turn(r, "latest")
        /\ pages' = pages + 1
        /\ UNCHANGED <<vars, executed>>

\* LatestCompletedBatch: of the last day the one with the lowest key.
ReadLatest(r) ==
    /\ PageAt(r, "latest")
    /\ \/ /\ Completed = {}
          /\ Turn(r, "cells")
          /\ UNCHANGED page
       \/ \E b \in BatchIds :
            /\ First(b, Newest(Completed))
            /\ Learn(r, [page[r] EXCEPT !.latest = b])
            /\ Turn(r, "batchRows")
    /\ UNCHANGED <<vars, executed, pages>>

\* MUTANT: the latest day is not part of "up to".
UpToBefore(k, latest) ==
    {b \in Readable(k) : executed[b] < executed[latest]}

\* MUTANT: batches that are still being imported count.
UpToRunning(k, latest) ==
    {b \in BatchIds : HasRows(b, k) /\ executed[b] <= executed[latest]}

\* BatchRowsUpTo: the batches of a store until the day of the latest one.
UpTo(k, latest) ==
    {b \in Readable(k) : executed[b] <= executed[latest]}

\* ResolveBatchByKompetitor: of each store's rows, sorted by day, the last one
\* wins; within a day the rows come in any order.
Resolves(batchOf, latest) ==
    \A k \in Kompetitors :
        IF UpTo(k, latest) = {} THEN batchOf[k] = None
                                ELSE batchOf[k] \in Newest(UpTo(k, latest))

ReadBatchRows(r) ==
    /\ PageAt(r, "batchRows")
    /\ \E batchOf \in [Kompetitors -> BatchIds \cup {None}] :
         /\ Resolves(batchOf, page[r].latest)
         /\ Learn(r, [page[r] EXCEPT !.batchOf = batchOf])
    /\ Turn(r, "cells")
    /\ UNCHANGED <<vars, executed, pages>>

\* The stores of a page that have a batch to read: its batch pairs.
Paired(p) == {k \in UNION {p.allowed[i] : i \in p.items} : p.batchOf[k] # None}
\* The batches whose corpus weighs the page's tokens.
PageKey(p) == {p.batchOf[k] : k \in Paired(p)}

\* AllowedByItem; our own store may match every item.
ReadCells(r) ==
    LET allowed == [i \in Items |-> IF i \in page[r].items
                                    THEN Allowed[i] \cup ({OwnStore} \ {None})
                                    ELSE {}]
        next == [page[r] EXCEPT !.allowed = allowed] IN
    /\ PageAt(r, "cells")
    /\ Learn(r, next)
    /\ Turn(r, IF Paired(next) = {} THEN "show" ELSE "products")
    /\ UNCHANGED <<vars, executed, pages>>

\* ProductsForPairs: each store's rows in its batch.
ReadPairs(r) ==
    LET rows == [k \in Kompetitors |-> IF k \in Paired(page[r])
                                       THEN products[page[r].batchOf[k]][k]
                                       ELSE NoRows] IN
    /\ PageAt(r, "products")
    /\ Learn(r, [page[r] EXCEPT !.rows = rows])
    /\ Turn(r, IF \A k \in Kompetitors : rows[k].titles = {} THEN "show"
                                                            ELSE "weights")
    /\ UNCHANGED <<vars, executed, pages>>

\* idfForBatches: IdfCache.Remember, the lookup.
GetWeights(r) ==
    LET cached == cache[ReaderProc[r]][PageKey(page[r])] IN
    /\ PageAt(r, "weights")
    /\ Learn(r, [page[r] EXCEPT !.corpus = cached])
    /\ Turn(r, IF cached = NoCorpus THEN "corpus" ELSE "show")
    /\ UNCHANGED <<vars, executed, pages>>

\* On a miss: ProductNamesForBatches.
ReadCorpus(r) ==
    /\ PageAt(r, "corpus")
    /\ Learn(r, [page[r] EXCEPT !.corpus = Names(PageKey(page[r]))])
    /\ Turn(r, "corpusItems")
    /\ UNCHANGED <<vars, executed, pages>>

\* On a miss: Mappable.
ReadCorpusItems(r) ==
    /\ PageAt(r, "corpusItems")
    /\ Learn(r, [page[r] EXCEPT !.corpus = @ \cup Mappable])
    /\ Turn(r, "store")
    /\ UNCHANGED <<vars, executed, pages>>

\* On a miss: the weights are stored; an import of that batch which is under
\* way no longer counts as one that ran alone.
StoreWeights(r) ==
    /\ PageAt(r, "store")
    /\ cache' = [cache EXCEPT ![ReaderProc[r]][PageKey(page[r])] = page[r].corpus]
    /\ clean' = {w \in clean : {job[w].batch} # PageKey(page[r])}
    /\ Turn(r, "show")
    /\ UNCHANGED <<tables, pc, job, requests, edits, acked, settled,
                   executed, page, pages>>

\* ComputeMatches, and the page is answered.
ShowPage(r) ==
    /\ PageAt(r, "show")
    /\ Learn(r, NoPage)
    /\ Turn(r, "idle")
    /\ UNCHANGED <<vars, executed, pages>>

\* A statement fails: the request is answered with an error.
PageFails(r) ==
    /\ FaultsAllowed /\ rpc[r] \notin {"idle", "weights", "store"}
    /\ Learn(r, NoPage)
    /\ Turn(r, "idle")
    /\ UNCHANGED <<vars, executed, pages>>

\* A process dies with its imports, its cache and its pages.
CrashAll(p) ==
    /\ Crash(p)
    /\ rpc'  = [r \in Readers |-> IF ReaderProc[r] = p THEN "idle" ELSE rpc[r]]
    /\ page' = [r \in Readers |-> IF ReaderProc[r] = p THEN NoPage ELSE page[r]]
    /\ UNCHANGED <<executed, pages>>

-----------------------------------------------------------------------------
PanelInit ==
    /\ Init /\ DatedInit
    /\ rpc = [r \in Readers |-> "idle"] /\ page = [r \in Readers |-> NoPage]
    /\ pages = 0

Build(r) ==
    \/ ReadLatest(r) \/ ReadBatchRows(r) \/ ReadCells(r) \/ ReadPairs(r)
    \/ GetWeights(r) \/ ReadCorpus(r) \/ ReadCorpusItems(r) \/ StoreWeights(r)
    \/ ShowPage(r) \/ PageFails(r)

\* A step of Ingest other than a crash.
Beside ==
    \/ \E w \in Workers : Begin(w) \/ Step(w)
    \/ \E p \in Procs : ExpireIdf(p)
    \/ \E i \in Items : EditCell(i)
    \/ Finished

PanelNext ==
    \/ Beside /\ UNCHANGED reader
    \/ \E p \in Procs : CrashAll(p)
    \/ \E r \in Readers : AskPage(r) \/ Build(r)

PanelSpec == PanelInit /\ [][PanelNext]_panelVars

-----------------------------------------------------------------------------
(* Properties.                                                             *)

\* Locals hold what their types allow, and a page that has got to its rows has
\* found some of every store it reads: the early return for a page without
\* rows is never taken.
PageTypeOK ==
    /\ executed \in [BatchIds -> Days]
    /\ rpc \in [Readers -> PageSteps] /\ page \in [Readers -> Pages]
    /\ pages \in Nat
    /\ \A r \in Readers :
         rpc[r] \in {"weights", "corpus", "corpusItems", "store", "show"} =>
             \A k \in Paired(page[r]) : page[r].rows[k].titles # {}

\* A page reads each store from a batch at least as new as every completed
\* batch that had rows of the store when the page was asked for, although the
\* latest batch, the stores' batches and their rows are read one by one.
PageNotOlder ==
    \A r \in Readers :
        rpc[r] \notin {"idle", "latest", "batchRows"} =>
            \A k \in Kompetitors : \A b \in page[r].known[k] :
                /\ page[r].batchOf[k] # None
                /\ executed[b] <= executed[page[r].batchOf[k]]

\* "Kompetitors present in the latest batch use that batch."
LatestBatchUsed ==
    \A r \in Readers :
        rpc[r] \notin {"idle", "latest", "batchRows"} =>
            \A k \in Kompetitors :
                page[r].latest \in page[r].known[k] =>
                    page[r].batchOf[k] = page[r].latest

\* "Completed batches are immutable, so caching them is safe; ingest busts the
\* entry for the batch it just rewrote": with no import and no page under way,
\* cached weights know every product name of their batches.
CachedCorpusFull ==
    \A p \in Procs, key \in Keys :
        /\ cache[p][key] # NoCorpus
        /\ \A w \in Workers : At(w, "idle")
        /\ \A r \in Readers : PageAt(r, "idle")
        => Names(key) \subseteq cache[p][key]

\* What a page has seen of the batches: nothing while it looks for them, then
\* the batches of its stores, then their files.
Picked == PageSteps \ {"idle", "latest", "batchRows"}
Filled == {"weights", "corpus", "corpusItems", "store", "show"}

Seen(step, p) ==
    [at    |-> IF step = "idle" THEN "none" ELSE IF step \in Filled THEN "shown"
               ELSE IF step \in Picked THEN "picked" ELSE "asked",
     known |-> p.known,
     from  |-> p.batchOf,
     shows |-> [k \in Kompetitors |-> p.rows[k].version]]

Reader == INSTANCE Reading WITH
    Batches <- BatchIds,
    Stores  <- Kompetitors,
    Pages   <- Readers,
    NoBatch <- None,
    status  <- [b \in BatchIds |-> batches[b].status],
    files   <- [b \in BatchIds |-> [k \in Kompetitors |-> products[b][k].version]],
    shown   <- [b \in BatchIds |-> [k \in Kompetitors |-> Described(b, k)]],
    day     <- executed,
    view    <- [r \in Readers |-> Seen(rpc[r], page[r])]

\* A page, however many statements it takes and whatever is imported, fails or
\* crashes between them, shows what two looks at the batches would show: one
\* that picks a batch for each store, and one that takes their files.
ImplementsReading == Reader!ReadingSpec
=============================================================================
