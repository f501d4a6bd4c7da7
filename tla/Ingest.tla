------------------------------- MODULE Ingest -------------------------------
(***************************************************************************)
(* The import pipeline: KompetitorService.ImportProducts, the mapBatch     *)
(* pass that follows it, and the repository calls they make, run by any    *)
(* number of concurrent requests in any number of server processes (the    *)
(* HTTP binary and the gRPC binary share one MySQL database).              *)
(*                                                                         *)
(* One action is one statement or one transaction of the database, or one  *)
(* locked section of the in-process cache.  A transaction that deletes and *)
(* inserts (ReplaceProducts, ReplaceProductMappings) is one step: its      *)
(* DELETE is a locking read.  ComputeSummaries is three: the GROUP BY runs *)
(* outside the transaction, and the lookups inside it read a snapshot.     *)
(*                                                                         *)
(* Rows are abstracted to loads.  The rows one store has in one batch were *)
(* all inserted by one ReplaceProducts; they are the pair of its version   *)
(* (how many times that store was replaced in that batch) and the set of   *)
(* titles it holds.  A title is the name of one of our items, some other   *)
(* name, or a blank one.                                                   *)
(***************************************************************************)
EXTENDS Naturals, FiniteSets, Sequences

CONSTANTS
    Workers,        \* requests being served at the same time
    Procs,          \* server processes
    ProcOf,         \* the process that serves a worker
    Kompetitors,    \* registered stores
    BatchIds,       \* primary keys of scraping_batches
    Codes,          \* batch codes
    Items,          \* our items, one per (kategori, brand) pair
    OtherTitle,     \* a product name that matches none of our items
    BlankTitle,     \* a name the importer drops
    Uploads,        \* bound: the sets of names a request's rows may have
    None,           \* NULL
    Universal,      \* the stores of the universal cell that covers an item
    UniqueKeys,     \* whether the schema has unique keys on a batch's code
                    \* and on a summary's (batch, kompetitor)
    FaultsAllowed,  \* whether statements may fail and processes crash
    MaxRequests,    \* bound: imports received
    MaxEdits        \* bound: mapping cells edited

ASSUME IngestAssumption ==
    /\ ProcOf \in [Workers -> Procs]
    /\ BatchIds \subseteq Nat
    /\ Universal \in [Items -> SUBSET Kompetitors]
    /\ UniqueKeys \in BOOLEAN /\ FaultsAllowed \in BOOLEAN
    /\ MaxRequests \in Nat /\ MaxEdits \in Nat
    /\ OtherTitle \notin Items /\ BlankTitle \notin Items \cup {OtherTitle}
    /\ Uploads \subseteq SUBSET (Items \cup {OtherTitle, BlankTitle})
    /\ None \notin BatchIds \cup Kompetitors \cup Codes

VARIABLES
    batches,    \* scraping_batches, by primary key
    products,   \* scraping_products: the load of a store in a batch
    summaries,  \* scraping_summaries: the versions aggregated into the rows
                \* of a store in a batch, in primary-key order
    mappings,   \* scraping_product_mappings of a batch
    cells,      \* kompetitor_mappings: the specific cell of an item's pair
    cache,      \* the IdfCache of a process
    pc, job,    \* per worker: the next statement, and the request's locals
    requests, edits,    \* bounded counters
    acked,      \* history: (batch, store) of the imports answered "ok"
    clean,      \* history: workers whose import no other import of the batch
                \* overlapped, no statement failed and no cell changed under
    settled     \* history: batches whose last import was a clean one

tables  == <<batches, products, summaries, mappings, cells>>
history == <<requests, edits, acked, clean, settled>>
vars    == <<tables, cache, pc, job, history>>

-----------------------------------------------------------------------------
(* Data.                                                                   *)

Titles == Items \cup {OtherTitle, BlankTitle}       \* names a request may hold
Loads  == [version : Nat, titles : SUBSET (Items \cup {OtherTitle})]
NoRows == [version |-> 0, titles |-> {}]

Match   == [item : Items, kompetitor : Kompetitors, product : Nat]
Keys    == SUBSET BatchIds      \* idfCacheKey: the sorted batch ids
Corpora == SUBSET (Items \cup {OtherTitle})     \* the titles an IDF weighs
NoCorpus == {}                  \* no entry: the corpus of a batch has its rows

ImportSteps == {"select", "insert", "replace", "aggregate", "lookup",
                "write", "mark"}
MapReads    == {"mapProducts", "mapItems", "names", "itemNames", "allowed",
                "mapReplace"}
MemorySteps == {"forget", "get", "set"}
Steps       == {"idle"} \cup ImportSteps \cup MapReads \cup MemorySteps

Jobs == [kompetitor : Kompetitors \cup {None},
         code       : Codes \cup {None},
         titles     : SUBSET (Items \cup {OtherTitle}),   \* the request's rows
         batch      : BatchIds \cup {None},
         sums       : [Kompetitors -> Nat],         \* the GROUP BY's rows
         known      : SUBSET Kompetitors,           \* summaries looked up
         rows       : [Kompetitors -> Loads],       \* mapBatch's products
         items      : SUBSET Items,                 \* mapBatch's items
         corpus     : Corpora,                      \* the IDF
         allowed    : [Items -> SUBSET Kompetitors]]

NoJob == [kompetitor |-> None, code |-> None, titles |-> {}, batch |-> None,
          sums |-> [k \in Kompetitors |-> 0], known |-> {},
          rows |-> [k \in Kompetitors |-> NoRows], items |-> {},
          corpus |-> NoCorpus, allowed |-> [i \in Items |-> {}]]

HasRows(b, k)   == products[b][k].titles # {}
BatchesOf(c)    == {b \in BatchIds : batches[b].code = c}
First(b, S)     == b \in S /\ \A o \in S : b <= o    \* by primary key
ActiveOn(c)     == {w \in Workers : pc[w] # "idle" /\ job[w].code = c}

NormalizedKeepsBlank(rows) == rows                  \* MUTANT: no name check
\* normalizeIngestProducts: blank and formula names are dropped.
Normalized(rows) == rows \ {BlankTitle}

UsableUnchecked(rows) == TRUE                       \* MUTANT: no early return
\* ImportProducts refuses a request that normalises to nothing.
Usable(rows) == Normalized(rows) # {}

\* The GROUP BY over a batch: a store without rows has no aggregate (0).
Aggregates(b) ==
    [k \in Kompetitors |-> IF HasRows(b, k) THEN products[b][k].version ELSE 0]

\* Items with a specific cell of their own.
Mappable == {i \in Items : cells[i] # {}}

\* MappingResolver: a filled specific cell wins over the universal one.
Allowed == [i \in Items |-> IF cells[i] # {} THEN cells[i] ELSE Universal[i]]

\* The product side of the IDF corpus of a batch set.
Names(key) == UNION {products[b][k].titles : b \in key, k \in Kompetitors}

\* TextMatcher.ComputeMatches keeps one product per item and store; a title
\* outside the corpus weighs 0 and matches nothing.
ComputeMatches(items, rows, allowed, corpus) ==
    {[item |-> p[1], kompetitor |-> p[2], product |-> rows[p[2]].version] :
        p \in {q \in (items \cap corpus) \X Kompetitors :
                  q[2] \in allowed[q[1]] /\ q[1] \in rows[q[2]].titles}}

-----------------------------------------------------------------------------
(* How a request moves on and how it ends.                                 *)

At(w, step)   == pc[w] = step
Goto(w, step) == pc' = [pc EXCEPT ![w] = step]

\* An answer forgets the request's locals.
Leave(W) ==
    /\ pc'  = [w \in Workers |-> IF w \in W THEN "idle" ELSE pc[w]]
    /\ job' = [w \in Workers |-> IF w \in W THEN NoJob ELSE job[w]]

\* The import succeeded, whatever became of the mapping pass.
AnswerOk(w, mapped) ==
    /\ Leave({w})
    /\ acked' = acked \cup {<<job[w].batch, job[w].kompetitor>>}
    /\ settled' = IF mapped /\ w \in clean THEN settled \cup {job[w].batch}
                                           ELSE settled
    /\ clean' = clean \ {w}
    /\ UNCHANGED <<requests, edits>>

\* MUTANT: once the batch is known, errors are logged like mapBatch's.
AnswerErrorSwallowed(w) ==
    IF job[w].batch # None THEN AnswerOk(w, FALSE)
    ELSE /\ Leave({w})
         /\ clean' = clean \ {w}
         /\ UNCHANGED <<requests, edits, acked, settled>>

\* A statement of the import failed: the error is returned.
AnswerError(w) ==
    /\ Leave({w})
    /\ clean' = clean \ {w}
    /\ UNCHANGED <<requests, edits, acked, settled>>

-----------------------------------------------------------------------------
(* ImportProducts.                                                         *)

\* A request with at least one usable row for a registered store.  (Without
\* one, or with an unparsable date, it is refused and nothing happens.)
Begin(w) ==
    \E k \in Kompetitors, c \in Codes, rows \in Uploads :
        /\ At(w, "idle") /\ requests < MaxRequests
        /\ Usable(rows)
        /\ Goto(w, "select")
        /\ job' = [job EXCEPT ![w] = [NoJob EXCEPT !.kompetitor = k, !.code = c,
                                                   !.titles = Normalized(rows)]]
        /\ requests' = requests + 1
        /\ clean' = IF ActiveOn(c) = {} THEN clean \cup {w} ELSE clean \ ActiveOn(c)
        /\ settled' = settled \ BatchesOf(c)
        /\ UNCHANGED <<tables, cache, edits, acked>>

\* FirstOrCreateBatch, the SELECT: FirstOrCreate orders by primary key.
FindBatch(w) ==
    /\ At(w, "select")
    /\ \/ /\ BatchesOf(job[w].code) = {}
          /\ Goto(w, "insert")
          /\ UNCHANGED job
       \/ \E b \in BatchIds :
            /\ First(b, BatchesOf(job[w].code))
            /\ Goto(w, "replace")
            /\ job' = [job EXCEPT ![w].batch = b]
    /\ UNCHANGED <<tables, cache, history>>

\* FirstOrCreateBatch, the INSERT: the next free primary key, "running".
CreateBatch(w) ==
    /\ At(w, "insert")
    /\ UniqueKeys => BatchesOf(job[w].code) = {}
    /\ \E b \in BatchIds :
         /\ First(b, {o \in BatchIds : batches[o].status = "absent"})
         /\ batches' = [batches EXCEPT ![b] = [code |-> job[w].code,
                                               status |-> "running"]]
         /\ job' = [job EXCEPT ![w].batch = b]
    /\ Goto(w, "replace")
    /\ UNCHANGED <<products, summaries, mappings, cells, cache, history>>

\* ReplaceProducts: delete this store's rows of the batch, insert the new ones.
ReplaceProducts(w) ==
    /\ At(w, "replace")
    /\ products' = [products EXCEPT ![job[w].batch][job[w].kompetitor] =
                       [version |-> @.version + 1, titles |-> job[w].titles]]
    /\ Goto(w, "aggregate")
    /\ UNCHANGED <<batches, summaries, mappings, cells, cache, job, history>>

\* ComputeSummaries, the GROUP BY over the batch's products, of every store.
AggregateProducts(w) ==
    /\ At(w, "aggregate")
    /\ job' = [job EXCEPT ![w].sums = Aggregates(job[w].batch)]
    /\ Goto(w, "lookup")
    /\ UNCHANGED <<tables, cache, history>>

\* MUTANT: the batch is left out of the First's conditions.
FindSummariesAnyBatch(w) ==
    /\ At(w, "lookup")
    /\ job' = [job EXCEPT ![w].known =
                  {k \in Kompetitors : /\ job[w].sums[k] # 0
                                       /\ \E b \in BatchIds : summaries[b][k] # <<>>}]
    /\ Goto(w, "write")
    /\ UNCHANGED <<tables, cache, history>>

\* ComputeSummaries, the First of each aggregated store in the snapshot.
FindSummaries(w) ==
    /\ At(w, "lookup")
    /\ job' = [job EXCEPT ![w].known =
                  {k \in Kompetitors : /\ job[w].sums[k] # 0
                                       /\ summaries[job[w].batch][k] # <<>>}]
    /\ Goto(w, "write")
    /\ UNCHANGED <<tables, cache, history>>

\* MUTANT: a summary that exists already is left as it is.
WrittenSummaryOnce(w, k) ==
    LET old == summaries[job[w].batch][k] IN
    IF job[w].sums[k] = 0 \/ k \in job[w].known THEN old
                                               ELSE Append(old, job[w].sums[k])

\* MUTANT: the summaries are cleared first, also those of other stores.
WrittenSummaryClears(w, k) ==
    IF job[w].sums[k] = 0 THEN <<>>
    ELSE IF k \in job[w].known THEN <<job[w].sums[k]>>
    ELSE Append(summaries[job[w].batch][k], job[w].sums[k])

\* What the transaction makes of a store's summary rows: Save rewrites the row
\* that was found, Create adds one.
WrittenSummary(w, k) ==
    LET old == summaries[job[w].batch][k] IN
    IF job[w].sums[k] = 0 THEN old
    ELSE IF k \in job[w].known THEN [old EXCEPT ![1] = job[w].sums[k]]
    ELSE Append(old, job[w].sums[k])

\* The stores whose Create meets a row that was committed after the lookup.
SummaryCollisions(w) ==
    {k \in Kompetitors \ job[w].known :
        job[w].sums[k] # 0 /\ summaries[job[w].batch][k] # <<>>}

\* ComputeSummaries, the commit.
WriteSummaries(w) ==
    /\ At(w, "write")
    /\ UniqueKeys => SummaryCollisions(w) = {}
    /\ summaries' = [summaries EXCEPT ![job[w].batch] =
                        [k \in Kompetitors |-> WrittenSummary(w, k)]]
    /\ Goto(w, "mark")
    /\ UNCHANGED <<batches, products, mappings, cells, cache, job, history>>

\* MUTANT: an import leaves the mark to the others still at work in the batch.
MarkCompletedLast(w) ==
    /\ At(w, "mark")
    /\ batches' = IF ActiveOn(job[w].code) = {w}
                  THEN [batches EXCEPT ![job[w].batch].status = "completed"]
                  ELSE batches
    /\ Goto(w, "mapProducts")
    /\ UNCHANGED <<products, summaries, mappings, cells, cache, job, history>>

\* MarkStatus(batch, "completed").
MarkCompleted(w) ==
    /\ At(w, "mark")
    /\ batches' = [batches EXCEPT ![job[w].batch].status = "completed"]
    /\ Goto(w, "mapProducts")
    /\ UNCHANGED <<products, summaries, mappings, cells, cache, job, history>>

\* A statement of the import fails, because the database does or because a
\* unique key is violated; a transaction is rolled back.
StatementFails(w) ==
    /\ pc[w] \in ImportSteps
    /\ \/ FaultsAllowed
       \/ UniqueKeys /\ At(w, "insert") /\ BatchesOf(job[w].code) # {}
       \/ UniqueKeys /\ At(w, "write") /\ SummaryCollisions(w) # {}
    /\ AnswerError(w)
    /\ UNCHANGED <<tables, cache>>

-----------------------------------------------------------------------------
(* mapBatch.                                                               *)

\* ProductsForBatch; nothing to map in an empty batch.
ReadProducts(w) ==
    /\ At(w, "mapProducts")
    /\ IF \A k \in Kompetitors : ~HasRows(job[w].batch, k)
       THEN AnswerOk(w, TRUE)
       ELSE /\ job' = [job EXCEPT ![w].rows = products[job[w].batch]]
            /\ Goto(w, "mapItems")
            /\ UNCHANGED history
    /\ UNCHANGED <<tables, cache>>

\* Mappable; without items the pass ends and the stored rows stay.
ReadItems(w) ==
    /\ At(w, "mapItems")
    /\ IF Mappable = {}
       THEN AnswerOk(w, TRUE)
       ELSE /\ job' = [job EXCEPT ![w].items = Mappable]
            /\ Goto(w, "forget")
            /\ UNCHANGED history
    /\ UNCHANGED <<tables, cache>>

\* MUTANT: the weights of the batch are kept.
ForgetIdfSkipped(w) ==
    /\ At(w, "forget")
    /\ Goto(w, "get")
    /\ UNCHANGED <<tables, cache, job, history>>

\* IdfCache.Forget of the batch alone.
ForgetIdf(w) ==
    /\ At(w, "forget")
    /\ cache' = [cache EXCEPT ![ProcOf[w]][{job[w].batch}] = NoCorpus]
    /\ Goto(w, "get")
    /\ UNCHANGED <<tables, job, history>>

\* IdfCache.Remember, the lookup.
GetIdf(w) ==
    /\ At(w, "get")
    /\ job' = [job EXCEPT ![w].corpus = cache[ProcOf[w]][{job[w].batch}]]
    /\ Goto(w, IF cache[ProcOf[w]][{job[w].batch}] = NoCorpus THEN "names"
                                                             ELSE "allowed")
    /\ UNCHANGED <<tables, cache, history>>

\* IdfCache.Remember on a miss: ProductNamesForBatches.
ReadNames(w) ==
    /\ At(w, "names")
    /\ job' = [job EXCEPT ![w].corpus = Names({job[w].batch})]
    /\ Goto(w, "itemNames")
    /\ UNCHANGED <<tables, cache, history>>

\* IdfCache.Remember on a miss: Mappable, for the items' names.
ReadItemNames(w) ==
    /\ At(w, "itemNames")
    /\ job' = [job EXCEPT ![w].corpus = @ \cup Mappable]
    /\ Goto(w, "set")
    /\ UNCHANGED <<tables, cache, history>>

\* IdfCache.Remember on a miss: the new weights are stored.
SetIdf(w) ==
    /\ At(w, "set")
    /\ cache' = [cache EXCEPT ![ProcOf[w]][{job[w].batch}] = job[w].corpus]
    /\ Goto(w, "allowed")
    /\ UNCHANGED <<tables, job, history>>

\* MappingResolver.AllowedByItem.
ReadAllowed(w) ==
    /\ At(w, "allowed")
    /\ job' = [job EXCEPT ![w].allowed = Allowed]
    /\ Goto(w, "mapReplace")
    /\ UNCHANGED <<tables, cache, history>>

\* MUTANT: a batch that has matches already keeps them.
ReplaceMappingsOnce(w) ==
    /\ At(w, "mapReplace")
    /\ mappings' = [mappings EXCEPT ![job[w].batch] =
                       IF @ # {} THEN @
                       ELSE ComputeMatches(job[w].items, job[w].rows,
                                           job[w].allowed, job[w].corpus)]
    /\ AnswerOk(w, TRUE)
    /\ UNCHANGED <<batches, products, summaries, cells, cache>>

\* MUTANT: the old matches are not deleted.
ReplaceMappingsAdds(w) ==
    /\ At(w, "mapReplace")
    /\ mappings' = [mappings EXCEPT ![job[w].batch] = @ \cup
                       ComputeMatches(job[w].items, job[w].rows, job[w].allowed,
                                      job[w].corpus)]
    /\ AnswerOk(w, TRUE)
    /\ UNCHANGED <<batches, products, summaries, cells, cache>>

\* ReplaceProductMappings: the batch's matches are swapped.
ReplaceMappings(w) ==
    /\ At(w, "mapReplace")
    /\ mappings' = [mappings EXCEPT ![job[w].batch] =
                       ComputeMatches(job[w].items, job[w].rows, job[w].allowed,
                                      job[w].corpus)]
    /\ AnswerOk(w, TRUE)
    /\ UNCHANGED <<batches, products, summaries, cells, cache>>

\* A statement of mapBatch fails: the error is logged, the import succeeds.
MappingFails(w) ==
    /\ FaultsAllowed /\ pc[w] \in MapReads
    /\ AnswerOk(w, FALSE)
    /\ UNCHANGED <<tables, cache>>

-----------------------------------------------------------------------------
(* The surroundings.                                                       *)

\* A process dies: its requests are never answered, its cache is gone.
Crash(p) ==
    /\ FaultsAllowed
    /\ LET dead == {w \in Workers : ProcOf[w] = p} IN
         /\ Leave(dead)
         /\ clean' = clean \ dead
    /\ cache' = [cache EXCEPT ![p] = [key \in Keys |-> NoCorpus]]
    /\ UNCHANGED <<tables, requests, edits, acked, settled>>

\* MemoryCache.Get ignores an entry past its expiry (12 hours).
ExpireIdf(p) ==
    \E key \in Keys :
        /\ cache[p][key] # NoCorpus
        /\ cache' = [cache EXCEPT ![p][key] = NoCorpus]
        /\ UNCHANGED <<tables, pc, job, history>>

\* The cells change under the imports.
CellsBecome(lists) ==
    /\ cells' = lists
    /\ clean' = {} /\ settled' = {}
    /\ UNCHANGED <<batches, products, summaries, mappings, cache, pc, job,
                   requests, acked>>

\* MappingCellUpdate commits a new list of stores for a specific cell.
EditCell(i) ==
    \E stores \in SUBSET Kompetitors :
        /\ edits < MaxEdits
        /\ stores # cells[i]
        /\ CellsBecome([cells EXCEPT ![i] = stores])
        /\ edits' = edits + 1

\* Every request the bound allows has been served.
Finished ==
    /\ requests = MaxRequests /\ \A w \in Workers : At(w, "idle")
    /\ UNCHANGED vars

-----------------------------------------------------------------------------
Init ==
    /\ batches = [b \in BatchIds |-> [code |-> None, status |-> "absent"]]
    /\ products = [b \in BatchIds |-> [k \in Kompetitors |-> NoRows]]
    /\ summaries = [b \in BatchIds |-> [k \in Kompetitors |-> <<>>]]
    /\ mappings = [b \in BatchIds |-> {}]
    /\ cells \in [Items -> SUBSET Kompetitors]
    /\ cache = [p \in Procs |-> [key \in Keys |-> NoCorpus]]
    /\ pc = [w \in Workers |-> "idle"] /\ job = [w \in Workers |-> NoJob]
    /\ requests = 0 /\ edits = 0
    /\ acked = {} /\ clean = {} /\ settled = {}

\* One statement of a request that has begun.
Step(w) ==
    \/ FindBatch(w) \/ CreateBatch(w) \/ ReplaceProducts(w)
    \/ AggregateProducts(w) \/ FindSummaries(w) \/ WriteSummaries(w)
    \/ MarkCompleted(w) \/ StatementFails(w)
    \/ ReadProducts(w) \/ ReadItems(w) \/ ForgetIdf(w) \/ GetIdf(w)
    \/ ReadNames(w) \/ ReadItemNames(w) \/ SetIdf(w) \/ ReadAllowed(w)
    \/ ReplaceMappings(w) \/ MappingFails(w)

Next ==
    \/ \E w \in Workers : Begin(w) \/ Step(w)
    \/ \E p \in Procs : Crash(p) \/ ExpireIdf(p)
    \/ \E i \in Items : EditCell(i)
    \/ Finished

Spec == Init /\ [][Next]_vars
\* The runtime schedules every goroutine and the database answers every call.
FairSpec == Spec /\ \A w \in Workers : WF_vars(Step(w))

-----------------------------------------------------------------------------
(* Properties.                                                             *)

\* Every table, cache entry and local holds what its columns and types allow;
\* in particular no stored row has a name the importer drops.
TypeOK ==
    /\ batches \in [BatchIds -> [code : Codes \cup {None},
                                 status : {"absent", "running", "completed"}]]
    /\ products \in [BatchIds -> [Kompetitors -> Loads]]
    /\ summaries \in [BatchIds -> [Kompetitors -> Seq(Nat)]]
    /\ mappings \in [BatchIds -> SUBSET Match]
    /\ cells \in [Items -> SUBSET Kompetitors]
    /\ cache \in [Procs -> [Keys -> Corpora]]
    /\ pc \in [Workers -> Steps] /\ job \in [Workers -> Jobs]
    /\ requests \in Nat /\ edits \in Nat
    /\ acked \subseteq BatchIds \X Kompetitors
    /\ clean \subseteq Workers /\ settled \subseteq BatchIds

\* A summary row describes rows the store really had: the store still has rows
\* in the batch, and the row aggregates one of the versions it went through.
\* (ImportProducts refuses an empty file before it deletes anything.)
SummaryFromStored ==
    \A b \in BatchIds, k \in Kompetitors :
        \A n \in 1..Len(summaries[b][k]) :
            HasRows(b, k) /\ summaries[b][k][n] \in 1..products[b][k].version

\* What ImportProducts answered "ok" for stays there for the panels: the batch
\* is completed, and the store has rows and a summary in it, whatever other
\* requests, failures, crashes and restarts follow.
AckedDurable ==
    \A a \in acked :
        /\ batches[a[1]].status = "completed"
        /\ HasRows(a[1], a[2])
        /\ summaries[a[1]][a[2]] # <<>>

\* A batch the panels read is never taken away from them again: FirstOrCreate
\* does not touch a batch it finds, and no failure resets one.
NeverUncompleted ==
    [][\A b \in BatchIds : batches[b].status = "completed" =>
                              batches'[b].status = "completed"]_vars

\* An import that runs alone in its batch and to its end repairs whatever the
\* crashed, failed and overlapping ones before it left in scraping_summaries.
SettledSummaries ==
    \A b \in settled, k \in Kompetitors :
        summaries[b][k] = IF HasRows(b, k) THEN <<products[b][k].version>>
                                           ELSE <<>>

\* Such an import also leaves exactly the matches of the rows and cells there
\* are, as long as some item can be matched at all.
SettledMatches ==
    \A b \in settled :
        Mappable # {} =>
            mappings[b] = ComputeMatches(Mappable, products[b], Allowed, Items)

\* Between its creation and its mark, in the hands of w.
InHand(w, b) ==
    pc[w] \in {"replace", "aggregate", "lookup", "write", "mark"} /\ job[w].batch = b

\* Without failures a batch that is "running" is in the hands of an import that
\* has still to mark it, however many imports of its code collide and give up.
RunningInHand ==
    ~FaultsAllowed => \A b \in BatchIds :
        batches[b].status = "running" => \E w \in Workers : InHand(w, b)

\* Without failures no interleaving of imports leaves a batch "running": when
\* two collide on a unique key, one of them gets to the end.
BatchCompletes ==
    \A b \in BatchIds :
        batches[b].status = "running" ~> batches[b].status = "completed"

Quiet(b) == batches[b].status # "absent" /\ ActiveOn(batches[b].code) = {}

\* "ComputeSummaries rebuilds scraping_summaries for the batch from the raw
\* products": with no import of the batch under way, its summaries are those
\* of its rows.
SummariesRebuilt ==
    \A b \in BatchIds, k \in Kompetitors :
        Quiet(b) => \A n \in 1..Len(summaries[b][k]) :
                        summaries[b][k][n] = products[b][k].version

\* The versions the summary rows of a store describe.
Described(b, k) == {summaries[b][k][n] : n \in 1..Len(summaries[b][k])}

\* What the panels see of a batch: its status and its summaries.
Promise == INSTANCE Scraping WITH
    Batches <- BatchIds,
    Stores  <- Kompetitors,
    status  <- [b \in BatchIds |-> batches[b].status],
    files   <- [b \in BatchIds |-> [k \in Kompetitors |-> products[b][k].version]],
    shown   <- [b \in BatchIds |-> [k \in Kompetitors |-> Described(b, k)]]

\* Whatever the overlap, failures and crashes of imports, the panels see a batch
\* open once, complete once and with a summary in it, every store keep a summary
\* it has, and an import acknowledged only after it can be read.
ImplementsScraping == Promise!Spec
=============================================================================
