------------------------------- MODULE Stats --------------------------------
(***************************************************************************)
(* The Riset Produk panel (KompetitorService.Stats and Products, with the  *)
(* PeriodResolver) beside the imports of Ingest: an index of the stores'   *)
(* batches, then what the headline metrics or the product table show of    *)
(* the period and of the comparison period, read one statement after the   *)
(* other without a transaction.  A reader is served by a process no import *)
(* runs in.                                                                *)
(*                                                                         *)
(* Stores are deleted meanwhile (KompetitorService.Delete), each by one    *)
(* request at a time; none comes back.  Registry has the rest of them.     *)
(*                                                                         *)
(* A block of metrics adds up summary rows; it is modelled by these rows.  *)
(* A page of the table is long enough for every row, and unsearched.       *)
(***************************************************************************)
EXTENDS Dated

CONSTANTS
    Readers,        \* requests being answered at the same time
    OwnStore,       \* DBKLIK_KOMPETITOR_ID, or None
    Removable,      \* bound: stores that may be deleted, of no universal cell
    MaxAsked        \* bound: requests for metrics and tables

ASSUME StatsAssumption ==
    /\ OwnStore \in Kompetitors \cup {None}
    /\ Removable \subseteq Kompetitors
    /\ \A i \in Items : Universal[i] \cap Removable = {}
    /\ MaxAsked \in Nat
    /\ IsFiniteSet(Kompetitors) /\ IsFiniteSet(Items) /\ IsFiniteSet(BatchIds)

VARIABLES
    rpc, stats,     \* per reader: the next statement, and the request's locals
    asked,          \* bounded counter
    registered,     \* kompetitors: the stores that are not deleted
    removal         \* per store: the next statement of its deletion

reader    == <<executed, rpc, stats, asked>>
registry  == <<registered, removal>>
statsVars == <<vars, reader, registry>>

StatsSteps == {"idle", "index", "current", "previous", "show",
               "count", "page", "names", "matches", "stock"}

Pairs  == [Kompetitors -> BatchIds \cup {None}]     \* BatchPair: batch by store
Blocks == [Kompetitors -> Seq(Nat)]                 \* summary rows by store
Locals == [start : Days \cup {None}, end : Days \cup {None},
           stores   : SUBSET Kompetitors,           \* the filter's, or all
           current  : Pairs, previous     : Pairs,
           rows     : Blocks, previousRows : Blocks,
           kind     : {"metrics", "table"},
           total    : Nat,                          \* the table's row count
           page     : [Kompetitors -> Loads],       \* its rows
           prices   : [Kompetitors -> SUBSET Titles],   \* those with a trend
           stocked  : SUBSET Items,                 \* our own with a stock
           staying  : SUBSET Kompetitors,   \* history: with rows, not leaving
           known    : [Kompetitors -> SUBSET BatchIds],   \* history: Readable
           answered : [Kompetitors -> SUBSET BatchIds]]   \* history: acked

NoPairs == [k \in Kompetitors |-> None]
NoBlock == [k \in Kompetitors |-> <<>>]
NoStats == [start |-> None, end |-> None, stores |-> {},
            current |-> NoPairs, previous |-> NoPairs,
            rows |-> NoBlock, previousRows |-> NoBlock,
            kind |-> "metrics", total |-> 0,
            page |-> [k \in Kompetitors |-> NoRows],
            prices |-> [k \in Kompetitors |-> {}], stocked |-> {},
            staying |-> {},
            known |-> [k \in Kompetitors |-> {}],
            answered |-> [k \in Kompetitors |-> {}]]

Reading(r, step) == rpc[r] = step
Turn(r, step)    == rpc' = [rpc EXCEPT ![r] = step]
Learn(r, locals) == stats' = [stats EXCEPT ![r] = locals]

-----------------------------------------------------------------------------
(* PeriodResolver.                                                         *)

\* NewPeriodResolver: a store's batches newest first, those of a day in the
\* order the database gave them.
NewestFirst(list, S) ==
    /\ list \in [1..Cardinality(S) -> S]
    /\ \A b \in S : \E n \in DOMAIN list : list[n] = b
    /\ \A m, n \in DOMAIN list : m < n => executed[list[n]] <= executed[list[m]]

\* The first batch of a list that is one of S.
FirstOf(list, S) ==
    IF \E n \in DOMAIN list : list[n] \in S
    THEN list[CHOOSE n \in DOMAIN list :
                list[n] \in S /\ \A m \in 1..(n - 1) : list[m] \notin S]
    ELSE None

\* MUTANT: the last day of the period is left out.
WithinBefore(start, end) ==
    {b \in BatchIds : /\ start = None \/ start <= executed[b]
                      /\ end = None \/ executed[b] < end}

\* The batches of a period; None is no bound.
Within(start, end) ==
    {b \in BatchIds : /\ start = None \/ start <= executed[b]
                      /\ end = None \/ executed[b] <= end}

ForPeriod(list, start, end) == FirstOf(list, Within(start, end))

\* MUTANT: stores without data in the period are compared too.
BeforePeriodUnchecked(list, start, end) ==
    IF start = None THEN IF Len(list) > 1 THEN list[2] ELSE None
    ELSE FirstOf(list, {b \in BatchIds : executed[b] < start})

BeforePeriod(list, start, end) ==
    IF start = None THEN IF Len(list) > 1 THEN list[2] ELSE None
    ELSE IF ForPeriod(list, start, end) = None THEN None
    ELSE FirstOf(list, {b \in BatchIds : executed[b] < start})

-----------------------------------------------------------------------------
(* What Stats and Products have in common.                                 *)

\* MUTANT: the order of the dates is not checked.
ValidPeriodUnordered(start, end) == TRUE

\* validatePeriod.
ValidPeriod(start, end) == start # None /\ end # None => start <= end

\* A period and a filter.
AskStats(r) ==
    \E start, end \in Days \cup {None}, kind \in {"metrics", "table"},
       stores \in {{k} : k \in Kompetitors} \cup {Kompetitors} :
        /\ Reading(r, "idle") /\ asked < MaxAsked
        /\ ValidPeriod(start, end)
        /\ Learn(r, [NoStats EXCEPT
                       !.start = start, !.end = end, !.stores = stores,
                       !.kind = kind,
                       !.staying = {k \in registered : /\ removal[k] = "idle"
                                                    /\ Readable(k) # {}},
                       !.known = [k \in Kompetitors |-> Readable(k)],
                       !.answered = [k \in Kompetitors |->
                                       {b \in BatchIds : <<b, k>> \in acked}]])
        /\ Turn(r, "index")
        /\ asked' = asked + 1
        /\ UNCHANGED <<vars, registry, executed>>

\* metricsFor reads nothing for an empty set of pairs.
Empty(pairs) == \A k \in Kompetitors : pairs[k] = None

\* BatchesByKompetitor, and both periods are resolved from the one index.
ReadIndex(r) ==
    LET s == stats[r] IN
    /\ Reading(r, "index")
    /\ \E index \in [Kompetitors -> UNION {[1..n -> BatchIds] :
                                             n \in 0..Cardinality(BatchIds)}] :
         LET next == [s EXCEPT
                !.current  = [k \in Kompetitors |->
                                ForPeriod(index[k], s.start, s.end)],
                !.previous = [k \in Kompetitors |->
                                BeforePeriod(index[k], s.start, s.end)]] IN
         /\ \A k \in Kompetitors : NewestFirst(index[k], Readable(k))
         /\ Learn(r, next)
         /\ Turn(r, IF s.kind = "table" THEN "count"
                    ELSE IF ~Empty(next.current) THEN "current"
                    ELSE IF ~Empty(next.previous) THEN "previous" ELSE "show")
    /\ UNCHANGED <<vars, registry, executed, asked>>

-----------------------------------------------------------------------------
(* Stats, in the order of its statements.                                  *)

\* Summaries: the rows of the pairs, of the filter's stores.
Summaries(pairs, stores) ==
    [k \in Kompetitors |-> IF k \in stores /\ pairs[k] # None
                           THEN summaries[pairs[k]][k] ELSE <<>>]

\* metricsFor, of the period.
ReadCurrent(r) ==
    /\ Reading(r, "current")
    /\ Learn(r, [stats[r] EXCEPT !.rows = Summaries(stats[r].current,
                                                    stats[r].stores)])
    /\ Turn(r, IF Empty(stats[r].previous) THEN "show" ELSE "previous")
    /\ UNCHANGED <<vars, registry, executed, asked>>

\* metricsFor, of the comparison period.
ReadPrevious(r) ==
    /\ Reading(r, "previous")
    /\ Learn(r, [stats[r] EXCEPT !.previousRows = Summaries(stats[r].previous,
                                                            stats[r].stores)])
    /\ Turn(r, "show")
    /\ UNCHANGED <<vars, registry, executed, asked>>

-----------------------------------------------------------------------------
(* Products, in the order of its statements.                               *)

\* Products: the rows of the pairs, of the filter's stores.
RowsOf(pairs, stores) ==
    [k \in Kompetitors |-> IF k \in stores /\ pairs[k] # None
                           THEN products[pairs[k]][k] ELSE NoRows]

\* Products, the COUNT; no pair is no row.
CountRows(r) ==
    LET found == RowsOf(stats[r].current, stats[r].stores) IN
    /\ Reading(r, "count")
    /\ Learn(r, [stats[r] EXCEPT !.total =
                    Cardinality(UNION {{k} \X found[k].titles : k \in Kompetitors})])
    /\ Turn(r, "page")
    /\ UNCHANGED <<vars, registry, executed, asked>>

\* previousPrices and dbklikStock: what the rows of a page still lack.
Compared(page, pairs) == {k \in Kompetitors : page[k].titles # {} /\ pairs[k] # None}
OwnRows(page) == IF OwnStore = None THEN {} ELSE page[OwnStore].titles
AfterPrices(page) == IF OwnRows(page) = {} THEN "show" ELSE "matches"

\* Products, the page: its JOIN, which the COUNT is without, leaves out the
\* rows of a store that is gone.
ReadPage(r) ==
    LET page == RowsOf(stats[r].current, stats[r].stores \cap registered) IN
    /\ Reading(r, "page")
    /\ Learn(r, [stats[r] EXCEPT !.page = page])
    /\ Turn(r, IF Compared(page, stats[r].previous) # {} THEN "names"
               ELSE AfterPrices(page))
    /\ UNCHANGED <<vars, registry, executed, asked>>

\* ProductsByNames: of the page's rows, those their store had before.
ReadPrices(r) ==
    LET s   == stats[r]
        old == RowsOf(s.previous, Compared(s.page, s.previous)) IN
    /\ Reading(r, "names")
    /\ Learn(r, [s EXCEPT !.prices = [k \in Kompetitors |->
                                         s.page[k].titles \cap old[k].titles]])
    /\ Turn(r, AfterPrices(s.page))
    /\ UNCHANGED <<vars, registry, executed, asked>>

\* ItemIDsByProductIDs: the items matched with rows of our own store.
Matched(b, load) ==
    {i \in load.titles \cap Items :
        [item |-> i, kompetitor |-> OwnStore, product |-> load.version] \in mappings[b]}

\* dbklikStock, the matches; without any there is no stock to sum up.
ReadMatches(r) ==
    LET s     == stats[r]
        items == Matched(s.current[OwnStore], s.page[OwnStore]) IN
    /\ Reading(r, "matches")
    /\ Learn(r, [s EXCEPT !.stocked = items])
    /\ Turn(r, IF items = {} THEN "show" ELSE "stock")
    /\ UNCHANGED <<vars, registry, executed, asked>>

\* TotalStockByItemIDs, from a table nothing here writes.
ReadStock(r) ==
    /\ Reading(r, "stock")
    /\ Turn(r, "show")
    /\ UNCHANGED <<vars, registry, executed, asked, stats>>

-----------------------------------------------------------------------------
\* The request is answered.
ShowStats(r) ==
    /\ Reading(r, "show")
    /\ Learn(r, NoStats)
    /\ Turn(r, "idle")
    /\ UNCHANGED <<vars, registry, executed, asked>>

\* A statement fails: the request is answered with an error.
StatsFail(r) ==
    /\ FaultsAllowed /\ rpc[r] \notin {"idle", "show"}
    /\ Learn(r, NoStats)
    /\ Turn(r, "idle")
    /\ UNCHANGED <<vars, registry, executed, asked>>

-----------------------------------------------------------------------------
(* KompetitorService.Delete.                                               *)

RemovalSteps == {"idle", "summaries", "products", "mappings", "delete"}

Removes(k, from, to) == removal[k] = from /\ removal' = [removal EXCEPT ![k] = to]

\* FindByID.
BeginRemoval(k) ==
    /\ k \in registered
    /\ Removes(k, "idle", "summaries")
    /\ UNCHANGED <<vars, reader, registered>>

\* MUTANT: the rows themselves are not asked for.
ScrapedButRows(k) ==
    [summaries |-> \E b \in BatchIds : summaries[b][k] # <<>>,
     products  |-> FALSE,
     mappings  |-> \E b \in BatchIds : \E m \in mappings[b] : m.kompetitor = k]

\* What HasScrapingData counts, in this order.
Scraped(k) ==
    [summaries |-> \E b \in BatchIds : summaries[b][k] # <<>>,
     products  |-> \E b \in BatchIds : HasRows(b, k),
     mappings  |-> \E b \in BatchIds : \E m \in mappings[b] : m.kompetitor = k]

\* A store with rows in a table is not deleted.
CountData(k, table, next) ==
    /\ Removes(k, table, IF Scraped(k)[table] THEN "idle" ELSE next)
    /\ UNCHANGED <<vars, reader, registered>>

\* Delete, the transaction: the store, and its rows in the cells.
DropStore(k) ==
    /\ Removes(k, "delete", "idle")
    /\ registered' = registered \ {k}
    /\ CellsBecome([i \in Items |-> cells[i] \ {k}])
    /\ UNCHANGED <<reader, edits>>

\* A statement fails, or the process that serves the deletion dies: this may
\* happen whether imports fail or not.
RemovalFails(k) ==
    /\ removal[k] # "idle"
    /\ removal' = [removal EXCEPT ![k] = "idle"]
    /\ UNCHANGED <<vars, reader, registered>>

Removal(k) ==
    \/ BeginRemoval(k)
    \/ CountData(k, "summaries", "products") \/ CountData(k, "products", "mappings")
    \/ CountData(k, "mappings", "delete")
    \/ DropStore(k) \/ RemovalFails(k)

\* The pipeline goes on; FindByID refuses an import for a store that is gone.
Imports ==
    /\ Next
    /\ \A w \in Workers : At(w, "idle") /\ pc'[w] # "idle" =>
                              job'[w].kompetitor \in registered
    /\ UNCHANGED <<reader, registry>>

-----------------------------------------------------------------------------
StatsInit ==
    /\ Init /\ DatedInit
    /\ registered = Kompetitors /\ removal = [k \in Kompetitors |-> "idle"]
    /\ rpc = [r \in Readers |-> "idle"] /\ stats = [r \in Readers |-> NoStats]
    /\ asked = 0

Answer(r) ==
    \/ ReadIndex(r) \/ ReadCurrent(r) \/ ReadPrevious(r)
    \/ CountRows(r) \/ ReadPage(r) \/ ReadPrices(r)
    \/ ReadMatches(r) \/ ReadStock(r)
    \/ ShowStats(r) \/ StatsFail(r)

StatsNext ==
    \/ Imports
    \/ \E k \in Removable : Removal(k)
    \/ \E r \in Readers : AskStats(r) \/ Answer(r)

StatsSpec == StatsInit /\ [][StatsNext]_statsVars

-----------------------------------------------------------------------------
(* Properties.                                                             *)

Resolved(r) == rpc[r] \notin {"idle", "index"}
Paged(r)    == /\ stats[r].kind = "table"
               /\ rpc[r] \in {"names", "matches", "stock", "show"}

\* Locals hold what their types allow, and no period that ends before it starts
\* is being answered.
StatsTypeOK ==
    /\ executed \in [BatchIds -> Days]
    /\ rpc \in [Readers -> StatsSteps] /\ stats \in [Readers -> Locals]
    /\ asked \in Nat
    /\ registered \subseteq Kompetitors /\ removal \in [Kompetitors -> RemovalSteps]
    /\ \A r \in Readers : stats[r].start # None /\ stats[r].end # None =>
                            stats[r].start <= stats[r].end

\* "The batch used per store is the NEWEST one inside the period": no batch of
\* the period that had the store's rows when the request came is newer than the
\* one used, and the one used is in the period.
NewestOfPeriod ==
    \A r \in Readers, k \in Kompetitors :
        LET s == stats[r] IN
        Resolved(r) =>
            /\ s.current[k] \in Within(s.start, s.end) \cup {None}
            /\ \A b \in s.known[k] :
                 /\ s.start = None \/ s.start <= executed[b]
                 /\ s.end = None \/ executed[b] <= s.end
                 => /\ s.current[k] # None
                    /\ executed[b] <= executed[s.current[k]]

\* The trend compares like with like: for a period with a first day, and for
\* "latest data", a store that is compared is one of the period, and what it is
\* compared with is another batch, no newer, and older than the first day.
ComparesLikeWithLike ==
    \A r \in Readers, k \in Kompetitors :
        LET s == stats[r] IN
        /\ Resolved(r) /\ s.previous[k] # None
        /\ s.start # None \/ s.end = None
        => /\ s.current[k] \notin {None, s.previous[k]}
           /\ executed[s.previous[k]] <= executed[s.current[k]]
           /\ s.start # None => executed[s.previous[k]] < s.start

\* An import that was answered counts: of every store whose batch of the period
\* was acknowledged before the request came the metrics add up a summary, and
\* where the schema keeps summaries unique, one only.
AckedCounted ==
    \A r \in Readers, k \in Kompetitors :
        LET s == stats[r] IN
        /\ rpc[r] \in {"previous", "show"} /\ s.kind = "metrics" /\ k \in s.stores
        /\ s.current[k] \in s.answered[k]
        => /\ s.rows[k] # <<>>
           /\ UniqueKeys => Len(s.rows[k]) = 1

\* The table's statements agree, whatever is imported and deleted between them.
\* Only stores of the filter with a batch in the period are on the page, and all
\* of these that are still registered.  A store that had rows in the period when
\* the table was asked for, and was not being deleted then, is on it: a deletion
\* that begins later finds the rows.  A count of 0 has no rows beside it.  (One
\* of more can have none: it counts those a deleted store has left behind.)
TableComplete ==
    \A r \in Readers :
        LET s == stats[r] IN
        Paged(r) =>
            /\ \A k \in Kompetitors :
                 s.page[k].titles # {} => k \in s.stores /\ s.current[k] # None
            /\ \A k \in s.stores \cap registered :
                 s.current[k] # None => s.page[k].titles # {}
            /\ \A k \in s.stores \cap s.staying :
                 s.known[k] \cap Within(s.start, s.end) # {} => s.page[k].titles # {}
            /\ s.total = 0 => \A k \in Kompetitors : s.page[k].titles = {}

\* The stock column is that of the rows beside it: of a settled batch whose rows
\* the page still has, exactly those rows of our own store have a stock that
\* name an item whose cell, or whose universal cell, has our store.
StockOfSettled ==
    [][\A r \in Readers :
         LET s == stats[r]
             b == s.current[OwnStore] IN
         /\ Reading(r, "matches") /\ rpc'[r] \in {"stock", "show"}
         /\ b \in settled /\ s.page[OwnStore] = products[b][OwnStore]
         /\ Mappable # {}
         => stats'[r].stocked = {i \in Mappable \cap s.page[OwnStore].titles :
                                   OwnStore \in Allowed[i]}]_statsVars

\* "Stores absent from the period are excluded from the comparison too."
AbsentNotCompared ==
    \A r \in Readers, k \in Kompetitors :
        Resolved(r) /\ stats[r].current[k] = None => stats[r].previous[k] = None
=============================================================================
