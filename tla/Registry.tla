------------------------------ MODULE Registry ------------------------------
(***************************************************************************)
(* The registry of competitor stores (KompetitorService.Create, Update and *)
(* Delete) and the cells of the mapping matrix (MappingCellUpdate), run by *)
(* concurrent requests, together with what an import does to a store: it   *)
(* looks the store up once and writes its rows later (Ingest has the rest).*)
(*                                                                         *)
(* One action is one statement of the database.  A transaction whose first *)
(* statement is a plain SELECT is two: the snapshot and the commit.  The   *)
(* entities declare neither unique nor foreign keys; UniqueCells says      *)
(* whether the schema has a unique key on a mapping row.  A key column of  *)
(* a universal cell is NULL, and rows with a NULL never collide.           *)
(*                                                                         *)
(* A store is its two codes and its must_scrape flag; names and lengths    *)
(* only lead to refusals.  A create has no key yet (the proto: id = 0).     *)
(***************************************************************************)
EXTENDS Naturals, FiniteSets

CONSTANTS
    Workers,        \* requests being served at the same time
    Ids,            \* primary keys of kompetitors, never used twice
    Codes,          \* marketplace codes
    Cells,          \* the specific (kategori, brand) cells and
    UniversalCells, \* those with a NULL kategori
    None,           \* NULL
    Initial,        \* the stores there are at first, with unique codes
    Forms,          \* bound: what is asked for in a create or an update
    UniqueCells,    \* whether two rows of a specific cell may name one store
    MaxRequests     \* bound: requests received

Columns == {"shopee", "tokopedia"}
Stores  == [shopee : Codes \cup {None}, tokopedia : Codes \cup {None},
            must : BOOLEAN]
NoStore == [shopee |-> None, tokopedia |-> None, must |-> FALSE]

ASSUME RegistryAssumption ==
    /\ Ids \subseteq Nat \ {0}
    /\ UniversalCells \subseteq Cells
    /\ None \notin Codes
    /\ Forms \subseteq Stores /\ NoStore \notin Forms
    /\ Initial \in [Ids -> Forms \cup {NoStore}]
    /\ \A k, l \in Ids : \A column \in Columns :
         k # l /\ Initial[k][column] # None => Initial[k][column] # Initial[l][column]
    /\ UniqueCells \in BOOLEAN /\ MaxRequests \in Nat

VARIABLES
    stores,     \* kompetitors, by primary key
    used,       \* the primary keys handed out so far
    rows,       \* kompetitor_mappings: how many rows of a cell name a store
    data,       \* the scraping tables in which a store has rows
    pc, job,    \* per worker: the next statement, and the request's locals
    requests,   \* bounded counter
    clean,      \* history: workers no conflicting request overlapped
    raced,      \* history: stores last written by a save that was overlapped
    asked       \* history: of each cell, the list the last update asked for
                \* and whether it ran alone

tables  == <<stores, used, rows, data>>
history == <<requests, clean, raced, asked>>
vars    == <<tables, pc, job, history>>

Tables == {"summaries", "products", "mappings"}
Steps  == {"idle", "find", "shopee", "tokopedia", "insert", "save",
           "hasSummaries", "hasProducts", "hasMappings", "delete",
           "exists", "pluck", "sync", "storeProducts", "storeSummaries",
           "storeMappings"}

Jobs == [op   : {"none", "create", "update", "delete", "cell", "import"},
         id   : Ids \cup {0},           \* the store; 0 while it has no key
         form : Stores,
         cell : Cells \cup {None},
         list : SUBSET Ids,             \* the cell's new list
         kept : SUBSET Ids,             \* the cell's list in the snapshot
         seen : SUBSET Tables]          \* history: the data at the beginning
Asked == [alone : BOOLEAN, list : SUBSET Ids]
NoJob == [op |-> "none", id |-> 0, form |-> NoStore, cell |-> None,
          list |-> {}, kept |-> {}, seen |-> {}]

Present(k)    == stores[k] # NoStore
InCell(c)     == {k \in Ids : rows[c][k] > 0}
CodeTaken(column, code, except) ==
    \E k \in Ids \ {except} : Present(k) /\ stores[k][column] = code

SavingOps == {"create", "update"}
\* Worker v serves a request that is in the way of one of this kind.
Conflict(v, op, cell) ==
    \/ op \in SavingOps /\ job[v].op \in SavingOps
    \/ op = "cell" /\ job[v].op = "cell" /\ job[v].cell = cell

-----------------------------------------------------------------------------
At(w, step)   == pc[w] = step
Goto(w, step) == pc' = [pc EXCEPT ![w] = step]
Leave(w) ==
    /\ Goto(w, "idle")
    /\ job' = [job EXCEPT ![w] = NoJob]

\* A request arrives; it and those it conflicts with are no longer clean.
Receive(w, request, step) ==
    LET others == {v \in Workers \ {w} : Conflict(v, request.op, request.cell)} IN
    /\ At(w, "idle") /\ requests < MaxRequests
    /\ Goto(w, step)
    /\ job' = [job EXCEPT ![w] = request]
    /\ requests' = requests + 1
    /\ clean' = IF others = {} THEN clean \cup {w} ELSE clean \ (others \cup {w})

\* A request ends without an effect.
Refuse(w) ==
    /\ Leave(w)
    /\ clean' = clean \ {w}
    /\ UNCHANGED <<tables, requests, raced, asked>>

\* A statement that only reads.
Read(w, step) ==
    /\ Goto(w, step)
    /\ UNCHANGED <<tables, job, history>>

-----------------------------------------------------------------------------
(* Create and Update.                                                      *)

BeginCreate(w) ==
    \E f \in Forms :
        /\ Receive(w, [NoJob EXCEPT !.op = "create", !.form = f], "shopee")
        /\ UNCHANGED <<tables, raced, asked>>

BeginUpdate(w) ==
    \E f \in Forms, k \in Ids :
        /\ Receive(w, [NoJob EXCEPT !.op = "update", !.id = k, !.form = f], "find")
        /\ UNCHANGED <<tables, raced, asked>>

\* MUTANT: only the Shopee code is looked up.
CheckCodeShopee(w, column, step) ==
    /\ At(w, column)
    /\ IF column = "shopee" /\ job[w].form[column] # None
          /\ CodeTaken(column, job[w].form[column], job[w].id)
       THEN Refuse(w)
       ELSE Read(w, step)

\* validateKompetitor: a given code must not be another store's.
CheckCode(w, column, step) ==
    /\ At(w, column)
    /\ IF job[w].form[column] # None
          /\ CodeTaken(column, job[w].form[column], job[w].id)
       THEN Refuse(w)
       ELSE Read(w, step)

\* A save is answered.
Saved(w, k) ==
    /\ raced' = IF w \in clean THEN raced \ {k} ELSE raced \cup {k}
    /\ clean' = clean \ {w}
    /\ Leave(w)
    /\ UNCHANGED <<rows, data, requests, asked>>

\* GORM's Create takes a false must_scrape for unset and inserts its default.
Defaulted(form) == [form EXCEPT !.must = TRUE]

\* Create, the INSERT.
InsertStore(w) ==
    /\ At(w, "insert")
    /\ \E k \in Ids \ used :
         /\ \A o \in Ids \ used : k <= o
         /\ stores' = [stores EXCEPT ![k] = Defaulted(job[w].form)]
         /\ used' = used \cup {k}
         /\ Saved(w, k)

\* Update: GORM's Save updates the row, or inserts it if there is none.
SaveStore(w) ==
    /\ At(w, "save")
    /\ stores' = [stores EXCEPT ![job[w].id] =
                     IF Present(job[w].id) THEN job[w].form
                                           ELSE Defaulted(job[w].form)]
    /\ Saved(w, job[w].id)
    /\ UNCHANGED used

-----------------------------------------------------------------------------
(* FindByID, which starts an update, a deletion and an import alike.       *)

AfterFind == [update |-> "shopee", delete |-> "hasSummaries",
              import |-> "storeProducts"]

\* MUTANT: a store that is not there is not refused.
FindStoreUnchecked(w) == At(w, "find") /\ Read(w, AfterFind[job[w].op])

FindStore(w) ==
    /\ At(w, "find")
    /\ IF Present(job[w].id) THEN Read(w, AfterFind[job[w].op]) ELSE Refuse(w)

-----------------------------------------------------------------------------
(* Delete.                                                                 *)

BeginDelete(w) ==
    \E k \in Ids :
        /\ Receive(w, [NoJob EXCEPT !.op = "delete", !.id = k, !.seen = data[k]],
                   "find")
        /\ UNCHANGED <<tables, raced, asked>>

\* MUTANT: HasScrapingData stops at the summaries.
CheckDataSummaries(w, step, table, next) ==
    /\ At(w, step)
    /\ IF table = "summaries" /\ table \in data[job[w].id] THEN Refuse(w)
                                                           ELSE Read(w, next)

\* HasScrapingData counts in one table after the other.
CheckData(w, step, table, next) ==
    /\ At(w, step)
    /\ IF table \in data[job[w].id] THEN Refuse(w) ELSE Read(w, next)

\* Delete, the transaction: the store and the mapping rows that name it.
DeleteStore(w) ==
    LET k == job[w].id IN
    /\ At(w, "delete")
    /\ stores' = [stores EXCEPT ![k] = NoStore]
    /\ rows' = [c \in Cells |-> [rows[c] EXCEPT ![k] = 0]]
    /\ Leave(w)
    /\ raced' = raced \ {k}
    /\ asked' = [c \in Cells |-> [asked[c] EXCEPT !.list = @ \ {k}]]
    /\ clean' = {v \in clean \ {w} : job[v].op # "cell"}
    /\ UNCHANGED <<used, data, requests>>

-----------------------------------------------------------------------------
(* MappingCellUpdate.                                                      *)

\* The cell exists; an empty list needs no check of its stores.
BeginCell(w) ==
    \E c \in Cells, list \in SUBSET Ids :
        /\ Receive(w, [NoJob EXCEPT !.op = "cell", !.cell = c, !.list = list],
                   IF list = {} THEN "pluck" ELSE "exists")
        /\ asked' = [asked EXCEPT ![c].alone = FALSE]
        /\ UNCHANGED <<tables, raced>>

\* MUTANT: the stores of the list are not looked up.
CheckIdsSkipped(w) == At(w, "exists") /\ Read(w, "pluck")

\* KompetitorIDsExist.
CheckIds(w) ==
    /\ At(w, "exists")
    /\ IF \A k \in job[w].list : Present(k) THEN Read(w, "pluck") ELSE Refuse(w)

\* MUTANT: "kategori_id = NULL" finds no row of a universal cell.
PluckCellEqualsNull(w) ==
    /\ At(w, "pluck")
    /\ job' = [job EXCEPT ![w].kept = IF job[w].cell \in UniversalCells
                                      THEN {} ELSE InCell(job[w].cell)]
    /\ Goto(w, "sync")
    /\ UNCHANGED <<tables, history>>

\* SyncCell, the snapshot of the cell.
PluckCell(w) ==
    /\ At(w, "pluck")
    /\ job' = [job EXCEPT ![w].kept = InCell(job[w].cell)]
    /\ Goto(w, "sync")
    /\ UNCHANGED <<tables, history>>

\* MUTANT: the stores that are no longer wanted stay.
SyncedKeepsOld(w) ==
    [k \in Ids |-> IF k \in job[w].list \ job[w].kept THEN rows[job[w].cell][k] + 1
                   ELSE rows[job[w].cell][k]]

\* What the difference of list and snapshot makes of the cell's rows.
Synced(w) ==
    [k \in Ids |-> IF k \in job[w].kept \ job[w].list THEN 0
                   ELSE IF k \in job[w].list \ job[w].kept
                        THEN rows[job[w].cell][k] + 1
                   ELSE rows[job[w].cell][k]]

\* Whether an insert meets a row committed after the snapshot.
Collides(w) ==
    /\ UniqueCells /\ job[w].cell \notin UniversalCells
    /\ (job[w].list \ job[w].kept) \cap InCell(job[w].cell) # {}

\* SyncCell, the commit.
SyncCell(w) ==
    /\ At(w, "sync") /\ ~Collides(w)
    /\ rows' = [rows EXCEPT ![job[w].cell] = Synced(w)]
    /\ asked' = [asked EXCEPT ![job[w].cell] =
                    [alone |-> w \in clean, list |-> job[w].list]]
    /\ clean' = clean \ {w}
    /\ Leave(w)
    /\ UNCHANGED <<stores, used, data, requests, raced>>

-----------------------------------------------------------------------------
(* ImportProducts, as far as the registry goes.                            *)

BeginImport(w) ==
    \E k \in Ids :
        /\ Receive(w, [NoJob EXCEPT !.op = "import", !.id = k], "find")
        /\ UNCHANGED <<tables, raced, asked>>

\* The import stores rows of the store in one table after the other.
StoreData(w, step, table, next) ==
    /\ At(w, step)
    /\ data' = [data EXCEPT ![job[w].id] = @ \cup {table}]
    /\ IF next = "idle" THEN Leave(w) /\ clean' = clean \ {w}
                        ELSE Goto(w, next) /\ UNCHANGED <<job, clean>>
    /\ UNCHANGED <<stores, used, rows, requests, raced, asked>>

-----------------------------------------------------------------------------
\* A statement fails, or the process dies: nothing more happens.
Fails(w) ==
    /\ ~At(w, "idle")
    /\ Refuse(w)

Finished ==
    /\ requests = MaxRequests /\ \A w \in Workers : At(w, "idle")
    /\ UNCHANGED vars

Init ==
    /\ stores = Initial
    /\ used = {k \in Ids : Present(k)}
    /\ rows = [c \in Cells |-> [k \in Ids |-> 0]]
    /\ data = [k \in Ids |-> {}]
    /\ pc = [w \in Workers |-> "idle"] /\ job = [w \in Workers |-> NoJob]
    /\ requests = 0 /\ clean = {}
    /\ raced = {}
    /\ asked = [c \in Cells |-> [alone |-> TRUE, list |-> {}]]

Step(w) ==
    \/ CheckCode(w, "shopee", "tokopedia")
    \/ CheckCode(w, "tokopedia", IF job[w].op = "create" THEN "insert" ELSE "save")
    \/ InsertStore(w) \/ SaveStore(w) \/ FindStore(w)
    \/ CheckData(w, "hasSummaries", "summaries", "hasProducts")
    \/ CheckData(w, "hasProducts", "products", "hasMappings")
    \/ CheckData(w, "hasMappings", "mappings", "delete")
    \/ DeleteStore(w)
    \/ CheckIds(w) \/ PluckCell(w) \/ SyncCell(w)
    \/ StoreData(w, "storeProducts", "products", "storeSummaries")
    \/ StoreData(w, "storeSummaries", "summaries", "storeMappings")
    \/ StoreData(w, "storeMappings", "mappings", "idle")
    \/ Fails(w)

Begin(w) ==
    \/ BeginCreate(w) \/ BeginUpdate(w) \/ BeginDelete(w) \/ BeginCell(w)
    \/ BeginImport(w)

Next == (\E w \in Workers : Begin(w) \/ Step(w)) \/ Finished

Spec == Init /\ [][Next]_vars

-----------------------------------------------------------------------------
(* Properties.                                                             *)

\* Rows, locals and histories hold what their columns and types allow; a key
\* is handed out before a row has it.
TypeOK ==
    /\ stores \in [Ids -> Forms \cup {Defaulted(f) : f \in Forms} \cup {NoStore}]
    /\ {k \in Ids : Present(k)} \subseteq used /\ used \subseteq Ids
    /\ rows \in [Cells -> [Ids -> Nat]]
    /\ data \in [Ids -> SUBSET Tables]
    /\ pc \in [Workers -> Steps] /\ job \in [Workers -> Jobs]
    /\ requests \in Nat /\ clean \subseteq Workers /\ raced \subseteq Ids
    /\ asked \in [Cells -> Asked]

\* Whoever removes a store asked for it when the store had no rows in any
\* scraping table: neither a finished import nor one that is still under way
\* or has failed half-way loses its store to a later deletion.
DataProtectsStore ==
    [][\A k \in Ids : Present(k) /\ ~Present(k)' =>
           \E w \in Workers : At(w, "delete") /\ job[w].id = k
                                 /\ job[w].seen = {}]_vars

\* A create or update that no other one overlapped gives no store a code that
\* another store has, also when deletions and imports ran beside it.
SoloSavesUnique ==
    \A k, l \in Ids : \A column \in Columns :
        /\ k # l /\ Present(k) /\ Present(l)
        /\ stores[k][column] # None /\ stores[k][column] = stores[l][column]
        => k \in raced \/ l \in raced

\* An update of a cell that ran alone leaves the stores it asked for, less
\* those deleted since, and so repairs what overlapping updates left behind.
SettledCells == \A c \in Cells : asked[c].alone => InCell(c) = asked[c].list

\* MappingCounts counts rows.  That a cell, a universal one included, names a
\* store once more than it did, and more than once, takes an update of the cell
\* that another update of it or a deletion overlapped: the rows that earlier
\* overlaps left behind are never multiplied by one that runs alone.
OnlyOverlapsDouble ==
    [][\A c \in Cells, k \in Ids :
         rows'[c][k] > 1 /\ rows'[c][k] > rows[c][k] =>
           \E w \in Workers \ clean :
             At(w, "sync") /\ pc'[w] = "idle" /\ job[w].cell = c]_vars

\* The list of a cell whose last update ran alone names no store that is not in
\* the registry: none was missing when the update looked its stores up, and none
\* has gone since without being taken off the list.
SettledCellsNameStores ==
    \A c \in Cells : asked[c].alone => \A k \in InCell(c) : Present(k)
=============================================================================
