# Verification of dbklik-kompetitor-service

TLA+ models of the competitor-research service, the TLC instances that check
them and the theorems TLAPS proves about them. Paths below are relative to
`src/`; `K/` stands for `modules/kompetitor/`.

## 1. The system

The service is the Go half of a Laravel application. Two binaries, an HTTP one
(`cmd/api`) and a gRPC one (`cmd/grpc`), expose the same use cases
(`K/application/services`) over one MySQL database that they share with Laravel.
Nothing else is shared: every process has its own in-memory IDF cache, and there
is no lock, queue or leader between processes. Requests run concurrently, one
goroutine each; what keeps them apart is only what a database statement or
transaction guarantees.

| Component | State | Operations | Hard behaviour | What makes it correct |
|---|---|---|---|---|
| Import pipeline `K/application/services/ingest_service.go`, ingest part of `K/infrastructure/repository/repositories.go` | `scraping_batches`, `scraping_products`, `scraping_summaries`, `scraping_product_mappings` | `ImportProducts`: find or create the batch, replace a store's rows, recompute the summaries, mark completed, `mapBatch` | eight statements in five transactions, concurrent imports of one batch, failure of any of them, a crash between two of them, swallowed errors of the mapping pass | an acknowledged import stays readable; summaries and matches are those of stored rows; a completed batch is never hidden again; a lone import repairs |
| IDF cache `K/application/services/idf_cache.go`, `pkg/cache/cache.go` | one map per process, 12 h expiry | `Remember` (look up, build, store), `Forget` | a fill racing `Forget`; keys are sets of batches; other processes are not told | nobody matches with weights older than the rows |
| Kompetitor registry `K/application/services/kompetitor_service.go` | `kompetitors` | create, update, delete, listings | check-then-act on unique codes and on "has scraping data"; `Save` of a row that was deleted | codes are unique as long as saves do not overlap; a store that had data when its deletion was asked for is not deleted |
| Mapping cells `K/application/services/mapping_service.go`, `SyncCell` | `kompetitor_mappings` | cell read and update, matrix | diff against a snapshot, deletion of a store meanwhile | an update of a cell that runs alone leaves its list |
| Mapping resolver `K/domain/services/mapping_resolver.go` | per-request caches of cells and universal cells | `PreloadPairs`, `ForPair`, `RawPair`, `UniversalFor`, `AllowedByItem`, `Forget` | two queries at different moments, negative caching | a filled specific cell wins outright |
| Our Product panel `K/application/services/our_product_service.go` | none (reads, fills the IDF cache) | `OurProducts`: effective batch per store, matching on the fly, margins | six reads without a transaction, weights cached per batch set | every store is read from a batch at least as new as those there were when the page was asked for |
| Batch resolver `K/domain/services/batch_resolver.go` | none | `ResolveBatchByKompetitor` | batches of the same day tie | stores in the latest batch use it |
| Period resolver `K/domain/services/period_resolver.go` | rows of one request | `ForPeriod`, `BeforePeriod` | open-ended periods, several batches per store | one newest batch per store; a comparison with an older one of the same stores |
| Riset Produk panel `K/application/services/scraping_service.go` | none | `Stats`, `Products`, `LegacyProducts`, `BatchCodes` | index, summaries and rows read at different moments; the page joins the registry, its COUNT does not | an acknowledged import counts, once; the statements of one table agree, whatever is imported and deleted between them; a stock belongs to the row beside it |
| Text matcher `K/domain/services/text_matcher.go` | none | tokenise, IDF, vectorise, best match | floating-point ties, capped scores, map order | the first of the best products per item and store |
| Margin calculator `K/domain/services/margin_calculator.go`, `feeCache` | the fees a request has read | margin of each row of a page | the fee tables are edited between two rows; two tables with the same ids; caps, no price, no cost | a margin comes from rates its fees had; the rows of a page can be compared |
| Transport: `K/routes`, controllers, gRPC server, requests, responses | none | decode, one call of the service, error to status | two decodings of one request, refusals at different places | a refused client changed nothing; a client told "done" has its writes |
| Repository fallbacks `K/infrastructure/repository/unavailable.go`, wiring, `internal/database` | whether the process has a connection, decided once at boot | boot | a database that comes or goes later | without a connection nothing is stored, and nobody is told "done" of what had to be |
| Servers and middleware `internal/server`, `internal/grpcserver`, `internal/middleware`, `cmd/*` | the process, its listener and its requests | listen, serve, signal, graceful stop, panic recovery | a signal before, during and after each of them; a request that hangs | a signal ends the process; exit code 0 means that everybody was answered |

How they interact: an import ends with a mapping pass, which uses the resolver,
the matcher and the IDF cache; a page of Our Product uses the batch resolver, the
resolver, the same cache and the matcher; Riset Produk uses the period resolver
and, for its stock column, the matches the mapping passes stored; a deletion asks
the tables of the imports; cell updates change what mapping passes and pages may
match. All of it goes through the database and the cache, never through a call
from one component to another. In front of the use cases stand two transports,
and around them two kinds of process, which decide what a client learns of a
failure and what becomes of a request when the process stops.

## 2. The modules

| Module | Models | Built on |
|---|---|---|
| `Ingest` | `ImportProducts` and `mapBatch` for concurrent requests in several processes, the IDF cache, failures, crashes | |
| `Registry` | `Create`, `Update`, `Delete`, `MappingCellUpdate` for concurrent requests, and the rows an import writes for a store | |
| `Dated` | the dates of batches, and which batches a reader sees | `Ingest` |
| `Panel` | a page of Our Product up to its matches, with the batch resolver and the shared cache | `Dated` |
| `Stats` | the metrics and the product table of Riset Produk, with the period resolver, beside imports and deletions of stores | `Dated` |
| `Matching` | the mapping resolver of one request beside cell updates, the matcher's loop, the columns of a page, the read of one cell | |
| `Matrix` | `MappingMatrix`: six statements beside the same cell updates | `Matching` |
| `Margins` | the rows of a page after their matches: fees looked up row by row, the margin calculator | `Matrix` |
| `Scraping` | abstract: what a batch promises its readers, without statements, requests or failures | |
| `Reading` | abstract: what a page shows of the batches of `Scraping`, as if it looked at them twice | `Scraping` |
| `Serving` | abstract: what the clients of a process may rely on, without its listeners, goroutines and calls | |
| `UseCases` | every method of the service as the list of its repository calls, with where it may refuse, skip a call or swallow an error | |
| `Transports` | the routes and methods, what they decode, the statuses they answer | `UseCases` |
| `Server` | one process of either kind: boot, listen, requests call by call, signals, graceful stop, crash | `Transports` |
| `IngestProofs`, `RegistryProofs`, `PanelProofs`, `StatsProofs`, `ServerProofs` | theorems | the module they are named after, the readers' on `IngestProofs` and `SettledProofs` too, `Panel`'s also on `ScrapingProofs` |
| `MatchingProofs` | theorems about `Matching`, `Matrix` and `Margins` | `Margins` |
| `ScrapingProofs` | `Ingest` implements `Scraping` | `IngestProofs` |
| `SettledProofs` | what an import that runs alone repairs | `IngestProofs` |
| `MC...` | the constants of the runs | the module of that name |

`Panel` and `Stats` compose: they extend the import pipeline with readers, so
that every statement of a page can fall between two statements of an import, and in
`Stats` also of a deletion.
`Matrix` and `Margins` compose the same way with the cell updates of `Matching`.
`Server` is the other cut through the system: every operation, but of its calls
only the order, the outcome and whether they write; what the calls do to the
tables is in the modules above.

`Ingest` defines `Promise == INSTANCE Scraping WITH ...`: a batch's status is its
status, its files are the versions of a store's rows, and what is shown are the
versions its summary rows aggregate. `ImplementsScraping == Promise!Spec` is
checked by `ingest_faults` and proved in `ScrapingProofs`. What the mapping leaves
out (that `shown` may lag behind `files`) is what `ingest_lostupdate` is about.

`Panel` defines `Reader == INSTANCE Reading WITH ...` on the same mapping of the
batches. A page asks, picks a completed batch of each store, and shows the files of
some of those stores, all read at one moment; six or more statements are two looks.
`ImplementsReading` is checked by `panel` and proved in `PanelProofs`. `Reading` says
neither that the picked batch is the latest one (`panel_sameday`) nor that the weights
of the page are those of the rows it shows (`panel_weights`): the code promises neither.

`Server` defines `Promise == INSTANCE Serving WITH ...`: its clients know whether the
process is up or stopping, how it ended, whether it has a database, and of their own
request what was stored and what they were told. `ImplementsServing` is checked by
`server` and proved in `ServerProofs`.

### How state and actions correspond to the code

The unit of a step is one statement of the database, one transaction that
begins with a write or a locking read, or one locked section of the cache.
Between two of them everybody else may run. `pc` (`rpc`, `step`) is the place in
the handler, `job` (`page`, `stats`) its local variables, and a handler that ends
forgets them.

* `Ingest`: `select`/`insert` are the two statements of GORM's `FirstOrCreate`;
  `replace` is `ReplaceProducts`; `aggregate`, `lookup` and `write` are
  `ComputeSummaries`, whose GROUP BY runs outside its transaction and whose
  `First` reads the transaction's snapshot; `mark` is `MarkStatus`; `mapProducts`
  to `mapReplace` are `mapBatch`, with `get`, `names`, `itemNames`, `set` for
  `IdfCache.Remember`. A store's rows in a batch are one load: a version and the
  set of titles. A summary row is the version it aggregates, a match names the
  version its product belongs to, and weights are the titles they were built
  from. That is what the properties tell apart: *which* rows a number comes from.
* `Registry`: `find`, `shopee`, `tokopedia`, `insert`/`save` are create and
  update; `hasSummaries`, `hasProducts`, `hasMappings`, `delete` are a deletion;
  `exists`, `pluck`, `sync` a cell update, whose transaction takes its snapshot
  with the `Pluck`. A store is its two codes and `must_scrape`, a cell the number
  of rows each store has in it.
* `Panel`: `latest`, `batchRows`, `cells`, `products`, `weights`, `corpus`,
  `corpusItems`, `store` are the statements of `matchOurProducts` in their order.
* `Stats`: `index`, then `current` and `previous` for the metrics, or `count`,
  `page`, `names`, `matches`, `stock` for the table. `registered` and `removal` are the
  stores and the deletions on their way, with the statements of `Registry`: the three
  counts of `HasScrapingData`, here of the tables that the imports of `Ingest` write, then
  the transaction. An import begins for a registered store only, but it may go on when its
  store is gone. Such rows are in `count`, which has no JOIN, and not in `page`
  (`K/infrastructure/repository/repositories.go:473-481`).
* `Matching`: `universal`, `pairs`, `allow`, `match` (one step per product),
  `columns` are a page; `rawUniversal`, `rawPair` the read of one cell.
* `Matrix`: `turn` is the next of the six statements of `MappingMatrix`. An empty
  list of ids means "no filter" to each repository call (`Filter`), as in the code.
* `Margins`: an answered page builds its rows in the order of `harga.id`; a
  missing fee is one statement (`LookUpFee`), a row with its fees one local step
  (`PriceRow`). Amounts are rupiah, rates per mille, a margin tenths of a percent.
* `Server`: `main` and `serve` are the two goroutines of `Run`, a request's `todo`
  the calls that are left of its use case. A call answers (`Goes`), is not needed
  (`Skips`), gives a reason to refuse (`Refuses`), fails before or after its commit
  (`Fails`, `FailsLate`), or waits for the database (`Hangs`). `swallow` marks the
  calls of the mapping pass, whose error `ImportProducts` only logs; `NoCall` is a
  refusal of the input itself. `Exit` drops what was in flight, as the end of a
  process does.

### Abstractions

* Titles are members of a small set: an item's own name, another name, a blank
  one. Prices, revenues, ratings and formatting are left out. Cosine scores are
  small numbers with one of them standing for 1 and others for 1 and a rounding
  error.
* The repository does not own the schema (`docs/ARCHITECTURE.md:40`), so keys are
  constants: `UniqueKeys` (batch code; batch and store of a summary) and
  `UniqueCells` (a mapping row). Runs and theorems cover both values.
* MySQL's default isolation: a transaction reads the snapshot of its first plain
  read; a DELETE, UPDATE or INSERT sees what is committed.
* A create carries id 0, as the proto asks. An answer lost on the way is a crash
  of the worker after its last statement. The universal cells do not change in
  `Ingest` (they do in `Matching`); items and the own store are constants.
* `executed_at` of every batch is drawn in advance: the code sets it once, when
  the batch is created. Readers of `Stats` are served by a process without
  imports, so that a crash of the importing process does not end them; a page of
  `Panel` shares its process and its cache with the imports and dies with it.
* The deletions of `Stats` are served one per store at a time, of stores no universal cell
  names, and a deleted store stays away: that an update on its way saves it again is in
  `Registry`. Reviving one after the page was read would make it a registered store that
  the page lacks.
* A page of the product table holds every row and has no search term.
* Margins have no floating-point error; the database's `AVG(hpp)` is exact.
* In `Server` an id is absent, given or garbled, a store's code fits its column or
  is too long, a body is good, refused by the service or not decodable, and what
  calls answer is nondeterministic. HTTP keep-alive connections without a request
  do not count at a stop. Calls that loop over rows (two fees per row) are listed
  once.
* Histories (`acked`, `clean`, `settled`, `raced`, `asked`, `held`, `known`,
  `answered`, `seen`) record what happened and guide no step. A page of `Panel`
  that stores weights of a batch which an import is rewriting counts as having
  overlapped that import.

## 3. The runs

| Run | What it shows | Bounds, and why they are enough |
|---|---|---|
| `ingest_faults` | an acknowledged import stays readable; summaries describe stored rows; an import that runs alone and to its end leaves exact summaries and matches; the pipeline implements `Scraping` | two workers at once and a third import after them, two stores, one batch, with every failure and crash: the interleavings are those of pairs of statements, and the third import is the one that repairs. The theorems cover the schema without unique keys |
| `ingest_live` | when no statement fails, a batch that was created is in the hands of an import until it is completed, and is completed | two colliding imports and the edit of a cell: the import that is refused must leave another that ends |
| `ingest_lostupdate` | *violated*: the slower of two imports saves older aggregates | two imports and a repair |
| `registry` | a save that nothing overlaps keeps the codes unique, a solo cell update leaves its list, and a list of stores that there are; scraping data protects its store; a store gets a second row in a cell only by an update that something overlapped | two requests at a time, four in all, three keys, two codes, a specific and a universal cell, of which the unique key covers the first: two to conflict and two to prepare or to overlap again |
| `panel` | no store is read from an older batch than there was; shared weights leave settled matches exact; a page is two looks at the batches | one import at a time beside one page, two batches, two days, one cell edit, failures and crashes |
| `panel_sameday` | *violated*: of two batches of one day the latest one is not the one that is read | two batches, one day |
| `panel_weights` | *violated*: stale weights stay in the cache | one batch, imported twice |
| `stats` | the newest batch of a period per store, comparison with an older one, every acknowledged import counted once, a table that agrees with itself | two stores, one of which may be deleted, also under an import of it; two batches, two days, every period and filter, no failing imports; a second reader would add nothing, readers write nothing |
| `stats_stock` | the stock column belongs to the rows beside it; acknowledged imports count also when others fail | our own store, two imports with every failure and crash, so that a batch is rewritten between the statements of a table |
| `stats_absent` | *violated*: a period with an end and no start compares stores it does not have | one store, two batches |
| `pages` | one cell decides; columns and matches agree; the first of the best products is kept; the form shows a raw cell; the matrix draws every used cell and counts no hidden one; margins come from rates the fees had, and the rows of a page can be compared | one request beside one edit, anywhere: of a cell or of a fee. An item with a cell of its own, one without kategori, one without brand; three products, the first and last of one store; a suspended brand; two rows with one cost on both sides of a cap, one without cost, one id in both fee tables; a rate that leaves some of a further rupiah and one that takes more than all of it |
| `server` | "done" is said after all writes; a signal ends the process, which until then only works off what it has; what clients see is what `Serving` promises: refusals come before writes, an exit code 0 only when everybody was answered | two requests at a time: one of any operation, one that needs no call or edits a cell, with reads before its write; both transports, three drivers, any number of restarts, outages, hangs and failures |

Every run checks for deadlock: a model stops only in `Finished`, with all
requests served; `Server` never stops, and has no bound but its constants. Symmetry is used over workers, stores and codes where the
constants do not tell them apart, and never with a temporal property of
liveness.

What the violated runs show is in `PROJECT.json`, with the lines of the
documentation they contradict.

### Properties that rest on each other

* `SettledSummaries` and `SettledMatches` are about repair: whatever crashed,
  failed or overlapping imports leave, the next import of the batch that runs
  alone puts right. They are not promises about batches that overlapping imports
  touched last; `ingest_lostupdate` shows why they cannot be.
* `SoloSavesUnique` and `SettledCells` are the same for the registry: check-then-act
  is sound for requests nothing overlaps, and that is all it is.
* `StockOfSettled` is what `SettledMatches` is worth to a reader, whose page and
  whose matches are read by two statements.
* `ImplementsScraping` is `NeverUncompleted`, `AckedDurable` and `SummaryFromStored`
  in one specification, and more: nothing takes a store's summary away, and a
  batch is completed with a summary in it. `NeverUncompleted`, one of its clauses, is
  a theorem and not checked by a run of its own.
* `ImplementsReading` and `PageNotOlder` overlap in the choice of the batches. The first
  adds that they were completed when they were picked and that the rows of all stores
  are of one moment; the second speaks of the dates alone.
* `SettledCellsNameStores` is the foreign key the table does not have: `SyncCell` may
  insert a row of a store that was deleted after `CheckIds`, and the property says that
  only overlapping requests can leave it there.
* `RunningInHand` is the safety half of `BatchCompletes`: a batch that nobody holds would
  stay "running" whatever is scheduled. `StoppingDrains` is the same for `GrpcStops`.
* `ImplementsServing` is `RefusedWroteNothing`, `DoneWroteAll` and `CleanExitAnswersAll`
  in one specification, with the order of what a client sees. The first and the last of
  these are clauses of it, so they are theorems only. What it says of UNAVAILABLE is what
  the code does: only a process without a connection says so. The texts of the repository
  do not agree on that. `pkg/errors/errors.go:50` has the database that cannot be reached as
  well, which a process with a connection reports as INTERNAL; `docs/API.md:74` only the
  one that is "not configured"; by `docs/ARCHITECTURE.md:63` every RPC of a process
  without a driver returns it, but one whose input is refused first does not.
* `TableComplete` says of a deletion what `DataProtectsStore` does, to a reader: a store that
  had rows in the period and was not being deleted when the table was asked for is on the
  page, since whoever deletes it finds the rows. It does not say that the count is the
  number of rows: the count has what a deleted store has left behind, and what was
  imported in between changes the one and not the other.
* `OnlyOverlapsDouble` says who may make `MappingCounts` count a store twice. It is not a
  promise that nobody does: no unique key covers a universal cell, and two overlapping
  updates of one are in the model.
* `DearerRowEarnsMore` excepts rows whose fees, with the shares of the formula, take more of
  a further rupiah than there is. Nothing in the code keeps rates below that, and there a
  dearer row may earn less.
* `CountsOfShownCells` and `MappedCellsAreShown` are the two directions of one
  claim about the matrix. The first excepts an axis that comes out empty, whose
  list of ids the counts take for "no filter"
  (`K/application/services/mapping_service.go:59`).
* The clean exits of `ImplementsServing` and `HttpStops` pull in opposite directions: the REST
  process ends after ten seconds whatever its requests wait for, and then not
  with exit code 0. `GrpcStops` has no deadline and needs the database to answer.
* `BestIsKept` excepts scores above 1. The matcher compares a raw score with one
  that was capped at 1, so that of two equal names with a score of 1 and a
  rounding error the later one wins, against the comment in
  `K/domain/services/text_matcher.go:176`.

### Fairness

`ingest_live` assumes `WF_vars(Step(w))` for every worker. The Go runtime
schedules every goroutine, the database answers every statement (or fails it,
which is a step as well), and the cache's mutex is held for a map access.
Nothing is assumed of the arrival of requests.

`server` assumes weak fairness of what main does after a signal (`BeginStop`,
`Stopped`), of the timer of the HTTP server (`GraceOver`), and of a handler that
is not waiting for the database (`Proceeds(r)`). Nothing is assumed of clients,
signals, failures, `Resumes` or the database: a call without a deadline may hang
for ever. That this does not happen is the premise of `GrpcStops`, and of no other.

## 4. The proofs

The theorems hold for any numbers of workers, processes, readers, stores, batches,
codes, cells, items, products, days, requests and edits, with and without failures,
and, where they do not say otherwise, with and without unique keys. They rest on
the assumptions each module names for its constants and on nothing else:
`IngestAssumption`, `RegistryAssumption`, `MatchingAssumption`, `ServerAssumption`,
`DatedAssumption`, `PanelAssumption`, `StatsAssumption`, `MatrixAssumption` and
`MarginsAssumption`, which say that constants have their types, that the tables a
statement counts are finite, and, in `StatsAssumption`, that no universal cell names a
store that may be deleted.

**Imports.** The invariants say nothing of an import on its way, so they are not
inductive. `WorkerInv(w)` adds what the import of `w` has secured at its
statement: after `replace` its store has rows, from `lookup` to `write` the
aggregates describe versions that exist, after `write` there is a summary, after
`mark` the batch is completed. Other imports cannot take that away, because what
it speaks of only grows (`GrowsStep`: rows are never taken from a store, versions
and summaries never shrink, a completed batch stays completed). So `Bystander`
carries `WorkerInv` over everybody else's steps, and `ActorStep` goes through the
statements of the one who moves. `TypeCorrect`, `AckedImportsAreDurable`,
`SummariesDescribeRows` and `CompletedStaysCompleted` follow.

`RunningBatchesAreInHand` needs to know which import holds a batch that is running.
`HandedOn` says: one that has reached its mark, or any one as long as the batch has no
summary. An import that gives up without a failure (`GiveUpHands`) holds no batch yet, or
has collided with a summary; then there is another one at its mark, and it stays there
(`OthersInHand`) until it completes the batch.

**Refinement.** `PipelineImplementsScraping` maps every step of `Ingest` to a step
of `Scraping` or a stutter. `StepImplements` has one lemma per statement that the
readers can see (`insert`, `replace`, `write`, `mark`, the answer); the others
leave the mapped variables alone. It rests on the invariant of `IngestProofs`:
that the aggregates of a worker are versions of rows the store had is what makes
`write` a `Summarise`, and its own summary what makes `mark` a `Complete`.

**Repair.** An import is clean while nobody else has been at work in its batch, no
cell has changed and nothing of it has failed. `Alone` says that no other import has
its code, `Placed` that it works in a batch of that code, so nobody else touches what
it has read, and `Exact` that its locals are therefore still what the tables hold, from
`lookup` to `mapReplace`, the weights included. `Held` is the result: in a batch
that such an import has left nobody is at work, its summaries are those of its
rows (`Rebuilt`) and its matches those of its rows and cells (`Remapped`).
`CleanImportsRepairSummaries` assumes unique keys (`OneSummary`), because without them
overlapping imports may have written two summaries of one store, of which the repair
rewrites one; `CleanImportsRepairMatches` does not, because `Replace` deletes
every match of the batch first.

**Panel.** A page reads the newest batch, the batches of each store and their rows in
three statements. `ReaderInv` says what is left of an answer when the next statement
runs: a batch a store could be read from can still be read (`StaysReadable`, from
`GrowsStep`), and no batch known when the page was asked for is newer than the one
the store resolved to. From it follow `PageTypeCorrect` and `PagesAreNotOlder`.
`PagesSpoilNoMatches` carries the invariant of `SettledProofs` over the statements of
pages: the weights a page stores are under the key of a batch whose import no longer
counts as clean (`SettledWhenWeighing`).

`PagesImplementReading` maps the statements of a page to its two looks (`LookStep`), and
those of imports to the steps of `Scraping` (`BatchesStep`, from `StepImplements`).
`ReaderInv` already says what a pick promises, so `Picks` is about what the page has seen
before: nothing of the batches, no rows (`Unseen`). That every file of a store has rows
(`Filed`) makes the batches a page may read those `Reading` lets it read.

**Stats.** The first part is about lists: `firstWithin` returns the first batch of the
list in a period (`FirstOfList`), so on a list that is newest first it is a newest
one (`ForPeriodList`), and `BeforePeriod` returns another batch, no newer, and from
before the first day (`BeforePeriodList`); a period with an end and no first day is
excepted there, as `stats_absent` shows it has to be. The second part carries this and what
each statement found through the later ones; `Found` is its core: the rows or
summaries of an acknowledged import are there when the batch is read, because they
are never taken away. From it follow `StatsTypeCorrect`, `NewestBatchUsed`,
`TrendsCompareLikeWithLike`, `AcknowledgedIsCounted` and `TablesAgree`. A deletion is no
step of `Ingest`, but all it changes are cells, which the invariants of the imports do not
rest on (`CellsKeepIInv`, `SettledWhenCellsChange`). For `TablesAgree`, `StayInv` says of a
store that had rows when the request came, and was not being deleted then, that no
deletion of it gets beyond the count of its rows (`RemovalKeepsStaying`), since rows are
never taken from a store; so it is still registered when the page joins the registry.
`StockIsOfTheRows` adds that readers keep the invariant of `SettledProofs`, whose
`Remapped` says which matches a settled batch has.

**Registry.** `IInv` has one part per reason to trust a value that was read
earlier. `Checked`: the data a deletion saw is still there and not in the tables
it has counted. `Validated`: nobody else has the codes a solo save has checked.
`Snapshot`: the list a solo cell update plucked is the cell's list. The last two
survive other requests because a clean request is alone among those it conflicts
with (`Lonely`). From them follow `TypeCorrect`, `DataProtected`,
`SoloSavesAreUnique` and `SettledCellsHold`. `LoneUpdatesDoubleNoStore` is about the step
itself: only `SyncCell` adds rows (`DoublesBySync`), and by `Snapshot` a lone one inserts no
store the cell has a row of (`LoneSyncOnce`), with or without a unique key.
`SettledCellsNameTheRegistry` rests on `StoresRemoved`: only a deletion takes a store away,
and it ends the solo of every cell update on its way and takes the store off every list.
So a list that was looked up names stores until it is committed, and after it
(`NamesStores`).

**Matching.** `IInv` says where the locals of a request come from: every list in
the caches is one the cell has held (`FromCells`), the allowed stores are those of
the caches until the columns are built (`FromCache`), only allowed stores have a
match (`OnlyAllowed`). `BestSoFar` is the loop invariant of the matcher: `BestIsKept`
for the products the loop has been at (`Seen`); `OneMoreProduct` is its arithmetic,
with the cap at 1. From them follow `OneCell`, `Columns`, `Best`, `RawCell` and
`TypeCorrect`. They are theorems of `MatrixSpec` and `MarginsSpec` as well: a step of these
is one of `Matching` or leaves its variables alone, except that an edit of a rate shares
the bound `MaxEdits`; the invariants of `Matrix` are carried over the rows of a page in
the same way.

**Matrix.** `CountsShown` says that a count is the size of a list its cell has had
during the request and that the cell is on both axes, if these are not empty;
`AxesFilled` that, without a filter, a cell that always had stores is on the axes as far
as they have been read. Edits only add to the lists a cell has had, so both survive
them (`MatrixBystander`); `MatrixMoves` goes through the six statements.

**Margins.** A rate in the cache is one its fee has had (`RatesHeld`), and every row
there is has the margin of the rates that are in the cache still (`RowsPriced`): two
rows of a page with one category were priced with one rate. The rest is arithmetic
over all prices, costs and rates. `NetGrows`: of a rupiah more the formula takes 69
thousandths and, by the property's own condition (`LeavesAShare`), the fees at most the
other 931, whatever caps are reached. `Quotients` and `RoundingKeepsOrder`: division
and rounding half away from zero keep the order. `SumOfRows` shows that the average
of the cost rows is a number, for any list of them.

**Server.** The invariant speaks of what is left of each use case, not of its
answers so far. `Plan` says what such a rest must be, whatever the calls will
answer: no step that may refuse is behind a write (`RefusesFirst`), everything
promised is written or ahead of every step that may end the use case well
(`Delivers`), and the first step of a new request cannot be passed without a
database (`Asks1`). One lemma per operation shows that its list of calls starts as
a `Plan` (`HandledPlan`, and `HttpPlan` and `GrpcPlan` for what the transports
decode), `PlanRest` that what is left after a step is one again, and `PlanEnd` what
an answer may then say. `Phases` adds that a process that is down has no requests.
From this follow `TypeCorrect`, `RefusalsWriteNothing`, `SuccessWroteAll` and `CleanExits`, for any set of requests, each asking for
anything the transport has, and any failures, hangs, panics and restarts.

`StoppingOnlyDrains` needs one fact more, that a process which is stopping has closed its
listener (`Closed`); `DrainStep` is then about the calls that are left, of which every step
takes one. For `ProcessImplementsServing` a step of a request is taken apart into what it
makes of it: it goes on with one more effect, waits, or answers (`GoesOnAs`, `WaitsAs`,
`TellsAs`). `GoesOnServes` and `TellsServes` turn these into steps of `Serving`, the second
from the invariant of the state after the answer; `ExitServes`, `AcceptServes` and
`ForgetServes` do the same for the ends of a process and of its requests.

**Only model-checked.** Every safety property and every refinement of the passing runs is
proved. Liveness (`BatchCompletes`, `HttpStops`, `GrpcStops`) is left to TLC: it needs
ENABLED, which the provers do not have; the theorems prove what of it is safety. So are
the values of definitions by induction over data, of which the proofs use the types and
the steps.

## 5. Not modelled

* `TotalStock` (the sum of one row), `formatRupiah` and the dates of a cell: pure
  conversions of one value, without a state or an order.
* Floating-point error in margins, and the cosine itself: scores are given.
* The filters of `Page`, its ABC column and its latest hpp; paging and search of
  the product table; the data of `LegacyProducts`, `BatchCodes`, `FilterOptions`,
  `ManageData` and `IndexMeta`, whose calls are in `UseCases`: each is one query
  whose answer no later step uses.
* The copying of fields between `dto`, JSON and protobuf. A query that cannot be
  read as a number is as good as absent, so a garbled `kompetitor` asks for every
  store (`K/presentation/http/controllers/kompetitor_controller.go:305-311`).
* The worker and the CLI, which do nothing yet; helper packages nothing imports.
* Keep-alive connections and streams at a stop: net/http and grpc-go are modelled
  by what `Run` relies on.
* What happens in Laravel: parsing of uploads, the schema, the warehouses. Its
  edits of fees are in `Margins`.

## 6. Plan

Done, in this order: `Ingest`, `Registry`, `Matching` with their proofs, `Dated`,
`Panel`, `Stats`; then `Scraping` with the refinement, `Matrix`, `Margins`,
`UseCases`, `Transports` and `Server`; then the proofs about repair, the readers, the
server, the matrix and the margins; then `Reading` and `Serving` with their refinements,
the theorems of `Matching` and `Matrix` for `MarginsSpec`, and what of the liveness
properties is safety. Left:

1. An abstract specification of the cells, one update at a time, that `Registry`
   implements for updates which nothing overlaps.
2. `Stats` as looks at the batches, as `Panel` is of `Reading`: the metrics take one
   look per period, the table up to five.
3. That `Matching` beside edits is one look at each cell.
4. The worker and the CLI, once they do something.
