------------------------------ MODULE UseCases ------------------------------
(***************************************************************************)
(* What each operation of the service asks of its repositories, in which   *)
(* order, and where it may refuse: the control of the use cases, without   *)
(* the data that the other modules have.  An operation is reached over     *)
(* HTTP or gRPC; each transport decodes what the client sent in its own    *)
(* way and turns the code of an error into a status of its own.            *)
(***************************************************************************)
EXTENDS Sequences, Naturals

\* An id as it is sent.  Only a path or a query can hold a garbled one.
Absent  == "absent"
Given   == "given"
Garbled == "garbled"

\* Codes of an AppError, and "OK".
OK           == "OK"
NotFound     == "NOT_FOUND"
InvalidInput == "INVALID_INPUT"
Internal     == "INTERNAL"
Unavailable  == "UNAVAILABLE"
Codes == {OK, NotFound, InvalidInput, Internal, Unavailable}

\* The calls that write, and those that only read.
Writes == {"Create", "Update", "Delete", "SyncCell", "FirstOrCreateBatch",
           "ReplaceProducts", "ComputeSummaries", "MarkStatus",
           "ReplaceProductMappings"}

Reading == {"FindByID", "ListAll", "ListScraped", "ListAllByPriority", "CodeTaken",
            "HasScrapingData", "MappingCounts", "ListActive", "List", "Exists",
            "UsedAxes", "MatrixCounts", "UniversalCounts", "UniversalRows",
            "PairRows", "KompetitorIDsExist", "BatchesByKompetitor", "Summaries",
            "Products", "ProductsByNames", "FilterProducts", "CompletedBatchCodes",
            "LatestCompletedBatch", "BatchRowsUpTo", "ProductsForPairs",
            "ProductsForBatch", "ProductNamesForBatches", "ItemIDsByProductIDs",
            "TotalStockByItemIDs", "Mappable", "FilterOptions", "Page",
            "ShopeeFee", "FreeOngkirFee"}

NoCall == "none"
Never  == "never"

-----------------------------------------------------------------------------
(* The steps of a use case.                                                *)

\* An error of the call ends the use case, its answer never does.
Must(call) == [call |-> call, refusal |-> Never, skip |-> FALSE, swallow |-> FALSE]

\* The answer of the call may be the reason to refuse.
Check(call, code) == [Must(call) EXCEPT !.refusal = code]

\* What was read so far decides whether the call is made.
May(call) == [Must(call) EXCEPT !.skip = TRUE]

\* An error of the call is logged and ends the use case with "OK".
Aside(call)    == [Must(call) EXCEPT !.swallow = TRUE]
MayAside(call) == [May(call) EXCEPT !.swallow = TRUE]

\* The input itself is refused.
Refuse == <<[Must(NoCall) EXCEPT !.refusal = InvalidInput]>>

Wanted(list, call) == IF list = "some" THEN Must(call) ELSE May(call)

-----------------------------------------------------------------------------
(* The use cases.                                                          *)

ManageData == <<Must("ListAll"), Must("MappingCounts")>>

IndexMeta == <<Must("ListScraped"), Must("ListAllByPriority"),
               Must("ListActive"), Must("List")>>

\* A code that fits the column is looked up before the next one is measured.
ValidateKompetitor(in) ==
    IF in.body = "refused" \/ in.codes = <<>> THEN Refuse
    ELSE [n \in 1..Len(in.codes) |->
             IF in.codes[n] = "fits" THEN Check("CodeTaken", InvalidInput)
                                     ELSE Refuse[1]]

CreateKompetitor(in) == ValidateKompetitor(in) \o <<Must("Create")>>

UpdateKompetitor(in) ==
    <<Check("FindByID", NotFound)>> \o ValidateKompetitor(in) \o <<Must("Update")>>

DeleteKompetitor == <<Check("FindByID", NotFound),
                      Check("HasScrapingData", InvalidInput), Must("Delete")>>

\* An axis with nothing on it is not listed.
MappingMatrix(in) == <<Must("UsedAxes"), Wanted(in.list, "ListActive"),
                       May("List"), Must("MatrixCounts"), Must("UniversalCounts")>>

AssertCellExists(in) ==
    IF in.id = Absent THEN Refuse
    ELSE IF in.kategori = Absent THEN <<Check("Exists", InvalidInput)>>
    ELSE <<Check("Exists", InvalidInput), Check("Exists", InvalidInput)>>

\* RawPair reads the universal cell too.
MappingCell(in) ==
    AssertCellExists(in) \o
    (IF in.kategori = Absent THEN <<Must("UniversalRows")>>
                             ELSE <<Must("UniversalRows"), Must("PairRows")>>)

MappingCellUpdate(in) ==
    AssertCellExists(in) \o
    (IF in.list = "empty" THEN <<>> ELSE <<Check("KompetitorIDsExist", InvalidInput)>>)
    \o <<Must("SyncCell")>>

Stats(in) ==
    IF in.body = "refused" THEN Refuse
    ELSE <<Must("BatchesByKompetitor"), May("Summaries"), May("Summaries")>>

Products(in) ==
    IF in.body = "refused" THEN Refuse
    ELSE <<Must("BatchesByKompetitor"), Must("Products"), May("ProductsByNames"),
           May("ItemIDsByProductIDs"), May("TotalStockByItemIDs")>>

LegacyProducts == <<Must("FilterProducts")>>
BatchCodes     == <<Must("CompletedBatchCodes")>>
FilterOptions  == <<Must("FilterOptions")>>

\* The statements of Panel and Matching, then the fees of the rows (Margins).
OurProducts ==
    <<Must("Page"), Must("LatestCompletedBatch"), May("BatchRowsUpTo"),
      May("UniversalRows"), May("PairRows"), May("ProductsForPairs"),
      May("ProductNamesForBatches"), May("Mappable"),
      May("ShopeeFee"), May("FreeOngkirFee")>>

\* The pass after MarkStatus that stores matches must not fail the import.
MapBatch ==
    <<Aside("ProductsForBatch"), MayAside("Mappable"),
      MayAside("ProductNamesForBatches"), MayAside("Mappable"),
      MayAside("UniversalRows"), MayAside("PairRows"),
      MayAside("ReplaceProductMappings")>>

\* MUTANT: the batch is created before its rows are looked at.
ImportBatchFirst(in) ==
    <<Check("FindByID", NotFound), Must("FirstOrCreateBatch")>> \o
    (IF in.body = "refused" THEN Refuse
     ELSE <<Must("ReplaceProducts"), Must("ComputeSummaries"),
            Must("MarkStatus")>> \o MapBatch)

ImportProducts(in) ==
    <<Check("FindByID", NotFound)>> \o
    (IF in.body = "refused" THEN Refuse
     ELSE <<Must("FirstOrCreateBatch"), Must("ReplaceProducts"),
            Must("ComputeSummaries"), Must("MarkStatus")>> \o MapBatch)

-----------------------------------------------------------------------------
(* What a client sends.                                                    *)

\* Of a store: its codes, each "fits" or "long".
CodeLists == {<<>>, <<"fits">>, <<"fits", "long">>, <<"fits", "fits">>}

Plain == [id |-> Absent, kategori |-> Absent, list |-> "empty",
          codes |-> <<>>, body |-> "good"]

Bodies == {"good", "refused", "garbled"}
Lists  == {"empty", "some"}

\* A message whose id, kategori, list, codes and body are in the sets.
Message(ids, kategories, lists, codes, bodies) ==
    [id : ids, kategori : kategories, list : lists, codes : codes, body : bodies]

\* The fields of each message, and of each body or query.
Sent(ids, bodies) ==
    [IndexMeta         |-> {Plain},
     ManageData        |-> {Plain},
     CreateKompetitor  |-> Message(ids, {Absent}, {"empty"}, CodeLists, bodies),
     UpdateKompetitor  |-> Message(ids, {Absent}, {"empty"}, CodeLists, bodies),
     DeleteKompetitor  |-> Message(ids, {Absent}, {"empty"}, {<<>>}, {"good"}),
     MappingMatrix     |-> Message({Absent}, {Absent}, Lists, {<<>>}, {"good"}),
     MappingCell       |-> Message(ids, ids, {"empty"}, {<<>>}, {"good"}),
     MappingCellUpdate |-> Message(ids \ {Garbled}, ids \ {Garbled}, Lists, {<<>>},
                                   bodies \ {"refused"}),
     Stats             |-> Message({Absent}, {Absent}, {"empty"}, {<<>>}, bodies \ {"garbled"}),
     Products          |-> Message({Absent}, {Absent}, {"empty"}, {<<>>}, bodies \ {"garbled"}),
     LegacyProducts    |-> {Plain},
     BatchCodes        |-> {Plain},
     FilterOptions     |-> {Plain},
     OurProducts       |-> {Plain},
     ImportProducts    |-> Message({Absent}, {Absent}, {"empty"}, {<<>>}, bodies)]

\* The methods of the service, by the group of the handlers that call them.
Registry(op, in) ==
    CASE op = "IndexMeta"        -> IndexMeta
      [] op = "ManageData"       -> ManageData
      [] op = "CreateKompetitor" -> CreateKompetitor(in)
      [] op = "UpdateKompetitor" -> UpdateKompetitor(in)
      [] op = "DeleteKompetitor" -> DeleteKompetitor

MappingPanel(op, in) ==
    CASE op = "MappingMatrix"     -> MappingMatrix(in)
      [] op = "MappingCell"       -> MappingCell(in)
      [] op = "MappingCellUpdate" -> MappingCellUpdate(in)

RisetProduk(op, in) ==
    CASE op = "Stats"          -> Stats(in)
      [] op = "Products"       -> Products(in)
      [] op = "LegacyProducts" -> LegacyProducts
      [] op = "BatchCodes"     -> BatchCodes

OurProduct(op, in) ==
    CASE op = "FilterOptions" -> FilterOptions
      [] op = "OurProducts"   -> OurProducts

InRegistry     == {"IndexMeta", "ManageData", "CreateKompetitor",
                   "UpdateKompetitor", "DeleteKompetitor"}
InMappingPanel == {"MappingMatrix", "MappingCell", "MappingCellUpdate"}
InRisetProduk  == {"Stats", "Products", "LegacyProducts", "BatchCodes"}
InOurProduct   == {"FilterOptions", "OurProducts"}
Operations     == InRegistry \cup InMappingPanel \cup InRisetProduk
                    \cup InOurProduct \cup {"ImportProducts"}

Handled(op, in) ==
    CASE op \in InRegistry     -> Registry(op, in)
      [] op \in InMappingPanel -> MappingPanel(op, in)
      [] op \in InRisetProduk  -> RisetProduk(op, in)
      [] op \in InOurProduct   -> OurProduct(op, in)
      [] op = "ImportProducts" -> ImportProducts(in)
=============================================================================
