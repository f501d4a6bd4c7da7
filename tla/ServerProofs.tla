----------------------------- MODULE ServerProofs -----------------------------
(***************************************************************************)
(* Theorems about Server, for any requests in flight, asking for anything. *)
(*                                                                         *)
(* A request is followed by what is left of its use case.  Plan says what  *)
(* every such rest has to be for the properties to hold, whatever the      *)
(* calls answer: no refusal is behind a write, nothing that was promised   *)
(* is left out, and without a database the first call cannot be passed.    *)
(* Every handler starts with such a plan (AcceptedPlan), and every step of *)
(* a request leaves one (PlanRest).                                        *)
(*                                                                         *)
(* With the invariant of the state after an answer, an answer is one that  *)
(* Serving allows; that a stopping process has closed its listener         *)
(* (Closed) makes every request one it allows to be asked.                 *)
(***************************************************************************)
EXTENDS Server, SequenceTheorems, TLAPS

-----------------------------------------------------------------------------
Refusals == {NotFound, InvalidInput, Internal, Never}
Steps    == [call : Writes \cup Reading \cup {NoCall}, refusal : Refusals,
             skip : BOOLEAN, swallow : BOOLEAN]

\* What the rest of a use case will have written before its n-th step.
Ahead(todo, n) == {todo[m].call : m \in {k \in 1..(n - 1) : ~todo[k].skip}}

\* A refusal comes before every write.
RefusesFirst(todo, wrote) ==
    \A n \in 1..Len(todo) : todo[n].refusal # Never =>
        /\ wrote = {}
        /\ todo[n].call \notin Writes
        /\ \A m \in 1..n : todo[m].call \notin Writes

\* Whatever is promised is written before the use case can end well, if it can.
Delivers(op, todo, wrote) ==
    /\ \A n \in 1..Len(todo) : todo[n].swallow =>
          Promised(op) \subseteq wrote \cup Ahead(todo, n)
    /\ \/ \E n \in 1..Len(todo) : todo[n].call = NoCall
       \/ Promised(op) \subseteq wrote \cup Ahead(todo, Len(todo) + 1)

\* The first step needs an answer of the database, or refuses.
Asks1(todo) == todo # <<>> /\ ~todo[1].skip /\ ~todo[1].swallow

Plan(op, todo, wrote) ==
    /\ todo \in Seq(Steps)
    /\ RefusesFirst(todo, wrote)
    /\ Delivers(op, todo, wrote)

-----------------------------------------------------------------------------
(* Steps and their lists.                                                  *)

\* A step that only asks, and whose error ends the use case.
Questions == {s \in Steps : s.call \notin Writes /\ ~s.swallow}
Reads     == {s \in Questions : ~s.skip}

\* A step that may refuse is a read.
LEMMA CheckStep ==
    ASSUME NEW call \in Reading \cup {NoCall}, NEW code \in Refusals
    PROVE  Check(call, code) \in Reads /\ Check(call, code).call = call
<1>1. Check(call, code) \in Steps
  BY DEF Check, Must, Steps, Refusals
<1>2. /\ Check(call, code).call = call
      /\ ~Check(call, code).skip /\ ~Check(call, code).swallow
  BY DEF Check, Must
<1>3. call \notin Writes
  BY DEF Reading, Writes, NoCall
<1> QED
  BY <1>1, <1>2, <1>3 DEF Reads, Questions

\* The other kinds of step never refuse; they differ in what an error does, and in
\* whether they may be left out.
LEMMA MustStep ==
    ASSUME NEW call \in Reading \cup Writes
    PROVE  /\ Must(call) \in Steps
           /\ Must(call).call = call /\ Must(call).refusal = Never
           /\ ~Must(call).skip /\ ~Must(call).swallow
BY DEF Must, Steps, Refusals

\* Such a call may be left out.
LEMMA MayStep ==
    ASSUME NEW call \in Reading \cup Writes
    PROVE  /\ May(call) \in Steps
           /\ May(call).call = call /\ May(call).refusal = Never
           /\ May(call).skip /\ ~May(call).swallow
BY DEF May, Must, Steps, Refusals

\* An error of such a call is logged.
LEMMA AsideStep ==
    ASSUME NEW call \in Reading \cup Writes
    PROVE  /\ Aside(call) \in Steps
           /\ Aside(call).call = call /\ Aside(call).refusal = Never
           /\ ~Aside(call).skip /\ Aside(call).swallow
BY DEF Aside, Must, Steps, Refusals

\* Both.
LEMMA MayAsideStep ==
    ASSUME NEW call \in Reading \cup Writes
    PROVE  /\ MayAside(call) \in Steps
           /\ MayAside(call).call = call /\ MayAside(call).refusal = Never
           /\ MayAside(call).skip /\ MayAside(call).swallow
BY DEF MayAside, May, Must, Steps, Refusals

\* A call that does not write is a question.
LEMMA Asking ==
    ASSUME NEW call \in Reading
    PROVE  Must(call) \in Reads /\ May(call) \in Questions
<1>1. call \notin Writes
  BY DEF Reading, Writes
<1> QED
  BY <1>1, MustStep, MayStep DEF Reads, Questions

\* Refusing the input is a list of one step, which is not a call.
LEMMA RefuseType ==
    Refuse \in Seq(Reads) /\ Len(Refuse) = 1 /\ Refuse[1].call = NoCall
<1>1. Refuse = <<Check(NoCall, InvalidInput)>>
  BY DEF Refuse, Check
<1>2. InvalidInput \in Refusals
  BY DEF Refusals
<1> QED
  BY <1>1, <1>2, CheckStep

\* Lists of questions can be joined; the first step is that of the first list.
LEMMA Joined ==
    ASSUME NEW S, NEW s \in Seq(S), NEW t \in Seq(S)
    PROVE  /\ s \o t \in Seq(S) /\ Len(s \o t) = Len(s) + Len(t)
           /\ Len(s) # 0 => (s \o t)[1] = s[1]
           /\ \A n \in 1..Len(s) : (s \o t)[n] = s[n]
OBVIOUS

\* What the writing operations promise is a write, whatever the operation.
LEMMA PromisedWrites == \A op : Promised(op) \subseteq Writes
BY DEF Promised, Writes

\* A list of questions is a plan for who was promised nothing, or refuses.
LEMMA OnlyQuestions ==
    ASSUME NEW s \in Seq(Questions), NEW op,
           Promised(op) = {} \/ \E n \in 1..Len(s) : s[n].call = NoCall
    PROVE  Plan(op, s, {})
<1>1. s \in Seq(Steps) /\ \A n \in 1..Len(s) : s[n] \in Questions
  BY DEF Questions
<1> QED
  BY <1>1 DEF Plan, RefusesFirst, Delivers, Questions

\* A list that begins with a read can be passed only with an answer to it.
LEMMA BeginsAsking ==
    ASSUME NEW s \in Seq(Steps), Len(s) # 0, s[1] \in Reads
    PROVE  Asks1(s)
BY DEF Asks1, Reads, Questions

\* A list of reads and then one write.
LEMMA ReadsThenWrite ==
    ASSUME NEW s \in Seq(Reads), Len(s) # 0, NEW call \in Writes, NEW op,
           Promised(op) \subseteq {call}, NEW t, t = s \o <<Must(call)>>
    PROVE  Plan(op, t, {}) /\ Asks1(t)
<1>1. /\ Must(call).call = call /\ Must(call).refusal = Never
      /\ ~Must(call).skip /\ ~Must(call).swallow
  BY MustStep
<1>2. Must(call) \in Steps
  BY MustStep
<1>3. \A n \in 1..Len(s) : /\ s[n] \in Steps /\ s[n].call \notin Writes
                           /\ ~s[n].swallow /\ ~s[n].skip
  BY DEF Reads, Questions
<1>4. /\ Len(t) = Len(s) + 1 /\ t[Len(s) + 1] = Must(call)
      /\ \A n \in 1..Len(s) : t[n] = s[n]
  OBVIOUS
<1>5. t \in Seq(Steps)
  BY <1>2 DEF Reads, Questions
<1>6. RefusesFirst(t, {})
  BY <1>1, <1>3, <1>4 DEF RefusesFirst
<1>7. Delivers(op, t, {})
  <2>1. call \in Ahead(t, Len(t) + 1)
    BY <1>1, <1>4 DEF Ahead
  <2>2. \A n \in 1..Len(t) : ~t[n].swallow
    BY <1>1, <1>3, <1>4
  <2> QED
    BY <2>1, <2>2 DEF Delivers
<1>8. Asks1(t)
  BY <1>3, <1>4, <1>5 DEF Asks1
<1> QED
  BY <1>5, <1>6, <1>7, <1>8 DEF Plan

\* A list of reads that refuses at its end is a plan for every operation, and so
\* is Refuse alone.
LEMMA RefusePlan ==
    ASSUME NEW op
    PROVE  Plan(op, Refuse, {}) /\ Asks1(Refuse)
<1>1. Refuse \in Seq(Questions) /\ Refuse \in Seq(Steps) /\ Refuse[1] \in Reads
  BY RefuseType DEF Reads, Questions
<1> QED
  BY <1>1, RefuseType, OnlyQuestions, BeginsAsking

-----------------------------------------------------------------------------
(* The plans of the handlers.                                              *)

Starts(op, todo) == Plan(op, todo, {}) /\ Asks1(todo)

\* Who is promised nothing may be asked anything, as long as a read is first.
LEMMA ReadOnly ==
    ASSUME NEW s \in Seq(Questions), Len(s) # 0, s[1] \in Reads, NEW op,
           Promised(op) = {}
    PROVE  Starts(op, s)
<1>1. s \in Seq(Steps)
  BY DEF Questions
<1> QED
  BY <1>1, OnlyQuestions, BeginsAsking DEF Starts

\* The calls the use cases make are those of the two lists.
LEMMA RegistryReads ==
    /\ {"FindByID", "ListAll", "ListScraped", "ListAllByPriority", "CodeTaken",
        "HasScrapingData", "MappingCounts", "ListActive", "List"} \subseteq Reading
    /\ {"Create", "Update", "Delete"} \subseteq Writes
BY DEF Reading, Writes

\* The lists of stores and of counts only read.
LEMMA ManageDataPlan == Starts("ManageData", ManageData)
<1>1. Promised("ManageData") = {}
  BY DEF Promised
<1>2. /\ Must("ListAll") \in Reads /\ Must("MappingCounts") \in Reads
  BY RegistryReads, Asking
<1>3. ManageData \in Seq(Questions) /\ Len(ManageData) # 0 /\ ManageData[1] \in Reads
  BY <1>2 DEF ManageData, Reads
<1> QED
  BY <1>1, <1>3, ReadOnly

\* The filters of the page only read.
LEMMA IndexMetaPlan == Starts("IndexMeta", IndexMeta)
<1>1. Promised("IndexMeta") = {}
  BY DEF Promised
<1>2. /\ Must("ListScraped") \in Reads /\ Must("ListAllByPriority") \in Reads
      /\ Must("ListActive") \in Reads /\ Must("List") \in Reads
  BY RegistryReads, Asking
<1>3. IndexMeta \in Seq(Questions) /\ Len(IndexMeta) # 0 /\ IndexMeta[1] \in Reads
  BY <1>2 DEF IndexMeta, Reads
<1> QED
  BY <1>1, <1>3, ReadOnly

\* The check of the codes only reads, and is never empty.
LEMMA ValidateReads ==
    ASSUME NEW in, in.codes \in Seq({"fits", "long"})
    PROVE  ValidateKompetitor(in) \in Seq(Reads) /\ Len(ValidateKompetitor(in)) # 0
<1>1. CASE in.body = "refused" \/ in.codes = <<>>
  <2>1. ValidateKompetitor(in) = Refuse
    BY <1>1 DEF ValidateKompetitor
  <2> QED
    BY <2>1, RefuseType
<1>2. CASE ~(in.body = "refused" \/ in.codes = <<>>)
  <2>1. Check("CodeTaken", InvalidInput) \in Reads
    BY RegistryReads, CheckStep DEF Refusals
  <2>2. Refuse[1] \in Reads
    BY RefuseType
  <2>3. Len(in.codes) \in Nat \ {0}
    BY <1>2
  <2>4. ValidateKompetitor(in) = [n \in 1..Len(in.codes) |->
             IF in.codes[n] = "fits" THEN Check("CodeTaken", InvalidInput)
                                     ELSE Refuse[1]]
    BY <1>2 DEF ValidateKompetitor
  <2>5. ValidateKompetitor(in) \in [1..Len(in.codes) -> Reads]
    BY <2>1, <2>2, <2>4
  <2> QED
    BY <2>3, <2>5
<1> QED
  BY <1>1, <1>2

\* A store is created after its codes are checked.
LEMMA CreatePlan ==
    ASSUME NEW in, in.codes \in Seq({"fits", "long"})
    PROVE  Starts("CreateKompetitor", CreateKompetitor(in))
<1>1. Promised("CreateKompetitor") \subseteq {"Create"}
  BY DEF Promised
<1>2. CreateKompetitor(in) = ValidateKompetitor(in) \o <<Must("Create")>>
  BY DEF CreateKompetitor
<1>3. "Create" \in Writes
  BY RegistryReads
<1> QED
  BY <1>1, <1>2, <1>3, ValidateReads, ReadsThenWrite DEF Starts

\* A store is updated after it is found and its codes are checked.
LEMMA UpdatePlan ==
    ASSUME NEW in, in.codes \in Seq({"fits", "long"})
    PROVE  Starts("UpdateKompetitor", UpdateKompetitor(in))
<1>1. Promised("UpdateKompetitor") \subseteq {"Update"}
  BY DEF Promised
<1>2. PICK s : s = <<Check("FindByID", NotFound)>> \o ValidateKompetitor(in)
  OBVIOUS
<1>3. UpdateKompetitor(in) = s \o <<Must("Update")>>
  BY <1>2 DEF UpdateKompetitor
<1>4. Check("FindByID", NotFound) \in Reads
  BY RegistryReads, CheckStep DEF Refusals
<1>5. <<Check("FindByID", NotFound)>> \in Seq(Reads)
  BY <1>4
<1>6. s \in Seq(Reads) /\ Len(s) # 0
  BY <1>2, <1>5, ValidateReads
<1>7. "Update" \in Writes
  BY RegistryReads
<1> QED
  BY <1>1, <1>3, <1>6, <1>7, ReadsThenWrite DEF Starts

\* A store is deleted after it is found and found to have no batch.
LEMMA DeletePlan == Starts("DeleteKompetitor", DeleteKompetitor)
<1>1. Promised("DeleteKompetitor") \subseteq {"Delete"}
  BY DEF Promised
<1>2. PICK s : s = <<Check("FindByID", NotFound),
                     Check("HasScrapingData", InvalidInput)>>
  OBVIOUS
<1>3. /\ Check("FindByID", NotFound) \in Reads
      /\ Check("HasScrapingData", InvalidInput) \in Reads
  BY RegistryReads, CheckStep DEF Refusals
<1>4. s \in Seq(Reads) /\ Len(s) # 0
  BY <1>2, <1>3
<1>5. DeleteKompetitor = s \o <<Must("Delete")>>
  BY <1>2 DEF DeleteKompetitor
<1>6. "Delete" \in Writes
  BY RegistryReads
<1> QED
  BY <1>1, <1>4, <1>5, <1>6, ReadsThenWrite DEF Starts

\* The calls of the mapping panel.
LEMMA MappingReads ==
    /\ {"UsedAxes", "ListActive", "List", "MatrixCounts", "UniversalCounts", "Exists",
        "UniversalRows", "PairRows", "KompetitorIDsExist"} \subseteq Reading
    /\ "SyncCell" \in Writes
BY DEF Reading, Writes

\* The matrix only reads, an axis with nothing on it less.
LEMMA MappingMatrixPlan ==
    ASSUME NEW in
    PROVE  Starts("MappingMatrix", MappingMatrix(in))
<1>1. Promised("MappingMatrix") = {}
  BY DEF Promised
<1>2. /\ Must("UsedAxes") \in Reads /\ Must("MatrixCounts") \in Reads
      /\ Must("UniversalCounts") \in Reads
      /\ Must("ListActive") \in Questions /\ May("ListActive") \in Questions
      /\ May("List") \in Questions
  BY MappingReads, Asking DEF Reads
<1>3. Wanted(in.list, "ListActive") \in Questions
  BY <1>2 DEF Wanted
<1>4. /\ MappingMatrix(in) \in Seq(Questions) /\ Len(MappingMatrix(in)) # 0
      /\ MappingMatrix(in)[1] \in Reads
  BY <1>2, <1>3 DEF MappingMatrix, Reads
<1> QED
  BY <1>1, <1>4, ReadOnly

\* The check of a cell's axes only reads, and is never empty.
LEMMA AssertReads ==
    ASSUME NEW in
    PROVE  AssertCellExists(in) \in Seq(Reads) /\ Len(AssertCellExists(in)) # 0
<1>1. Check("Exists", InvalidInput) \in Reads
  BY MappingReads, CheckStep DEF Refusals
<1>2. PICK one : one = <<Check("Exists", InvalidInput)>>
  OBVIOUS
<1>3. PICK two : two = <<Check("Exists", InvalidInput), Check("Exists", InvalidInput)>>
  OBVIOUS
<1>4. /\ one \in Seq(Reads) /\ Len(one) # 0
      /\ two \in Seq(Reads) /\ Len(two) # 0
  BY <1>1, <1>2, <1>3
<1>5. Refuse \in Seq(Reads) /\ Len(Refuse) # 0
  BY RefuseType
<1>6. AssertCellExists(in) \in {Refuse, one, two}
  BY <1>2, <1>3 DEF AssertCellExists
<1> QED
  BY <1>4, <1>5, <1>6

\* A cell is read after its axes are checked.
LEMMA MappingCellPlan ==
    ASSUME NEW in
    PROVE  Starts("MappingCell", MappingCell(in))
<1>1. Promised("MappingCell") = {}
  BY DEF Promised
<1>2. Must("UniversalRows") \in Reads /\ Must("PairRows") \in Reads
  BY MappingReads, Asking
<1>3. PICK rows : rows = IF in.kategori = Absent THEN <<Must("UniversalRows")>>
                         ELSE <<Must("UniversalRows"), Must("PairRows")>>
  OBVIOUS
<1>4. rows \in Seq(Reads)
  BY <1>2, <1>3
<1>5. MappingCell(in) = AssertCellExists(in) \o rows
  BY <1>3 DEF MappingCell
<1>6. MappingCell(in) \in Seq(Reads) /\ Len(MappingCell(in)) # 0
  BY <1>4, <1>5, AssertReads
<1>7. MappingCell(in) \in Seq(Questions) /\ MappingCell(in)[1] \in Reads
  BY <1>6 DEF Reads
<1> QED
  BY <1>1, <1>6, <1>7, ReadOnly

\* A cell is replaced after its axes and stores are checked.
LEMMA MappingCellUpdatePlan ==
    ASSUME NEW in
    PROVE  Starts("MappingCellUpdate", MappingCellUpdate(in))
<1>1. Promised("MappingCellUpdate") \subseteq {"SyncCell"}
  BY DEF Promised
<1>2. Check("KompetitorIDsExist", InvalidInput) \in Reads
  BY MappingReads, CheckStep DEF Refusals
<1>3. PICK ids : ids = IF in.list = "empty" THEN <<>>
                       ELSE <<Check("KompetitorIDsExist", InvalidInput)>>
  OBVIOUS
<1>4. ids \in Seq(Reads)
  BY <1>2, <1>3
<1>5. PICK s : s = AssertCellExists(in) \o ids
  OBVIOUS
<1>6. s \in Seq(Reads) /\ Len(s) # 0
  BY <1>4, <1>5, AssertReads
<1>7. MappingCellUpdate(in) = s \o <<Must("SyncCell")>>
  BY <1>3, <1>5 DEF MappingCellUpdate
<1> QED
  BY <1>1, <1>6, <1>7, MappingReads, ReadsThenWrite DEF Starts

\* The calls of the Riset Produk panel.
LEMMA RisetReads ==
    {"BatchesByKompetitor", "Summaries", "Products", "ProductsByNames",
     "ItemIDsByProductIDs", "TotalStockByItemIDs", "FilterProducts",
     "CompletedBatchCodes"} \subseteq Reading
BY DEF Reading

\* The statistics refuse their input or only read.
LEMMA StatsPlan ==
    ASSUME NEW in
    PROVE  Starts("Stats", Stats(in))
<1>1. Promised("Stats") = {}
  BY DEF Promised
<1>2. Must("BatchesByKompetitor") \in Reads /\ May("Summaries") \in Questions
  BY RisetReads, Asking
<1>3. CASE in.body = "refused"
  BY <1>3, RefusePlan DEF Stats, Starts
<1>4. CASE in.body # "refused"
  <2>1. Stats(in) = <<Must("BatchesByKompetitor"), May("Summaries"), May("Summaries")>>
    BY <1>4 DEF Stats
  <2>2. Stats(in) \in Seq(Questions) /\ Len(Stats(in)) # 0 /\ Stats(in)[1] \in Reads
    BY <2>1, <1>2 DEF Reads
  <2> QED
    BY <1>1, <2>2, ReadOnly
<1> QED
  BY <1>3, <1>4

\* The product lists refuse their input or only read.
LEMMA ProductsPlan ==
    ASSUME NEW in
    PROVE  Starts("Products", Products(in))
<1>1. Promised("Products") = {}
  BY DEF Promised
<1>2. /\ Must("BatchesByKompetitor") \in Reads /\ Must("Products") \in Reads
      /\ May("ProductsByNames") \in Questions /\ May("ItemIDsByProductIDs") \in Questions
      /\ May("TotalStockByItemIDs") \in Questions
  BY RisetReads, Asking
<1>3. CASE in.body = "refused"
  BY <1>3, RefusePlan DEF Products, Starts
<1>4. CASE in.body # "refused"
  <2>1. Products(in) = <<Must("BatchesByKompetitor"), Must("Products"),
                         May("ProductsByNames"), May("ItemIDsByProductIDs"),
                         May("TotalStockByItemIDs")>>
    BY <1>4 DEF Products
  <2>2. /\ Products(in) \in Seq(Questions) /\ Len(Products(in)) # 0
        /\ Products(in)[1] \in Reads
    BY <2>1, <1>2 DEF Reads
  <2> QED
    BY <1>1, <2>2, ReadOnly
<1> QED
  BY <1>3, <1>4

\* A use case that is one read.
LEMMA OneRead ==
    ASSUME NEW call \in Reading, NEW op, Promised(op) = {}
    PROVE  Starts(op, <<Must(call)>>)
<1>1. Must(call) \in Reads
  BY Asking
<1>2. <<Must(call)>> \in Seq(Questions)
  BY <1>1 DEF Reads
<1>3. Len(<<Must(call)>>) # 0 /\ <<Must(call)>>[1] \in Reads
  BY <1>1
<1> QED
  BY <1>2, <1>3, ReadOnly

\* Three use cases that are one read.
LEMMA OneReadPlans ==
    /\ Starts("LegacyProducts", LegacyProducts) /\ Starts("BatchCodes", BatchCodes)
    /\ Starts("FilterOptions", FilterOptions)
<1>1. /\ Promised("LegacyProducts") = {} /\ Promised("BatchCodes") = {}
      /\ Promised("FilterOptions") = {}
  BY DEF Promised
<1>2. "FilterOptions" \in Reading
  BY DEF Reading
<1> QED
  BY <1>1, <1>2, RisetReads, OneRead DEF LegacyProducts, BatchCodes, FilterOptions

\* The calls of the Our Product panel.
LEMMA PanelReads ==
    {"Page", "LatestCompletedBatch", "BatchRowsUpTo", "UniversalRows", "PairRows",
     "ProductsForPairs", "ProductNamesForBatches", "Mappable", "ShopeeFee",
     "FreeOngkirFee"} \subseteq Reading
BY DEF Reading

\* The Our Product panel only reads.
LEMMA OurProductsPlan == Starts("OurProducts", OurProducts)
<1>1. Promised("OurProducts") = {}
  BY DEF Promised
<1>2. /\ Must("Page") \in Reads /\ Must("LatestCompletedBatch") \in Reads
      /\ May("BatchRowsUpTo") \in Questions /\ May("UniversalRows") \in Questions
      /\ May("PairRows") \in Questions /\ May("ProductsForPairs") \in Questions
      /\ May("ProductNamesForBatches") \in Questions /\ May("Mappable") \in Questions
      /\ May("ShopeeFee") \in Questions /\ May("FreeOngkirFee") \in Questions
  BY PanelReads, Asking
<1>3. /\ OurProducts \in Seq(Questions) /\ Len(OurProducts) # 0
      /\ OurProducts[1] \in Reads
  BY <1>2 DEF OurProducts, Reads
<1> QED
  BY <1>1, <1>3, ReadOnly

\* The calls of an import.
LEMMA IngestCalls ==
    /\ {"FindByID", "ProductsForBatch", "Mappable", "ProductNamesForBatches",
        "UniversalRows", "PairRows"} \subseteq Reading
    /\ {"FirstOrCreateBatch", "ReplaceProducts", "ComputeSummaries", "MarkStatus",
        "ReplaceProductMappings"} \subseteq Writes
BY DEF Reading, Writes

\* The import asks for the store, writes four times, and then cannot fail.
LEMMA AcceptedImport ==
    ASSUME NEW a, a = <<Check("FindByID", NotFound)>>,
           NEW b, b = <<Must("FirstOrCreateBatch"), Must("ReplaceProducts"),
                        Must("ComputeSummaries"), Must("MarkStatus")>>,
           NEW c, c = <<Aside("ProductsForBatch"), MayAside("Mappable"),
                        MayAside("ProductNamesForBatches"), MayAside("Mappable"),
                        MayAside("UniversalRows"), MayAside("PairRows"),
                        MayAside("ReplaceProductMappings")>>,
           NEW t, t = a \o (b \o c)
    PROVE  Starts("ImportProducts", t)
<1> DEFINE Any == {a[1]} \cup {b[n] : n \in 1..4} \cup {c[n] : n \in 1..7}
<1>1. Len(a) = 1 /\ a \in Seq(Any)
  OBVIOUS
<1>2. Len(b) = 4 /\ b \in Seq(Any)
  OBVIOUS
<1>3. Len(c) = 7 /\ c \in Seq(Any)
  OBVIOUS
<1>4. PICK u : u = b \o c
  OBVIOUS
<1>5. /\ u \in Seq(Any) /\ Len(u) = 11
      /\ \A n \in 1..4 : u[n] = b[n]
      /\ \A n \in 1..7 : u[n + 4] = c[n]
  <2> HIDE DEF Any
  <2> QED
    BY <1>2, <1>3, <1>4
<1>6. /\ t \in Seq(Any) /\ Len(t) = 12 /\ t[1] = a[1]
      /\ \A n \in 1..11 : t[n + 1] = u[n]
  <2> HIDE DEF Any
  <2> QED
    BY <1>1, <1>4, <1>5
<1>7. /\ Len(t) = 12
      /\ t[1] = Check("FindByID", NotFound)
      /\ t[2] = Must("FirstOrCreateBatch") /\ t[3] = Must("ReplaceProducts")
      /\ t[4] = Must("ComputeSummaries") /\ t[5] = Must("MarkStatus")
      /\ t[6] = Aside("ProductsForBatch") /\ t[7] = MayAside("Mappable")
      /\ t[8] = MayAside("ProductNamesForBatches") /\ t[9] = MayAside("Mappable")
      /\ t[10] = MayAside("UniversalRows") /\ t[11] = MayAside("PairRows")
      /\ t[12] = MayAside("ReplaceProductMappings")
  <2>1. /\ t[1] = a[1]
        /\ t[2] = b[1] /\ t[3] = b[2] /\ t[4] = b[3] /\ t[5] = b[4]
        /\ t[6] = c[1] /\ t[7] = c[2] /\ t[8] = c[3] /\ t[9] = c[4]
        /\ t[10] = c[5] /\ t[11] = c[6] /\ t[12] = c[7]
    BY <1>5, <1>6
  <2> QED
    BY <1>6, <2>1
<1>8. t[1] \in Reads /\ t[1].call = "FindByID"
  BY <1>7, IngestCalls, CheckStep DEF Refusals
<1>9. /\ t[2] \in Steps /\ t[2].call = "FirstOrCreateBatch" /\ t[2].refusal = Never
      /\ ~t[2].skip /\ ~t[2].swallow
  BY <1>7, IngestCalls, MustStep
<1>10. /\ t[3] \in Steps /\ t[3].call = "ReplaceProducts" /\ t[3].refusal = Never
      /\ ~t[3].skip /\ ~t[3].swallow
  BY <1>7, IngestCalls, MustStep
<1>11. /\ t[4] \in Steps /\ t[4].call = "ComputeSummaries" /\ t[4].refusal = Never
      /\ ~t[4].skip /\ ~t[4].swallow
  BY <1>7, IngestCalls, MustStep
<1>12. /\ t[5] \in Steps /\ t[5].call = "MarkStatus" /\ t[5].refusal = Never
      /\ ~t[5].skip /\ ~t[5].swallow
  BY <1>7, IngestCalls, MustStep
<1>13. t[6] \in Steps /\ t[6].refusal = Never
  BY <1>7, IngestCalls, AsideStep
<1>14. \A n \in 7..12 : t[n] \in Steps /\ t[n].refusal = Never
  BY <1>7, IngestCalls, MayAsideStep
<1>15. \A n \in 1..Len(t) : t[n] \in Steps
  BY <1>7, <1>8, <1>9, <1>10, <1>11, <1>12, <1>13, <1>14 DEF Reads, Questions
<1>16. t \in Seq(Steps)
  <2>1. \E S : t \in Seq(S)
    BY <1>6
  <2> QED
    BY <1>15, <2>1
<1>17. RefusesFirst(t, {})
  <2>1. ASSUME NEW n \in 1..Len(t), n # 1 PROVE t[n].refusal = Never
    BY <2>1, <1>7, <1>9, <1>10, <1>11, <1>12, <1>13, <1>14
  <2>2. t[1].call \notin Writes
    BY <1>8 DEF Reads, Questions
  <2> QED
    BY <2>1, <2>2 DEF RefusesFirst
<1>18. ASSUME NEW n \in 6..13 PROVE Promised("ImportProducts") \subseteq Ahead(t, n)
  <2>1. \A m \in 2..5 : t[m].call \in Ahead(t, n)
    BY <1>9, <1>10, <1>11, <1>12, <1>18 DEF Ahead
  <2> QED
    BY <2>1, <1>9, <1>10, <1>11, <1>12 DEF Promised
<1>19. Delivers("ImportProducts", t, {})
  <2>1. ASSUME NEW n \in 1..Len(t), t[n].swallow PROVE n \in 6..13
    BY <2>1, <1>7, <1>8, <1>9, <1>10, <1>11, <1>12 DEF Reads, Questions
  <2> QED
    BY <2>1, <1>7, <1>18 DEF Delivers
<1>20. Asks1(t)
  <2>1. Len(t) # 0 /\ t[1] \in Reads
    BY <1>7, <1>8
  <2> QED
    BY <2>1, <1>16, BeginsAsking
<1> QED
  BY <1>16, <1>17, <1>19, <1>20 DEF Starts, Plan

\* The import follows a plan, whether its rows are refused or not.
LEMMA ImportPlan ==
    ASSUME NEW in
    PROVE  Starts("ImportProducts", ImportProducts(in))
<1>1. CASE in.body = "refused"
  <2>1. PICK t : t = <<Check("FindByID", NotFound)>> \o Refuse
    OBVIOUS
  <2>2. Check("FindByID", NotFound) \in Reads
    BY IngestCalls, CheckStep DEF Refusals
  <2>3. t \in Seq(Reads) /\ Len(t) = 2 /\ t[1] \in Reads /\ t[2] = Refuse[1]
    <3>1. PICK a : a = <<Check("FindByID", NotFound)>>
      OBVIOUS
    <3>2. a \in Seq(Reads) /\ Len(a) = 1 /\ a[1] \in Reads
      BY <2>2, <3>1
    <3>3. t = a \o Refuse
      BY <2>1, <3>1
    <3>4. PICK u : u = Refuse
      OBVIOUS
    <3>5. u \in Seq(Reads) /\ Len(u) = 1
      BY <3>4, RefuseType
    <3>6. t = a \o u
      BY <3>3, <3>4
    <3>7. t \in Seq(Reads) /\ Len(t) = Len(a) + Len(u)
      BY <3>2, <3>5, <3>6, Joined
    <3>8. t[1] = a[1]
      BY <3>2, <3>5, <3>6
    <3>9. t[2] = u[1]
      <4>1. \A n \in 1..(Len(a) + Len(u)) :
               t[n] = IF n <= Len(a) THEN a[n] ELSE u[n - Len(a)]
        BY <3>2, <3>5, <3>6, ConcatProperties
      <4> QED
        BY <3>2, <3>5, <4>1
    <3> QED
      BY <3>2, <3>4, <3>5, <3>7, <3>8, <3>9
  <2>4. t \in Seq(Questions) /\ \E n \in 1..Len(t) : t[n].call = NoCall
    BY <2>3, RefuseType DEF Reads
  <2>5. t \in Seq(Steps)
    BY <2>4 DEF Questions
  <2>6. ImportProducts(in) = t
    BY <1>1, <2>1 DEF ImportProducts
  <2> QED
    BY <2>3, <2>4, <2>5, <2>6, OnlyQuestions, BeginsAsking DEF Starts
<1>2. CASE in.body # "refused"
  <2>1. PICK a : a = <<Check("FindByID", NotFound)>>
    OBVIOUS
  <2>2. PICK b : b = <<Must("FirstOrCreateBatch"), Must("ReplaceProducts"),
                       Must("ComputeSummaries"), Must("MarkStatus")>>
    OBVIOUS
  <2>3. PICK c : c = <<Aside("ProductsForBatch"), MayAside("Mappable"),
                       MayAside("ProductNamesForBatches"), MayAside("Mappable"),
                       MayAside("UniversalRows"), MayAside("PairRows"),
                       MayAside("ReplaceProductMappings")>>
    OBVIOUS
  <2>4. ImportProducts(in) = a \o (b \o c)
    BY <1>2, <2>1, <2>2, <2>3 DEF ImportProducts, MapBatch
  <2> QED
    BY <2>1, <2>2, <2>3, <2>4, AcceptedImport
<1> QED
  BY <1>1, <1>2

-----------------------------------------------------------------------------
(* Every handler.                                                          *)

\* Codes are a sequence.
LEMMA CodesType == CodeLists \subseteq Seq({"fits", "long"})
<1>1. PICK F : F = {"fits", "long"}
  OBVIOUS
<1>2. \A x, y \in F : <<>> \in Seq(F) /\ <<x>> \in Seq(F) /\ <<x, y>> \in Seq(F)
  OBVIOUS
<1>3. "fits" \in F /\ "long" \in F
  BY <1>1
<1>4. CodeLists \subseteq Seq(F)
  BY <1>2, <1>3 DEF CodeLists
<1> QED
  BY <1>1, <1>4

\* What is sent of a store has codes.
LEMMA SentCodes ==
    ASSUME NEW ids, NEW bodies, NEW op \in {"CreateKompetitor", "UpdateKompetitor"},
           NEW in \in Sent(ids, bodies)[op]
    PROVE  /\ in.codes \in Seq({"fits", "long"})
           /\ [in EXCEPT !.id = Absent].codes = in.codes
<1>1. Sent(ids, bodies)[op] = Message(ids, {Absent}, {"empty"}, CodeLists, bodies)
  BY DEF Sent
<1>2. in \in Message(ids, {Absent}, {"empty"}, CodeLists, bodies)
  BY <1>1
<1>3. in.codes \in CodeLists /\ [in EXCEPT !.id = Absent].codes = in.codes
  BY <1>2 DEF Message
<1> QED
  BY <1>3, CodesType

\* A use case starts with its plan.
LEMMA HandledPlan ==
    ASSUME NEW op \in Operations, NEW in,
           op \in {"CreateKompetitor", "UpdateKompetitor"}
               => in.codes \in Seq({"fits", "long"})
    PROVE  Starts(op, Handled(op, in))
<1> USE DEF InRegistry, InMappingPanel, InRisetProduk, InOurProduct
<1>1. CASE op = "IndexMeta"
  <2>1. Handled("IndexMeta", in) = IndexMeta
    BY DEF Handled, Registry
  <2> QED
    BY <1>1, <2>1, IndexMetaPlan
<1>2. CASE op = "ManageData"
  <2>1. Handled("ManageData", in) = ManageData
    BY DEF Handled, Registry
  <2> QED
    BY <1>2, <2>1, ManageDataPlan
<1>3. CASE op = "CreateKompetitor"
  <2>1. Handled("CreateKompetitor", in) = CreateKompetitor(in)
    BY DEF Handled, Registry
  <2> QED
    BY <1>3, <2>1, CreatePlan
<1>4. CASE op = "UpdateKompetitor"
  <2>1. Handled("UpdateKompetitor", in) = UpdateKompetitor(in)
    BY DEF Handled, Registry
  <2> QED
    BY <1>4, <2>1, UpdatePlan
<1>5. CASE op = "DeleteKompetitor"
  <2>1. Handled("DeleteKompetitor", in) = DeleteKompetitor
    BY DEF Handled, Registry
  <2> QED
    BY <1>5, <2>1, DeletePlan
<1>6. CASE op = "MappingMatrix"
  <2>1. Handled("MappingMatrix", in) = MappingMatrix(in)
    BY DEF Handled, MappingPanel
  <2> QED
    BY <1>6, <2>1, MappingMatrixPlan
<1>7. CASE op = "MappingCell"
  <2>1. Handled("MappingCell", in) = MappingCell(in)
    BY DEF Handled, MappingPanel
  <2> QED
    BY <1>7, <2>1, MappingCellPlan
<1>8. CASE op = "MappingCellUpdate"
  <2>1. Handled("MappingCellUpdate", in) = MappingCellUpdate(in)
    BY DEF Handled, MappingPanel
  <2> QED
    BY <1>8, <2>1, MappingCellUpdatePlan
<1>9. CASE op = "Stats"
  <2>1. Handled("Stats", in) = Stats(in)
    BY DEF Handled, RisetProduk
  <2> QED
    BY <1>9, <2>1, StatsPlan
<1>10. CASE op = "Products"
  <2>1. Handled("Products", in) = Products(in)
    BY DEF Handled, RisetProduk
  <2> QED
    BY <1>10, <2>1, ProductsPlan
<1>11. CASE op = "LegacyProducts"
  <2>1. Handled("LegacyProducts", in) = LegacyProducts
    BY DEF Handled, RisetProduk
  <2> QED
    BY <1>11, <2>1, OneReadPlans
<1>12. CASE op = "BatchCodes"
  <2>1. Handled("BatchCodes", in) = BatchCodes
    BY DEF Handled, RisetProduk
  <2> QED
    BY <1>12, <2>1, OneReadPlans
<1>13. CASE op = "FilterOptions"
  <2>1. Handled("FilterOptions", in) = FilterOptions
    BY DEF Handled, OurProduct
  <2> QED
    BY <1>13, <2>1, OneReadPlans
<1>14. CASE op = "OurProducts"
  <2>1. Handled("OurProducts", in) = OurProducts
    BY DEF Handled, OurProduct
  <2> QED
    BY <1>14, <2>1, OurProductsPlan
<1>15. CASE op = "ImportProducts"
  <2>1. Handled("ImportProducts", in) = ImportProducts(in)
    BY DEF Handled
  <2> QED
    BY <1>15, <2>1, ImportPlan
<1> QED
  BY <1>1, <1>2, <1>3, <1>4, <1>5, <1>6, <1>7, <1>8,
     <1>9, <1>10, <1>11, <1>12, <1>13, <1>14, <1>15 DEF Operations

\* So does a handler of either transport, unless it refuses what it cannot decode.
LEMMA GrpcPlan ==
    ASSUME NEW op \in GrpcMethods, NEW in,
           op \in {"CreateKompetitor", "UpdateKompetitor"}
               => in.codes \in Seq({"fits", "long"})
    PROVE  Starts(op, GrpcHandler(op, in))
<1>1. Starts(op, Undecoded)
  <2>1. Undecoded = <<Check(NoCall, Internal)>>
    BY DEF Undecoded, Check
  <2>2. Check(NoCall, Internal) \in Reads /\ Check(NoCall, Internal).call = NoCall
    BY CheckStep DEF Refusals
  <2>3. Undecoded \in Seq(Reads) /\ Len(Undecoded) = 1 /\ Undecoded[1] \in Reads
        /\ Undecoded[1].call = NoCall
    BY <2>1, <2>2
  <2>4. Undecoded \in Seq(Questions) /\ Undecoded \in Seq(Steps)
    BY <2>3 DEF Reads, Questions
  <2> QED
    BY <2>3, <2>4, OnlyQuestions, BeginsAsking DEF Starts
<1> QED
  BY <1>1, HandledPlan DEF GrpcHandler, GrpcMethods

\* So does a route, which may read another id than was sent.
LEMMA HttpPlan ==
    ASSUME NEW op \in Operations, NEW in,
           op \in {"CreateKompetitor", "UpdateKompetitor"}
               => /\ in.codes \in Seq({"fits", "long"})
                  /\ [in EXCEPT !.id = Absent].codes = in.codes
    PROVE  Starts(op, HttpHandler(op, in))
<1>1. op \notin Unhandled
  BY DEF Operations, InRegistry, InMappingPanel, InRisetProduk, InOurProduct, Unhandled
<1>2. Starts(op, Refuse)
  BY RefusePlan DEF Starts
<1>3. CASE op \in {"CreateKompetitor", "UpdateKompetitor"}
  <2>1. HttpHandler(op, in) = HttpSave(op, in)
    BY <1>1, <1>3 DEF HttpHandler
  <2> QED
    BY <1>2, <1>3, <2>1, HandledPlan DEF HttpSave
<1>4. CASE op \notin {"CreateKompetitor", "UpdateKompetitor"}
  <2>1. \A i : Starts(op, Handled(op, i))
    BY <1>4, HandledPlan
  <2> QED
    BY <1>1, <1>2, <1>4, <2>1 DEF HttpHandler, HttpDelete, HttpCell, HttpBody
<1> QED
  BY <1>3, <1>4

-----------------------------------------------------------------------------
(* The rest of a plan.                                                     *)

\* One step less is ahead.
LEMMA AheadTail ==
    ASSUME NEW todo \in Seq(Steps), todo # <<>>, NEW n \in 1..Len(todo)
    PROVE  Ahead(todo, n + 1) \subseteq
             (IF todo[1].skip THEN {} ELSE {todo[1].call}) \cup Ahead(Tail(todo), n)
<1>1. SUFFICES ASSUME NEW m \in 1..n, ~todo[m].skip
               PROVE  todo[m].call \in (IF todo[1].skip THEN {} ELSE {todo[1].call})
                                         \cup Ahead(Tail(todo), n)
  BY DEF Ahead
<1>2. CASE m = 1
  BY <1>1, <1>2
<1>3. CASE m # 1
  <2>1. m - 1 \in 1..(n - 1) /\ Tail(todo)[m - 1] = todo[m]
    BY <1>3
  <2> QED
    BY <1>1, <2>1 DEF Ahead
<1> QED
  BY <1>2, <1>3

\* A rest in which no refusal was behind a write has none either, as long as what
\* the first step wrote is counted.
LEMMA RefusesFirstRest ==
    ASSUME NEW todo \in Seq(Steps), todo # <<>>, NEW wrote, NEW more,
           RefusesFirst(todo, wrote),
           more \subseteq wrote \cup ({todo[1].call} \cap Writes)
    PROVE  RefusesFirst(Tail(todo), more)
<1>1. /\ Tail(todo) \in Seq(Steps) /\ Len(Tail(todo)) = Len(todo) - 1
      /\ \A n \in 1..Len(Tail(todo)) : Tail(todo)[n] = todo[n + 1]
  OBVIOUS
<1>2. SUFFICES ASSUME NEW n \in 1..Len(Tail(todo)), Tail(todo)[n].refusal # Never
               PROVE  /\ more = {}
                      /\ Tail(todo)[n].call \notin Writes
                      /\ \A m \in 1..n : Tail(todo)[m].call \notin Writes
  BY DEF RefusesFirst
<1>3. n + 1 \in 1..Len(todo) /\ todo[n + 1].refusal # Never
  BY <1>1, <1>2
<1>4. /\ wrote = {} /\ todo[n + 1].call \notin Writes
      /\ \A m \in 1..(n + 1) : todo[m].call \notin Writes
  BY <1>3 DEF RefusesFirst
<1>5. todo[1].call \notin Writes
  BY <1>4
<1>6. \A m \in 1..n : Tail(todo)[m].call \notin Writes
  BY <1>1, <1>4
<1> QED
  BY <1>4, <1>5, <1>6

\* A rest delivers what the whole did, when the first step was skipped because it
\* may be, or has written.
LEMMA DeliversRest ==
    ASSUME NEW todo \in Seq(Steps), todo # <<>>, NEW op, NEW wrote, NEW more,
           Delivers(op, todo, wrote), todo[1].call # NoCall, wrote \subseteq more,
           todo[1].skip \/ ({todo[1].call} \cap Writes) \subseteq more
    PROVE  Delivers(op, Tail(todo), more)
<1>1. /\ Tail(todo) \in Seq(Steps) /\ Len(Tail(todo)) = Len(todo) - 1
      /\ \A n \in 1..Len(Tail(todo)) : Tail(todo)[n] = todo[n + 1]
  OBVIOUS
<1>2. ASSUME NEW n \in 1..Len(todo), Promised(op) \subseteq wrote \cup Ahead(todo, n + 1)
      PROVE  Promised(op) \subseteq more \cup Ahead(Tail(todo), n)
  <2>1. Ahead(todo, n + 1) \subseteq
             (IF todo[1].skip THEN {} ELSE {todo[1].call}) \cup Ahead(Tail(todo), n)
    BY AheadTail
  <2> QED
    BY <1>2, <2>1, PromisedWrites
<1>3. ASSUME NEW n \in 1..Len(Tail(todo)), Tail(todo)[n].swallow
      PROVE  Promised(op) \subseteq more \cup Ahead(Tail(todo), n)
  <2>1. n + 1 \in 1..Len(todo) /\ n \in 1..Len(todo) /\ todo[n + 1].swallow
    BY <1>1, <1>3
  <2> QED
    BY <1>2, <2>1 DEF Delivers
<1>4. CASE \E n \in 1..Len(todo) : todo[n].call = NoCall
  <2>1. PICK n \in 1..Len(todo) : todo[n].call = NoCall
    BY <1>4
  <2>2. n # 1
    BY <2>1
  <2>3. n - 1 \in 1..Len(Tail(todo)) /\ Tail(todo)[n - 1] = todo[n]
    BY <1>1, <2>2
  <2> QED
    BY <1>3, <2>1, <2>3 DEF Delivers
<1>5. CASE Promised(op) \subseteq wrote \cup Ahead(todo, Len(todo) + 1)
  <2>1. Len(todo) \in 1..Len(todo) /\ Len(Tail(todo)) + 1 = Len(todo)
    BY <1>1
  <2>2. Promised(op) \subseteq more \cup Ahead(Tail(todo), Len(todo))
    BY <1>2, <1>5, <2>1
  <2> QED
    BY <1>3, <2>1, <2>2 DEF Delivers
<1> QED
  BY <1>4, <1>5 DEF Delivers

\* What is left after a call that answered, or was not needed.
LEMMA PlanRest ==
    ASSUME NEW todo, NEW op, NEW wrote, Plan(op, todo, wrote), todo # <<>>,
           todo[1].call # NoCall
    PROVE  /\ Plan(op, Tail(todo), wrote \cup ({todo[1].call} \cap Writes))
           /\ todo[1].skip => Plan(op, Tail(todo), wrote)
<1>1. todo \in Seq(Steps) /\ RefusesFirst(todo, wrote) /\ Delivers(op, todo, wrote)
  BY DEF Plan
<1>2. Tail(todo) \in Seq(Steps)
  BY <1>1
<1>3. /\ RefusesFirst(Tail(todo), wrote \cup ({todo[1].call} \cap Writes))
      /\ RefusesFirst(Tail(todo), wrote)
  BY <1>1, RefusesFirstRest
<1>4. /\ Delivers(op, Tail(todo), wrote \cup ({todo[1].call} \cap Writes))
      /\ todo[1].skip => Delivers(op, Tail(todo), wrote)
  BY <1>1, DeliversRest
<1> QED
  BY <1>2, <1>3, <1>4 DEF Plan

\* A plan of which nothing is left has delivered, and so has one that ends well
\* when a call fails; one that refuses has written nothing.
LEMMA PlanEnd ==
    ASSUME NEW todo, NEW op, NEW wrote, Plan(op, todo, wrote)
    PROVE  /\ todo = <<>> => Promised(op) \subseteq wrote
           /\ todo # <<>> => /\ todo[1] \in Steps
                             /\ todo[1].swallow => Promised(op) \subseteq wrote
                             /\ todo[1].refusal # Never => wrote = {}
<1>1. todo \in Seq(Steps) /\ RefusesFirst(todo, wrote) /\ Delivers(op, todo, wrote)
  BY DEF Plan
<1>2. Ahead(todo, 1) = {}
  BY DEF Ahead
<1>3. CASE todo = <<>>
  <2>1. Len(todo) = 0
    BY <1>3
  <2> QED
    BY <1>1, <1>2, <1>3, <2>1 DEF Delivers
<1>4. CASE todo # <<>>
  <2>1. 1 \in 1..Len(todo)
    BY <1>1, <1>4
  <2> QED
    BY <1>1, <1>2, <1>4, <2>1 DEF Delivers, RefusesFirst
<1> QED
  BY <1>3, <1>4

-----------------------------------------------------------------------------
(* Statuses.                                                               *)

\* What a code becomes, over either transport.
LEMMA StatusMeans ==
    ASSUME NEW op, transport \in {"http", "grpc"}
    PROVE  /\ Status(op, OK) \in Done
           /\ Status(op, Unavailable) \in NoDb
           /\ Status(op, Internal) \in Broken
           /\ Status(op, NotFound) \in Refused
           /\ Status(op, InvalidInput) \in Refused
<1> USE DEF OK, Unavailable, Internal, NotFound, InvalidInput
<1>1. CASE transport = "http"
  <2>1. /\ HttpStatus(op, OK) \in Done
        /\ HttpStatus(op, Unavailable) \in NoDb
        /\ HttpStatus(op, Internal) \in Broken
        /\ HttpStatus(op, NotFound) \in Refused
        /\ HttpStatus(op, InvalidInput) \in Refused
    BY DEF HttpStatus, Done, NoDb, Broken, Refused
  <2> QED
    BY <1>1, <2>1 DEF Status
<1>2. CASE transport # "http"
  <2>1. /\ GrpcStatus(OK) \in Done
        /\ GrpcStatus(Unavailable) \in NoDb
        /\ GrpcStatus(Internal) \in Broken
        /\ GrpcStatus(NotFound) \in Refused
        /\ GrpcStatus(InvalidInput) \in Refused
    BY DEF GrpcStatus, Done, NoDb, Broken, Refused
  <2> QED
    BY <1>2, <2>1 DEF Status
<1> QED
  BY <1>1, <1>2

\* No status means two things, and a request that is not answered has none.
LEMMA StatusesApart ==
    /\ Done \cap Refused = {} /\ Done \cap NoDb = {} /\ Done \cap Broken = {}
    /\ Refused \cap NoDb = {} /\ Refused \cap Broken = {} /\ NoDb \cap Broken = {}
    /\ "" \notin Statuses
BY DEF Done, Refused, NoDb, Broken, Statuses

-----------------------------------------------------------------------------
(* The inductive invariant.                                                *)

RequestType ==
    [at : {"idle", "running", "hung", "answered"}, op : HttpRoutes \cup {""},
     todo : Seq(Steps), wrote : SUBSET Writes, status : Statuses \cup {""}]

ProcessType ==
    /\ transport \in {"http", "grpc"}
    /\ main \in MainStates /\ serve \in ServeStates /\ exit \in Exits
    /\ handle \in BOOLEAN /\ database \in BOOLEAN

Typed == ProcessType /\ req \in [Requests -> RequestType]

\* A request that waits for its client has nothing behind it.
IdleFine(x) == x.at = "idle" => x.op = "" /\ x.wrote = {} /\ x.status = ""

\* A request in flight follows a plan, and cannot get far without a database.
PlanFine(x, h) ==
    x.at \in {"running", "hung"} =>
        /\ x.op \in HttpRoutes /\ x.status = ""
        /\ Plan(x.op, x.todo, x.wrote)
        /\ ~h => x.wrote = {} /\ (x.op \in Unhandled \/ Asks1(x.todo))

\* What an answer promises.
AnswerFine(x, h) ==
    x.at = "answered" =>
        /\ x.status \in Statuses
        /\ x.status \in Refused => x.wrote = {}
        /\ x.status \in Done => Promised(x.op) \subseteq x.wrote
        /\ x.status \in NoDb => ~h
        /\ ~h => \/ x.status \in NoDb \cup Refused \cup Broken
                 \/ x.op \in Unhandled
        /\ ~h => x.wrote = {}

Fine(x, h) == IdleFine(x) /\ PlanFine(x, h) /\ AnswerFine(x, h)

\* A process that is down serves nobody; one that is not has not ended.
Phases ==
    /\ main = "down" => \A r \in Requests : req[r].at = "idle"
    /\ serve # "none" => main # "down"
    /\ main # "down" => exit # "ok"

IInv == Typed /\ Phases /\ \A r \in Requests : Fine(req[r], handle)

\* An idle request has no obligations.
LEMMA IdleType == Idle \in RequestType /\ Idle.at = "idle" /\ \A h : Fine(Idle, h)
<1>1. <<>> \in Seq(Steps)
  OBVIOUS
<1>2. /\ Idle \in RequestType /\ Idle.at = "idle" /\ Idle.wrote = {}
      /\ Idle.status = ""
  BY <1>1 DEF Idle, RequestType
<1>3. Idle.op = ""
  BY DEF Idle
<1> QED
  BY <1>2, <1>3 DEF Fine, IdleFine, PlanFine, AnswerFine

\* Nothing runs and nobody asks at first.
LEMMA InitIInv == Init => IInv
<1> SUFFICES ASSUME Init PROVE IInv
  OBVIOUS
<1>1. req = [r \in Requests |-> Idle]
  BY DEF Init
<1>2. \A r \in Requests : req[r] = Idle
  BY <1>1
<1>3. Typed
  BY <1>1, IdleType DEF Typed, ProcessType, Init, MainStates, ServeStates, Exits
<1>4. Phases
  BY <1>2, IdleType DEF Phases, Init
<1>5. \A r \in Requests : Fine(req[r], handle)
  BY <1>2, IdleType
<1> QED
  BY <1>3, <1>4, <1>5 DEF IInv

-----------------------------------------------------------------------------
(* The steps of the process.                                               *)

\* Whatever ends the process leaves no request.
LEMMA ExitIInv ==
    ASSUME IInv, NEW how \in Exits, Exit(how)
    PROVE  IInv'
<1>1. req' = [r \in Requests |-> Idle]
  BY DEF Exit
<1>2. \A r \in Requests : req'[r] = Idle
  BY <1>1
<1>3. Typed'
  BY <1>1, IdleType DEF IInv, Typed, ProcessType, Exit, MainStates, ServeStates
<1>4. Phases'
  BY <1>2, IdleType DEF Phases, Exit
<1>5. \A r \in Requests : Fine(req'[r], handle')
  BY <1>2, IdleType
<1> QED
  BY <1>3, <1>4, <1>5 DEF IInv

\* A step that leaves the requests and the connection alone.
LEMMA KeptIInv ==
    ASSUME IInv, ProcessType', req' = req, handle' = handle, main # "down",
           main' # "down", exit' = exit
    PROVE  IInv'
BY DEF IInv, Typed, Phases

\* No step of the process disturbs a request that has one.
LEMMA ProcessIInv ==
    ASSUME IInv, ProcessStep
    PROVE  IInv'
<1> USE DEF MainStates, ServeStates, Exits
<1>1. CASE Boot
  <2>1. PICK driver \in Drivers : handle' = Connect(driver)
    BY <1>1 DEF Boot
  <2>2. handle' \in BOOLEAN
    BY <2>1 DEF Connect
  <2>3. /\ main = "down" /\ main' \in {"listen", "notify"} /\ exit' = "none"
        /\ serve' \in ServeStates /\ req' = req
        /\ transport' = transport /\ database' = database
    BY <1>1 DEF Boot, Moves
  <2>4. Typed'
    BY <2>2, <2>3 DEF IInv, Typed, ProcessType
  <2>5. Phases'
    BY <2>3 DEF Phases
  <2>6. \A r \in Requests : req[r].at = "idle" /\ Fine(req[r], handle)
    BY <2>3 DEF IInv, Phases
  <2>7. \A r \in Requests : Fine(req'[r], handle')
    BY <2>3, <2>6 DEF Fine, IdleFine, PlanFine, AnswerFine
  <2> QED
    BY <2>4, <2>5, <2>7 DEF IInv
<1>2. CASE Listen
  BY <1>2, KeptIInv DEF Listen, Moves, IInv, Typed, ProcessType
<1>3. CASE ListenFails
  BY <1>3, ExitIInv DEF ListenFails
<1>4. CASE Serve
  <2>1. main # "down"
    BY <1>4 DEF Serve, IInv, Phases
  <2> QED
    BY <1>4, <2>1, KeptIInv DEF Serve, IInv, Typed, ProcessType
<1>5. CASE ServeTooLate
  <2>1. CASE transport = "grpc"
    BY <1>5, <2>1, ExitIInv DEF ServeTooLate
  <2>2. CASE transport # "grpc"
    BY <1>5, <2>2, KeptIInv DEF ServeTooLate, IInv, Typed, ProcessType
  <2> QED
    BY <2>1, <2>2
<1>6. CASE ServeFails
  BY <1>6, ExitIInv DEF ServeFails
<1>7. CASE Notify
  BY <1>7, KeptIInv DEF Notify, Moves, IInv, Typed, ProcessType
<1>8. CASE Signal
  <2>1. CASE Exit("killed")
    BY <2>1, ExitIInv
  <2>2. CASE /\ Moves("wait", "quit")
            /\ UNCHANGED <<transport, serve, exit, handle, database, req>>
    BY <2>2, KeptIInv DEF Moves, IInv, Typed, ProcessType
  <2> QED
    BY <1>8, <2>1, <2>2 DEF Signal
<1>9. CASE BeginStop
  BY <1>9, KeptIInv DEF BeginStop, Moves, IInv, Typed, ProcessType
<1>10. CASE Stopped
  BY <1>10, ExitIInv DEF Stopped
<1>11. CASE GraceOver
  BY <1>11, ExitIInv DEF GraceOver
<1>12. CASE Crash
  BY <1>12, ExitIInv DEF Crash
<1>13. CASE Toggle
  <2>1. ProcessType'
    BY <1>13 DEF Toggle, IInv, Typed, ProcessType
  <2> QED
    BY <1>13, <2>1 DEF Toggle, IInv, Typed, Phases
<1> QED
  BY <1>1, <1>2, <1>3, <1>4, <1>5, <1>6, <1>7, <1>8, <1>9, <1>10, <1>11, <1>12,
     <1>13 DEF ProcessStep

-----------------------------------------------------------------------------
(* The steps of a request.                                                 *)

\* No step of a request touches the process.
LEMMA RequestProcess ==
    ASSUME NEW r \in Requests, RequestStep(r)
    PROVE  ProcessUnchanged
BY DEF RequestStep, Proceeds, Accept, Goes, Skips, Refuses, Fails, FailsLate,
       Panics, Finishes, Hangs, Resumes, Forget

\* A step changes one request; the process and the others stay.
LEMMA RequestIInv ==
    ASSUME IInv, NEW r \in Requests, NEW y \in RequestType, ProcessUnchanged,
           req' = [req EXCEPT ![r] = y], Fine(y, handle),
           main = "down" => y.at = "idle"
    PROVE  IInv'
<1>1. /\ req' \in [Requests -> RequestType] /\ req'[r] = y
      /\ \A q \in Requests : q # r => req'[q] = req[q]
  BY DEF IInv, Typed
<1>2. /\ main' = main /\ serve' = serve /\ exit' = exit /\ handle' = handle
      /\ transport' = transport /\ database' = database
  BY DEF ProcessUnchanged
<1>3. Typed'
  BY <1>1, <1>2 DEF IInv, Typed, ProcessType
<1>4. Phases'
  BY <1>1, <1>2 DEF IInv, Phases
<1>5. \A q \in Requests : Fine(req'[q], handle)
  BY <1>1 DEF IInv
<1> QED
  BY <1>2, <1>3, <1>4, <1>5 DEF IInv

\* A request in flight is typed, follows its plan, and has a process.
LEMMA InFlightFacts ==
    ASSUME IInv, NEW r \in Requests, InFlight(r)
    PROVE  /\ req[r] \in RequestType /\ main # "down"
           /\ req[r].op \in HttpRoutes /\ req[r].status = ""
           /\ req[r].todo \in Seq(Steps)
           /\ Plan(req[r].op, req[r].todo, req[r].wrote)
           /\ ~handle => /\ req[r].wrote = {}
                         /\ req[r].op \in Unhandled \/ Asks1(req[r].todo)
<1>1. req[r] \in RequestType /\ req[r].at \in {"running", "hung"}
  BY DEF IInv, Typed, InFlight, At
<1>2. PlanFine(req[r], handle)
  BY DEF IInv, Fine
<1>3. main # "down"
  BY <1>1 DEF IInv, Phases
<1> QED
  BY <1>1, <1>2, <1>3 DEF PlanFine, RequestType

\* A request that goes on with what is left of its plan.
LEMMA GoesOnIInv ==
    ASSUME IInv, NEW r \in Requests, InFlight(r), ProcessUnchanged,
           NEW y \in RequestType, req' = [req EXCEPT ![r] = y],
           y.at \in {"running", "hung"}, y.op = req[r].op, y.status = req[r].status,
           Plan(y.op, y.todo, y.wrote),
           ~handle => y.wrote = {} /\ (y.op \in Unhandled \/ Asks1(y.todo))
    PROVE  IInv'
<1>1. main # "down" /\ req[r].op \in HttpRoutes /\ req[r].status = ""
  BY InFlightFacts
<1>2. Fine(y, handle)
  BY <1>1 DEF Fine, IdleFine, PlanFine, AnswerFine
<1> QED
  BY <1>1, <1>2, RequestIInv

\* A request that is answered.
LEMMA AnsweredIInv ==
    ASSUME IInv, NEW r \in Requests, InFlight(r), ProcessUnchanged,
           NEW wrote \in SUBSET Writes,
           NEW code \in {OK, NotFound, InvalidInput, Internal, Unavailable},
           NEW y, req' = [req EXCEPT ![r] = y],
           Status(req[r].op, code) \in Statuses => y \in RequestType,
           y.at = "answered", y.wrote = wrote, y.op = req[r].op,
           y.status = Status(req[r].op, code),
           code \in {NotFound, InvalidInput} => wrote = {},
           code = OK => Promised(req[r].op) \subseteq wrote,
           code = Unavailable => ~handle,
           ~handle => wrote = {},
           ~handle /\ code = OK => req[r].op \in Unhandled
    PROVE  IInv'
<1>1. PICK s : s = Status(req[r].op, code)
  OBVIOUS
<1>2. main # "down"
  BY InFlightFacts
<1>3. transport \in {"http", "grpc"}
  BY DEF IInv, Typed, ProcessType
<1>4. /\ code = OK => s \in Done
      /\ code = Unavailable => s \in NoDb
      /\ code = Internal => s \in Broken
      /\ code \in {NotFound, InvalidInput} => s \in Refused
  BY <1>1, <1>3, StatusMeans
<1>5. s \in Statuses
  BY <1>4 DEF Statuses
<1>6. y \in RequestType /\ y.status = s
  BY <1>1, <1>5
<1>7. AnswerFine(y, handle)
  <2>1. s \in Refused => wrote = {}
    BY <1>4, StatusesApart
  <2>2. s \in Done => Promised(req[r].op) \subseteq wrote
    BY <1>4, StatusesApart
  <2>3. s \in NoDb => ~handle
    BY <1>4, StatusesApart
  <2>4. ~handle => s \in NoDb \cup Refused \cup Broken \/ req[r].op \in Unhandled
    BY <1>4
  <2> QED
    BY <1>5, <1>6, <2>1, <2>2, <2>3, <2>4 DEF AnswerFine
<1>8. Fine(y, handle)
  BY <1>6, <1>7 DEF Fine, IdleFine, PlanFine
<1> QED
  BY <1>2, <1>6, <1>8, RequestIInv

\* What a handler starts with, for every request that can be sent.
LEMMA AcceptedPlan ==
    ASSUME transport \in {"http", "grpc"},
           NEW op \in IF transport = "http" THEN HttpRoutes ELSE GrpcMethods,
           NEW in \in IF op \in Unhandled THEN {Plain} ELSE Sends[op]
    PROVE  /\ op \in HttpRoutes /\ Plan(op, Handler(op, in), {})
           /\ op \in Unhandled \/ Asks1(Handler(op, in))
<1>1. GrpcMethods \cap Unhandled = {}
  BY DEF GrpcMethods, Operations, InRegistry, InMappingPanel, InRisetProduk,
         InOurProduct, Unhandled
<1>2. CASE op \in Unhandled
  <2>1. transport = "http" /\ op \in HttpRoutes
    BY <1>1, <1>2
  <2>2. Handler(op, in) = <<>>
    <3>1. HttpHandler(op, in) = <<>>
      BY <1>2 DEF HttpHandler, Unhandled
    <3> QED
      BY <2>1, <3>1 DEF Handler
  <2>3. Promised(op) = {}
    BY <1>2 DEF Unhandled, Promised
  <2>4. <<>> \in Seq(Steps) /\ Len(<<>>) = 0
    OBVIOUS
  <2>5. Plan(op, <<>>, {})
    BY <2>3, <2>4 DEF Plan, RefusesFirst, Delivers
  <2> QED
    BY <1>2, <2>1, <2>2, <2>5
<1>3. CASE op \notin Unhandled
  <2>1. op \in Operations /\ op \in HttpRoutes
    BY <1>3 DEF HttpRoutes, GrpcMethods
  <2>2. \E ids : in \in Sent(ids, Bodies)[op]
    BY <1>3 DEF Sends
  <2>3. op \in {"CreateKompetitor", "UpdateKompetitor"}
           => /\ in.codes \in Seq({"fits", "long"})
              /\ [in EXCEPT !.id = Absent].codes = in.codes
    BY <2>2, SentCodes
  <2>4. Starts(op, HttpHandler(op, in))
    BY <2>1, <2>3, HttpPlan
  <2>5. Starts(op, GrpcHandler(op, in))
    BY <2>1, <2>3, GrpcPlan DEF GrpcMethods
  <2> QED
    BY <2>1, <2>4, <2>5 DEF Handler, Starts
<1> QED
  BY <1>2, <1>3

\* A request that comes in starts with the plan of its handler.
LEMMA AcceptIInv ==
    ASSUME IInv, NEW r \in Requests, Accept(r)
    PROVE  IInv'
<1>1. serve = "open" /\ ProcessUnchanged
  BY DEF Accept
<1>2. main # "down"
  BY <1>1 DEF IInv, Phases
<1>3. PICK op \in IF transport = "http" THEN HttpRoutes ELSE GrpcMethods :
          \E in \in IF op \in Unhandled THEN {Plain} ELSE Sends[op] :
              req' = [req EXCEPT ![r] = [Idle EXCEPT !.at = "running", !.op = op,
                                                     !.todo = Handler(op, in)]]
  BY DEF Accept
<1>4. PICK in \in IF op \in Unhandled THEN {Plain} ELSE Sends[op] :
              req' = [req EXCEPT ![r] = [Idle EXCEPT !.at = "running", !.op = op,
                                                     !.todo = Handler(op, in)]]
  BY <1>3
<1>5. PICK todo : todo = Handler(op, in)
  OBVIOUS
<1>6. PICK y : y = [Idle EXCEPT !.at = "running", !.op = op, !.todo = todo]
  OBVIOUS
<1>7. /\ op \in HttpRoutes /\ Plan(op, todo, {})
      /\ op \in Unhandled \/ Asks1(todo)
  BY <1>5, AcceptedPlan DEF IInv, Typed, ProcessType
<1>8. todo \in Seq(Steps)
  BY <1>7 DEF Plan
<1>9. /\ y \in RequestType /\ y.at = "running" /\ y.op = op /\ y.todo = todo
      /\ y.wrote = {} /\ y.status = ""
  BY <1>6, <1>7, <1>8 DEF Idle, RequestType
<1>10. Fine(y, handle)
  BY <1>7, <1>9 DEF Fine, IdleFine, PlanFine, AnswerFine
<1>11. req' = [req EXCEPT ![r] = y]
  BY <1>4, <1>5, <1>6
<1> QED
  BY <1>1, <1>2, <1>9, <1>10, <1>11, RequestIInv

\* A request whose client has its answer is idle again.
LEMMA ForgetIInv ==
    ASSUME IInv, NEW r \in Requests, Forget(r)
    PROVE  IInv'
BY IdleType, RequestIInv DEF Forget

\* A call is the first step of a plan.
LEMMA CallFacts ==
    ASSUME IInv, NEW r \in Requests, Calling(r)
    PROVE  /\ InFlight(r) /\ req[r].todo # <<>>
           /\ req[r].todo \in Seq(Steps) /\ Tail(req[r].todo) \in Seq(Steps)
           /\ Next1(r) = req[r].todo[1] /\ Next1(r).call # NoCall
           /\ Wrote(r) \in SUBSET Writes
<1>1. InFlight(r) /\ req[r].todo # <<>> /\ Next1(r).call # NoCall
  BY DEF Calling, Running, InFlight
<1>2. req[r] \in RequestType /\ req[r].todo \in Seq(Steps)
  BY <1>1, InFlightFacts
<1>3. Wrote(r) \in SUBSET Writes
  BY <1>2 DEF Wrote, RequestType
<1>4. Tail(req[r].todo) \in Seq(Steps)
  BY <1>1, <1>2
<1> QED
  BY <1>1, <1>2, <1>3, <1>4 DEF Next1

\* An answered call leaves the rest of the plan.
LEMMA GoesIInv ==
    ASSUME IInv, NEW r \in Requests, Goes(r)
    PROVE  IInv'
<1>1. Calling(r) /\ handle /\ ProcessUnchanged
  BY DEF Goes
<1>2. PICK todo : todo = Tail(req[r].todo)
  OBVIOUS
<1>3. PICK wrote : wrote = Wrote(r)
  OBVIOUS
<1>4. PICK y : y = [req[r] EXCEPT !.todo = todo, !.wrote = wrote]
  OBVIOUS
<1>5. req' = [req EXCEPT ![r] = y]
  BY <1>2, <1>3, <1>4 DEF Goes
<1>6. InFlight(r) /\ req[r] \in RequestType
  BY <1>1, CallFacts, InFlightFacts
<1>7. todo \in Seq(Steps) /\ wrote \in SUBSET Writes
  BY <1>1, <1>2, <1>3, CallFacts
<1>8. /\ y \in RequestType /\ y.at = req[r].at /\ y.op = req[r].op
      /\ y.todo = todo /\ y.wrote = wrote /\ y.status = req[r].status
  BY <1>4, <1>6, <1>7 DEF RequestType
<1>9. Plan(req[r].op, todo, wrote)
  <2>1. Plan(req[r].op, req[r].todo, req[r].wrote)
    BY <1>6, InFlightFacts
  <2>2. wrote = req[r].wrote \cup ({req[r].todo[1].call} \cap Writes)
    BY <1>3 DEF Wrote, Next1
  <2>3. req[r].todo # <<>> /\ req[r].todo[1].call # NoCall
    BY <1>1, CallFacts
  <2> QED
    BY <1>2, <2>1, <2>2, <2>3, PlanRest
<1>10. y.at \in {"running", "hung"}
  BY <1>6, <1>8 DEF InFlight, At
<1> QED
  BY <1>1, <1>5, <1>6, <1>8, <1>9, <1>10, GoesOnIInv

\* So does a call that is not made; without a database none is skipped.
LEMMA SkipsIInv ==
    ASSUME IInv, NEW r \in Requests, Skips(r)
    PROVE  IInv'
<1>1. Calling(r) /\ Next1(r).skip /\ ProcessUnchanged
  BY DEF Skips
<1>2. PICK todo : todo = Tail(req[r].todo)
  OBVIOUS
<1>3. PICK y : y = [req[r] EXCEPT !.todo = todo]
  OBVIOUS
<1>4. req' = [req EXCEPT ![r] = y]
  BY <1>2, <1>3 DEF Skips
<1>5. InFlight(r) /\ req[r] \in RequestType /\ todo \in Seq(Steps)
  BY <1>1, <1>2, CallFacts, InFlightFacts
<1>6. /\ y \in RequestType /\ y.at = req[r].at /\ y.op = req[r].op
      /\ y.todo = todo /\ y.wrote = req[r].wrote /\ y.status = req[r].status
  BY <1>3, <1>5 DEF RequestType
<1>7. req[r].todo # <<>> /\ req[r].todo[1].call # NoCall /\ req[r].todo[1].skip
  BY <1>1, CallFacts DEF Next1
<1>8. Plan(req[r].op, todo, req[r].wrote)
  BY <1>2, <1>5, <1>7, InFlightFacts, PlanRest
<1>9. ~handle => req[r].wrote = {} /\ req[r].op \in Unhandled
  BY <1>5, <1>7, InFlightFacts DEF Asks1
<1>10. y.at \in {"running", "hung"}
  BY <1>5, <1>6 DEF InFlight, At
<1> QED
  BY <1>1, <1>4, <1>5, <1>6, <1>8, <1>9, <1>10, GoesOnIInv

\* A request that waits for the database, or goes on, keeps its plan.
LEMMA WaitsIInv ==
    ASSUME IInv, NEW r \in Requests, Hangs(r) \/ Resumes(r)
    PROVE  IInv'
<1>1. InFlight(r) /\ ProcessUnchanged
  BY DEF Hangs, Resumes, Calling, Running, InFlight
<1>2. PICK at \in {"running", "hung"} :
          req' = [req EXCEPT ![r] = [req[r] EXCEPT !.at = at]]
  BY DEF Hangs, Resumes
<1>3. PICK y : y = [req[r] EXCEPT !.at = at]
  OBVIOUS
<1>4. req[r] \in RequestType
  BY <1>1, InFlightFacts
<1>5. /\ y \in RequestType /\ y.at = at /\ y.op = req[r].op
      /\ y.todo = req[r].todo /\ y.wrote = req[r].wrote /\ y.status = req[r].status
  BY <1>3, <1>4 DEF RequestType
<1>6. req' = [req EXCEPT ![r] = y]
  BY <1>2, <1>3
<1> QED
  BY <1>1, <1>5, <1>6, InFlightFacts, GoesOnIInv

\* An answer that leaves what was written as it is.
LEMMA PlainAnswer ==
    ASSUME IInv, NEW r \in Requests, InFlight(r), ProcessUnchanged,
           NEW code \in {OK, NotFound, InvalidInput, Internal, Unavailable},
           Answer(r, code),
           code \in {NotFound, InvalidInput} => req[r].wrote = {},
           code = OK => Promised(req[r].op) \subseteq req[r].wrote,
           code = Unavailable => ~handle,
           ~handle /\ code = OK => req[r].op \in Unhandled
    PROVE  IInv'
<1>1. PICK s : s = Status(req[r].op, code)
  OBVIOUS
<1>2. PICK y : y = [req[r] EXCEPT !.at = "answered", !.todo = <<>>, !.status = s]
  OBVIOUS
<1>3. req' = [req EXCEPT ![r] = y]
  BY <1>1, <1>2 DEF Answer
<1>4. req[r] \in RequestType
  BY InFlightFacts
<1>5. <<>> \in Seq(Steps)
  OBVIOUS
<1>6. /\ s \in Statuses => y \in RequestType
      /\ y.at = "answered" /\ y.wrote = req[r].wrote /\ y.op = req[r].op /\ y.status = s
  BY <1>2, <1>4, <1>5 DEF RequestType
<1>7. req[r].wrote \in SUBSET Writes
  BY <1>4 DEF RequestType
<1>8. ~handle => req[r].wrote = {}
  BY InFlightFacts
<1> QED
  BY <1>1, <1>3, <1>6, <1>7, <1>8, AnsweredIInv

\* A refusal comes before every write.
LEMMA RefusesIInv ==
    ASSUME IInv, NEW r \in Requests, Refuses(r)
    PROVE  IInv'
<1>1. /\ InFlight(r) /\ req[r].todo # <<>> /\ ProcessUnchanged
      /\ Next1(r).refusal # Never /\ Answer(r, Next1(r).refusal)
  BY DEF Refuses, Running, InFlight
<1>2. Plan(req[r].op, req[r].todo, req[r].wrote)
  BY <1>1, InFlightFacts
<1>3. Next1(r) \in Steps /\ req[r].wrote = {}
  BY <1>1, <1>2, PlanEnd DEF Next1
<1>4. Next1(r).refusal \in {NotFound, InvalidInput, Internal}
  BY <1>1, <1>3 DEF Steps, Refusals
<1>5. Next1(r).refusal # OK /\ Next1(r).refusal # Unavailable
  BY <1>4 DEF NotFound, InvalidInput, Internal, OK, Unavailable
<1> QED
  BY <1>1, <1>3, <1>4, <1>5, PlainAnswer

\* What a failing call says.
LEMMA FailsIInv ==
    ASSUME IInv, NEW r \in Requests, Fails(r)
    PROVE  IInv'
<1>1. InFlight(r) /\ req[r].todo # <<>> /\ ProcessUnchanged
  BY CallFacts DEF Fails
<1>2. Plan(req[r].op, req[r].todo, req[r].wrote)
  BY <1>1, InFlightFacts
<1>3. CASE Next1(r).swallow
  <2>1. Promised(req[r].op) \subseteq req[r].wrote
    BY <1>1, <1>2, <1>3, PlanEnd DEF Next1
  <2>2. ~handle => req[r].op \in Unhandled
    BY <1>1, <1>3, InFlightFacts DEF Asks1, Next1
  <2>3. Answer(r, OK)
    BY <1>3 DEF Fails
  <2>4. OK \notin {NotFound, InvalidInput} /\ OK # Unavailable
    BY DEF OK, NotFound, InvalidInput, Unavailable
  <2> QED
    BY <1>1, <2>1, <2>2, <2>3, <2>4, PlainAnswer
<1>4. CASE ~Next1(r).swallow /\ handle
  <2>1. Answer(r, Internal)
    BY <1>4 DEF Fails
  <2>2. Internal \notin {NotFound, InvalidInput, OK, Unavailable}
    BY DEF Internal, NotFound, InvalidInput, OK, Unavailable
  <2> QED
    BY <1>1, <2>1, <2>2, PlainAnswer
<1>5. CASE ~Next1(r).swallow /\ ~handle
  <2>1. Answer(r, Unavailable)
    BY <1>5 DEF Fails
  <2>2. Unavailable \notin {NotFound, InvalidInput} /\ Unavailable # OK
    BY DEF Unavailable, NotFound, InvalidInput, OK
  <2> QED
    BY <1>1, <1>5, <2>1, <2>2, PlainAnswer
<1> QED
  BY <1>3, <1>4, <1>5

\* A write that failed for its client may have been made.
LEMMA FailsLateIInv ==
    ASSUME IInv, NEW r \in Requests, FailsLate(r)
    PROVE  IInv'
<1>1. /\ Calling(r) /\ handle /\ ProcessUnchanged
      /\ InFlight(r) /\ req[r].todo # <<>> /\ Wrote(r) \in SUBSET Writes
  BY CallFacts DEF FailsLate
<1>2. PICK wrote : wrote = Wrote(r)
  OBVIOUS
<1>3. PICK code : code = IF Next1(r).swallow THEN OK ELSE Internal
  OBVIOUS
<1>4. PICK s : s = Status(req[r].op, code)
  OBVIOUS
<1>5. PICK y : y = [req[r] EXCEPT !.at = "answered", !.todo = <<>>, !.wrote = wrote,
                                  !.status = s]
  OBVIOUS
<1>6. req' = [req EXCEPT ![r] = y]
  BY <1>2, <1>3, <1>4, <1>5 DEF FailsLate
<1>7. code \in {OK, Internal}
  BY <1>3
<1>8. code \notin {NotFound, InvalidInput} /\ code # Unavailable
  BY <1>7 DEF OK, Internal, NotFound, InvalidInput, Unavailable
<1>9. code = OK => Promised(req[r].op) \subseteq wrote
  <2>1. OK # Internal
    BY DEF OK, Internal
  <2>2. Plan(req[r].op, req[r].todo, req[r].wrote)
    BY <1>1, InFlightFacts
  <2>3. req[r].todo[1].swallow => Promised(req[r].op) \subseteq req[r].wrote
    BY <1>1, <2>2, PlanEnd
  <2>4. code = OK => req[r].todo[1].swallow
    BY <1>3, <2>1 DEF Next1
  <2> QED
    BY <1>2, <2>3, <2>4 DEF Wrote
<1>10. wrote \in SUBSET Writes
  BY <1>1, <1>2
<1>11. req[r] \in RequestType
  BY <1>1, InFlightFacts
<1>12. <<>> \in Seq(Steps)
  OBVIOUS
<1>13. /\ s \in Statuses => y \in RequestType
       /\ y.at = "answered" /\ y.wrote = wrote /\ y.op = req[r].op /\ y.status = s
  BY <1>5, <1>10, <1>11, <1>12 DEF RequestType
<1> QED
  BY <1>1, <1>4, <1>6, <1>7, <1>8, <1>9, <1>10, <1>13, AnsweredIInv

\* A panic is an internal error.
LEMMA PanicsIInv ==
    ASSUME IInv, NEW r \in Requests, Panics(r)
    PROVE  IInv'
<1>1. InFlight(r) /\ ProcessUnchanged /\ Answer(r, Internal)
  BY DEF Panics, Running, InFlight
<1>2. Internal \notin {NotFound, InvalidInput, OK, Unavailable}
  BY DEF Internal, NotFound, InvalidInput, OK, Unavailable
<1> QED
  BY <1>1, <1>2, PlainAnswer

\* A plan of which nothing is left has delivered.
LEMMA FinishesIInv ==
    ASSUME IInv, NEW r \in Requests, Finishes(r)
    PROVE  IInv'
<1>1. InFlight(r) /\ req[r].todo = <<>> /\ ProcessUnchanged /\ Answer(r, OK)
  BY DEF Finishes, Running, InFlight
<1>2. Promised(req[r].op) \subseteq req[r].wrote
  BY <1>1, InFlightFacts, PlanEnd
<1>3. ~handle => req[r].op \in Unhandled
  BY <1>1, InFlightFacts DEF Asks1
<1>4. OK \notin {NotFound, InvalidInput} /\ OK # Unavailable
  BY DEF OK, NotFound, InvalidInput, Unavailable
<1> QED
  BY <1>1, <1>2, <1>3, <1>4, PlainAnswer

\* Every step keeps the invariant.
LEMMA NextIInv == IInv /\ [Next]_vars => IInv'
<1> SUFFICES ASSUME IInv, [Next]_vars PROVE IInv'
  OBVIOUS
<1>1. CASE ProcessStep
  BY <1>1, ProcessIInv
<1>2. ASSUME NEW r \in Requests, RequestStep(r) PROVE IInv'
  BY <1>2, AcceptIInv, ForgetIInv, GoesIInv, SkipsIInv, WaitsIInv, RefusesIInv,
     FailsIInv, FailsLateIInv, PanicsIInv, FinishesIInv DEF RequestStep, Proceeds
<1>3. CASE UNCHANGED vars
  BY <1>3 DEF vars, IInv, Typed, ProcessType, Phases
<1> QED
  BY <1>1, <1>2, <1>3 DEF Next

-----------------------------------------------------------------------------
(* What a step makes of its request.                                       *)

\* A call that is made or skipped leaves the rest, and at most one effect more.
LEMMA GoesOnAs ==
    ASSUME IInv, NEW r \in Requests, Goes(r) \/ Skips(r)
    PROVE  \E y :
             /\ req' = [req EXCEPT ![r] = y]
             /\ y.at = req[r].at /\ y.op = req[r].op /\ y.status = req[r].status
             /\ y.todo = Tail(req[r].todo)
             /\ \/ y.wrote = req[r].wrote
                \/ handle /\ \E call \in Writes : y.wrote = req[r].wrote \cup {call}
<1>1. Calling(r)
  BY DEF Goes, Skips
<1>2. req[r] \in RequestType
  BY <1>1, CallFacts, InFlightFacts
<1>3. PICK todo : todo = Tail(req[r].todo)
  OBVIOUS
<1>4. CASE Goes(r)
  <2>1. PICK wrote : wrote = Wrote(r)
    OBVIOUS
  <2>2. PICK y : y = [req[r] EXCEPT !.todo = todo, !.wrote = wrote]
    OBVIOUS
  <2>3. req' = [req EXCEPT ![r] = y] /\ handle
    BY <1>3, <1>4, <2>1, <2>2 DEF Goes
  <2>4. /\ y.at = req[r].at /\ y.op = req[r].op /\ y.status = req[r].status
        /\ y.todo = todo /\ y.wrote = wrote
    BY <1>2, <2>2 DEF RequestType
  <2>5. \/ wrote = req[r].wrote
        \/ \E call \in Writes : wrote = req[r].wrote \cup {call}
    BY <2>1 DEF Wrote
  <2> QED
    BY <1>3, <2>3, <2>4, <2>5
<1>5. CASE Skips(r)
  <2>1. PICK y : y = [req[r] EXCEPT !.todo = todo]
    OBVIOUS
  <2>2. req' = [req EXCEPT ![r] = y]
    BY <1>3, <1>5, <2>1 DEF Skips
  <2>3. /\ y.at = req[r].at /\ y.op = req[r].op /\ y.status = req[r].status
        /\ y.todo = todo /\ y.wrote = req[r].wrote
    BY <1>2, <2>1 DEF RequestType
  <2> QED
    BY <1>3, <2>2, <2>3
<1> QED
  BY <1>4, <1>5

\* A request that waits for the database, or no longer does, is as it was.
LEMMA WaitsAs ==
    ASSUME IInv, NEW r \in Requests, Hangs(r) \/ Resumes(r)
    PROVE  \E y :
             /\ req' = [req EXCEPT ![r] = y]
             /\ y.at \in {"running", "hung"}
             /\ y.op = req[r].op /\ y.status = req[r].status
             /\ y.todo = req[r].todo /\ y.wrote = req[r].wrote
<1>1. InFlight(r)
  BY DEF Hangs, Resumes, Calling, Running, InFlight
<1>2. PICK at \in {"running", "hung"} :
          req' = [req EXCEPT ![r] = [req[r] EXCEPT !.at = at]]
  BY DEF Hangs, Resumes
<1>3. PICK y : y = [req[r] EXCEPT !.at = at]
  OBVIOUS
<1>4. /\ y.at = at /\ y.op = req[r].op /\ y.status = req[r].status
      /\ y.todo = req[r].todo /\ y.wrote = req[r].wrote
  BY <1>1, <1>3, InFlightFacts DEF RequestType
<1> QED
  BY <1>2, <1>3, <1>4

\* An answer, with the effects there were or one that came too late.
LEMMA TellsAs ==
    ASSUME IInv, NEW r \in Requests,
           Refuses(r) \/ Fails(r) \/ FailsLate(r) \/ Panics(r) \/ Finishes(r)
    PROVE  \E y :
             /\ req' = [req EXCEPT ![r] = y]
             /\ y.at = "answered" /\ y.op = req[r].op
             /\ \/ y.wrote = req[r].wrote
                \/ handle /\ \E call \in Writes : y.wrote = req[r].wrote \cup {call}
<1>1. InFlight(r)
  BY DEF Refuses, Fails, FailsLate, Panics, Finishes, Calling, Running, InFlight
<1>2. req[r] \in RequestType
  BY <1>1, InFlightFacts
<1>3. ASSUME NEW code, Answer(r, code)
      PROVE  \E y : /\ req' = [req EXCEPT ![r] = y]
                    /\ y.at = "answered" /\ y.op = req[r].op
                    /\ y.wrote = req[r].wrote
  <2>1. PICK s : s = Status(req[r].op, code)
    OBVIOUS
  <2>2. PICK y : y = [req[r] EXCEPT !.at = "answered", !.todo = <<>>, !.status = s]
    OBVIOUS
  <2>3. req' = [req EXCEPT ![r] = y]
    BY <1>3, <2>1, <2>2 DEF Answer
  <2>4. y.at = "answered" /\ y.wrote = req[r].wrote /\ y.op = req[r].op
    BY <1>2, <2>2 DEF RequestType
  <2> QED
    BY <2>3, <2>4
<1>4. CASE FailsLate(r)
  <2>1. PICK wrote : wrote = Wrote(r)
    OBVIOUS
  <2>2. PICK s : s = Status(req[r].op, IF Next1(r).swallow THEN OK ELSE Internal)
    OBVIOUS
  <2>3. PICK y : y = [req[r] EXCEPT !.at = "answered", !.todo = <<>>,
                                    !.wrote = wrote, !.status = s]
    OBVIOUS
  <2>4. req' = [req EXCEPT ![r] = y] /\ handle /\ Next1(r).call \in Writes
    BY <1>4, <2>1, <2>2, <2>3 DEF FailsLate
  <2>5. y.at = "answered" /\ y.wrote = wrote /\ y.op = req[r].op
    BY <1>2, <2>3 DEF RequestType
  <2>6. wrote = req[r].wrote \cup {Next1(r).call}
    BY <2>1, <2>4 DEF Wrote
  <2> QED
    BY <2>4, <2>5, <2>6
<1>5. ASSUME ~FailsLate(r)
      PROVE  \E code : Answer(r, code)
  BY <1>5 DEF Refuses, Fails, Panics, Finishes
<1> QED
  BY <1>3, <1>4, <1>5

-----------------------------------------------------------------------------
(* A process that is stopping.                                             *)

\* The listener is closed with the first step of stopping, and stays closed.
Closed == main = "stop" => serve # "open"

LEMMA InitClosed == Init => Closed
BY DEF Init, Closed

LEMMA ClosedStep == Closed /\ [Next]_vars => Closed'
<1> SUFFICES ASSUME Closed, [Next]_vars PROVE Closed'
  OBVIOUS
<1>1. CASE ProcessStep
  BY <1>1 DEF ProcessStep, Boot, Listen, ListenFails, Serve, ServeTooLate,
     ServeFails, Notify, Signal, BeginStop, Stopped, GraceOver, Crash, Toggle, Exit,
     Moves, Closed
<1>2. ASSUME NEW r \in Requests, RequestStep(r)
      PROVE  Closed'
  BY <1>2, RequestProcess DEF ProcessUnchanged, Closed
<1> QED
  BY <1>1, <1>2 DEF Next, vars, Closed

\* What a step of a request in flight leaves to do of it.
LEMMA LeftToDo ==
    ASSUME IInv, NEW r \in Requests, Proceeds(r) \/ Hangs(r) \/ Resumes(r)
    PROVE  /\ InFlight(r)
           /\ InFlight(r)' => Len(req'[r].todo) <= Len(req[r].todo)
<1>1. req \in [Requests -> RequestType]
  BY DEF IInv, Typed
<1>2. InFlight(r)
  BY DEF Proceeds, Goes, Skips, Refuses, Fails, FailsLate, Panics, Finishes,
         Calling, Running, Hangs, Resumes, InFlight
<1>3. req[r].todo \in Seq(Steps) /\ req[r] \in RequestType
  BY <1>2, InFlightFacts
<1>4. CASE Goes(r) \/ Skips(r)
  <2>1. req[r].todo # <<>>
    BY <1>4 DEF Goes, Skips, Calling
  <2>2. req'[r].todo = Tail(req[r].todo)
    BY <1>1, <1>4, GoesOnAs
  <2>3. Len(Tail(req[r].todo)) <= Len(req[r].todo)
    BY <1>3, <2>1
  <2> QED
    BY <1>2, <2>2, <2>3
<1>5. CASE Refuses(r) \/ Fails(r) \/ FailsLate(r) \/ Panics(r) \/ Finishes(r)
  <2>1. req'[r].at = "answered"
    BY <1>1, <1>5, TellsAs
  <2> QED
    BY <1>2, <2>1 DEF InFlight, At
<1>6. CASE Hangs(r) \/ Resumes(r)
  <2>1. req'[r].todo = req[r].todo
    BY <1>1, <1>6, WaitsAs
  <2>2. Len(req[r].todo) <= Len(req[r].todo)
    BY <1>3
  <2> QED
    BY <1>2, <2>1, <2>2
<1> QED
  BY <1>4, <1>5, <1>6 DEF Proceeds

\* A stopping process takes no request, and none it has grows.
LEMMA DrainStep ==
    ASSUME IInv, Closed, [Next]_vars, main = "stop", main' = "stop",
           NEW r \in Requests, InFlight(r)'
    PROVE  InFlight(r) /\ Len(req'[r].todo) <= Len(req[r].todo)
<1>1. req \in [Requests -> RequestType]
  BY DEF IInv, Typed
<1>2. CASE req'[r] = req[r]
  <2>1. InFlight(r)
    BY <1>2 DEF InFlight, At
  <2>2. req[r].todo \in Seq(Steps)
    BY <2>1, InFlightFacts
  <2>3. Len(req[r].todo) <= Len(req[r].todo)
    BY <2>2
  <2> QED
    BY <1>2, <2>1, <2>3
<1>3. CASE ProcessStep
  <2>1. req' = req
    BY <1>3 DEF ProcessStep, Boot, Listen, ListenFails, Serve, ServeTooLate,
       ServeFails, Notify, Signal, BeginStop, Stopped, GraceOver, Crash, Toggle,
       Exit, Moves
  <2> QED
    BY <1>2, <2>1
<1>4. ASSUME NEW q \in Requests, RequestStep(q)
      PROVE  InFlight(r) /\ Len(req'[r].todo) <= Len(req[r].todo)
  <2>1. ~Accept(q)
    BY DEF Accept, Closed
  <2>2. CASE q # r
    <3>1. req'[r] = req[r]
      BY <1>1, <1>4, <2>1, <2>2 DEF RequestStep, Proceeds, Goes, Skips, Refuses,
         Fails, FailsLate, Panics, Finishes, Hangs, Resumes, Forget, Answer
    <3> QED
      BY <1>2, <3>1
  <2>3. CASE q = r /\ Forget(q)
    <3>1. req'[r] = Idle
      BY <1>1, <2>3 DEF Forget
    <3> QED
      BY <3>1, IdleType DEF InFlight, At
  <2>4. CASE q = r /\ ~Forget(q)
    BY <1>4, <2>1, <2>4, LeftToDo DEF RequestStep
  <2> QED
    BY <2>2, <2>3, <2>4
<1> QED
  BY <1>2, <1>3, <1>4 DEF Next, vars

-----------------------------------------------------------------------------
(* What the clients see.                                                   *)

\* A step of one request is seen by its client alone.
LEMMA OneClient ==
    ASSUME IInv, NEW r \in Requests, NEW y, req' = [req EXCEPT ![r] = y]
    PROVE  /\ [q \in Requests |-> Seen(req[q])]' =
                [[q \in Requests |-> Seen(req[q])] EXCEPT ![r] = Seen(y)]
           /\ req'[r] = y
<1>1. req'[r] = y /\ \A q \in Requests : q # r => req'[q] = req[q]
  BY DEF IInv, Typed
<1>2. \A q \in Requests : Seen(req'[q]) = IF q = r THEN Seen(y) ELSE Seen(req[q])
  BY <1>1
<1> QED
  BY <1>1, <1>2

\* The fields of what is seen.
LEMMA SeenFields ==
    ASSUME NEW q
    PROVE  /\ Seen(q).op = q.op /\ Seen(q).stored = q.wrote
           /\ q.at \in {"running", "hung"} => Seen(q).at = "waiting" /\ Seen(q).told = ""
           /\ q.at = "answered" => Seen(q).at = "told" /\ Seen(q).told = Told(q.status)
BY DEF Seen

\* An idle request is a client that is away.
LEMMA SeenAway ==
    ASSUME NEW q, q.at = "idle", IdleFine(q)
    PROVE  Seen(q) = Promise!Away
BY DEF Seen, IdleFine, Promise!Away

\* The end of a process is the end of all its requests.
LEMMA ExitServes ==
    ASSUME IInv, NEW how \in {"ok", "error", "killed"}, Exit(how), main # "down",
           how = "ok" => main = "stop" /\ \A r \in Requests : ~InFlight(r)
    PROVE  Promise!Next
<1>1. \A q \in Requests : Seen(Idle) = Promise!Away
  BY DEF Seen, Idle, Promise!Away
<1>2. [q \in Requests |-> Seen(req[q])]' = [q \in Requests |-> Promise!Away]
  BY <1>1 DEF Exit
<1>3. ASSUME how = "ok", NEW c \in Requests
      PROVE  [q \in Requests |-> Seen(req[q])][c].at # "waiting"
  <2>1. req[c].at \in {"idle", "answered"}
    BY <1>3 DEF InFlight, At, IInv, Typed, RequestType
  <2> QED
    BY <2>1 DEF Seen
<1>4. Promise!End(how)
  BY <1>2, <1>3 DEF Exit, Promise!End, Promise!Waiting
<1> QED
  BY <1>4 DEF Promise!Next

\* The process: it starts, stops and ends as its clients are told.
LEMMA ProcessServes ==
    ASSUME IInv, ProcessStep
    PROVE  Promise!Next \/ UNCHANGED Promise!vars
<1>1. main \in MainStates /\ handle \in BOOLEAN /\ handle' \in BOOLEAN
  BY ProcessIInv DEF IInv, Typed, ProcessType
<1>2. ASSUME UNCHANGED <<exit, handle, req>>,
             main' = main \/ {main, main'} \cap {"down", "stop"} = {}
      PROVE  UNCHANGED Promise!vars
  BY <1>2 DEF Promise!vars
<1>3. CASE Boot
  <2>1. /\ main = "down" /\ main' \in {"listen", "notify"}
        /\ exit' = "none" /\ req' = req
    BY <1>3 DEF Boot, Moves
  <2>2. Promise!Start
    BY <1>1, <2>1 DEF Promise!Start
  <2> QED
    BY <2>2 DEF Promise!Next
<1>4. CASE BeginStop
  <2>1. main = "quit" /\ main' = "stop" /\ UNCHANGED <<exit, handle, req>>
    BY <1>4 DEF BeginStop, Moves
  <2>2. Promise!Stop
    BY <2>1 DEF Promise!Stop
  <2> QED
    BY <2>2 DEF Promise!Next
<1>5. CASE Listen \/ Serve \/ Notify \/ Toggle
  BY <1>2, <1>5 DEF Listen, Serve, Notify, Toggle, Moves
<1>6. CASE ServeTooLate
  BY <1>2, <1>6, ExitServes DEF ServeTooLate
<1>7. CASE Signal
  BY <1>2, <1>7, ExitServes DEF Signal, Moves
<1>8. CASE ListenFails \/ Crash
  BY <1>8, ExitServes DEF ListenFails, Crash
<1>9. CASE ServeFails
  <2>1. main # "down"
    BY <1>9 DEF ServeFails, IInv, Phases
  <2> QED
    BY <1>9, <2>1, ExitServes DEF ServeFails
<1>10. CASE Stopped
  BY <1>10, ExitServes DEF Stopped
<1>11. CASE GraceOver
  BY <1>11, ExitServes DEF GraceOver
<1> QED
  BY <1>3, <1>4, <1>5, <1>6, <1>7, <1>8, <1>9, <1>10, <1>11 DEF ProcessStep

\* A request that comes in is asked of a process that is not being stopped.
LEMMA AcceptServes ==
    ASSUME IInv, Closed, NEW r \in Requests, Accept(r)
    PROVE  Promise!Next
<1>0. PICK op \in HttpRoutes :
        \E todo : req' = [req EXCEPT ![r] = [Idle EXCEPT !.at = "running", !.op = op,
                                                        !.todo = todo]]
  BY DEF Accept, GrpcMethods, HttpRoutes
<1>1. PICK todo : req' = [req EXCEPT ![r] = [Idle EXCEPT !.at = "running", !.op = op,
                                                        !.todo = todo]]
  BY <1>0
<1>2. PICK y : y = [Idle EXCEPT !.at = "running", !.op = op, !.todo = todo]
  OBVIOUS
<1>3. Seen(y) = Promise!Waits(op, {})
  <2>1. y.at = "running" /\ y.op = op /\ y.wrote = {}
    BY <1>2 DEF Idle
  <2> QED
    BY <2>1 DEF Seen, Promise!Waits
<1>4. /\ serve = "open" /\ main # "stop" /\ main # "down" /\ req[r].at = "idle"
      /\ ProcessUnchanged
  BY DEF Accept, At, Closed, IInv, Phases
<1>5. Seen(req[r]) = Promise!Away
  BY <1>4, SeenAway DEF IInv, Fine
<1>6. [q \in Requests |-> Seen(req[q])]' =
        [[q \in Requests |-> Seen(req[q])] EXCEPT ![r] = Promise!Waits(op, {})]
  BY <1>1, <1>2, <1>3, OneClient
<1>7. Promise!Ask(r, op)
  BY <1>4, <1>5, <1>6 DEF Promise!Ask, ProcessUnchanged
<1> QED
  BY <1>7 DEF Promise!Next

\* A client that goes on waiting, while at most one effect is stored.
LEMMA GoesOnServes ==
    ASSUME IInv, NEW r \in Requests, InFlight(r), ProcessUnchanged,
           NEW y, req' = [req EXCEPT ![r] = y],
           y.at \in {"running", "hung"}, y.op = req[r].op,
           \/ y.wrote = req[r].wrote
           \/ handle /\ \E call \in Writes : y.wrote = req[r].wrote \cup {call}
    PROVE  Promise!Next \/ UNCHANGED Promise!vars
<1> DEFINE client == [q \in Requests |-> Seen(req[q])]
<1>1. client' = [client EXCEPT ![r] = Seen(y)]
  BY OneClient
<1>2. req[r].at \in {"running", "hung"}
  BY DEF InFlight, At
<1>3. client[r].at = "waiting" /\ client[r] = Seen(req[r])
  BY <1>2, SeenFields
<1>4. CASE y.wrote = req[r].wrote
  <2>1. Seen(y) = Seen(req[r])
    BY <1>2, <1>4 DEF Seen
  <2>2. client' = client
    BY <1>1, <1>3, <2>1
  <2> QED
    BY <2>2 DEF ProcessUnchanged, Promise!vars
<1>5. ASSUME handle, NEW call \in Writes, y.wrote = req[r].wrote \cup {call}
      PROVE  Promise!Next
  <2>1. client[r].op = req[r].op /\ client[r].stored = req[r].wrote
    BY <1>3, SeenFields
  <2>2. Seen(y) = Promise!Waits(client[r].op, client[r].stored \cup {call})
    BY <1>5, <2>1 DEF Seen, Promise!Waits
  <2>3. Promise!Store(r, call)
    BY <1>1, <1>3, <1>5, <2>2 DEF Promise!Store, Promise!Waiting, ProcessUnchanged
  <2> QED
    BY <2>3 DEF Promise!Next
<1> QED
  BY <1>4, <1>5

\* A client that is told something: the invariant of the next state says what.
LEMMA TellsServes ==
    ASSUME IInv, IInv', NEW r \in Requests, InFlight(r), ProcessUnchanged,
           NEW y, req' = [req EXCEPT ![r] = y],
           y.at = "answered", y.op = req[r].op,
           \/ y.wrote = req[r].wrote
           \/ handle /\ \E call \in Writes : y.wrote = req[r].wrote \cup {call}
    PROVE  Promise!Next
<1> DEFINE client == [q \in Requests |-> Seen(req[q])]
<1>1. client' = [client EXCEPT ![r] = Seen(y)] /\ req'[r] = y
  BY OneClient
<1>2. req[r].at \in {"running", "hung"} /\ req[r].op \in HttpRoutes
  BY InFlightFacts DEF InFlight, At
<1>3. client[r] = Seen(req[r]) /\ client[r].at = "waiting"
  BY <1>2, SeenFields
<1>4. handle' = handle /\ AnswerFine(y, handle)
  BY <1>1 DEF ProcessUnchanged, IInv, Fine
<1>5. PICK told \in {"done", "refused", "unavailable", "broken"} :
        /\ told = Told(y.status)
        /\ told = "done" => y.status \in Done
        /\ told = "refused" => y.status \in Refused
        /\ told = "unavailable" => y.status \in NoDb
  BY DEF Told
<1>6. PICK stored : stored = y.wrote
  OBVIOUS
<1>7. /\ stored # client[r].stored => handle
      /\ told = "refused" => stored = {}
      /\ told = "done" =>
           /\ Promised(req[r].op) \subseteq stored
           /\ handle \/ req[r].op \in Unhandled
      /\ told = "unavailable" => ~handle /\ stored = {}
  <2>1. client[r].stored = req[r].wrote
    BY <1>3, SeenFields
  <2>2. y.status \in Done => y.status \notin NoDb \cup Refused \cup Broken
    BY DEF Done, NoDb, Refused, Broken
  <2> QED
    BY <1>4, <1>5, <1>6, <2>1, <2>2 DEF AnswerFine
<1>8. Seen(y) = [at |-> "told", op |-> client[r].op, stored |-> stored, told |-> told]
  <2>1. client[r].op = req[r].op
    BY <1>3, SeenFields
  <2> QED
    BY <1>5, <1>6, <2>1 DEF Seen
<1>9. client' = [client EXCEPT ![r] = [at |-> "told", op |-> @.op,
                                       stored |-> stored, told |-> told]]
  BY <1>1, <1>8
<1>10. stored \in Promise!Grown(r)
  <2>1. client[r].stored = req[r].wrote
    BY <1>3, SeenFields
  <2> QED
    BY <1>6, <2>1 DEF Promise!Grown
<1>11. client[r].op = req[r].op
  BY <1>3, SeenFields
<1>12. Promise!Tell(r, told, stored)
  BY <1>2, <1>3, <1>7, <1>9, <1>11 DEF Promise!Tell, Promise!Waiting, ProcessUnchanged
<1> QED
  BY <1>10, <1>12 DEF Promise!Next

\* A client that has its answer leaves.
LEMMA ForgetServes ==
    ASSUME IInv, NEW r \in Requests, Forget(r)
    PROVE  Promise!Next
<1> DEFINE client == [q \in Requests |-> Seen(req[q])]
<1>1. req[r].at = "answered" /\ req' = [req EXCEPT ![r] = Idle] /\ ProcessUnchanged
  BY DEF Forget, At
<1>2. Seen(Idle) = Promise!Away
  BY IdleType, SeenAway DEF Fine
<1>3. client' = [client EXCEPT ![r] = Promise!Away]
  BY <1>1, <1>2, OneClient
<1>4. client[r].at = "told"
  BY <1>1, SeenFields
<1>5. Promise!Leave(r)
  BY <1>1, <1>3, <1>4 DEF Promise!Leave, ProcessUnchanged
<1> QED
  BY <1>5 DEF Promise!Next

\* Every step of a process is one its clients may see, or none.
LEMMA StepServes == IInv /\ Closed /\ [Next]_vars => [Promise!Next]_(Promise!vars)
<1> SUFFICES ASSUME IInv, Closed, [Next]_vars
             PROVE  Promise!Next \/ UNCHANGED Promise!vars
  OBVIOUS
<1>1. CASE ProcessStep
  BY <1>1, ProcessServes
<1>2. ASSUME NEW r \in Requests, RequestStep(r)
      PROVE  Promise!Next \/ UNCHANGED Promise!vars
  <2>1. ProcessUnchanged /\ IInv'
    BY <1>2, RequestProcess, NextIInv DEF Next
  <2>2. CASE Goes(r) \/ Skips(r)
    <3>1. InFlight(r)
      BY <2>2, CallFacts DEF Goes, Skips
    <3>2. req[r].at \in {"running", "hung"}
      BY <3>1 DEF InFlight, At
    <3> QED
      BY <2>1, <2>2, <3>1, <3>2, GoesOnAs, GoesOnServes
  <2>3. CASE Hangs(r) \/ Resumes(r)
    <3>1. InFlight(r)
      BY <2>3, LeftToDo
    <3> QED
      BY <2>1, <2>3, <3>1, WaitsAs, GoesOnServes
  <2>4. CASE Refuses(r) \/ Fails(r) \/ FailsLate(r) \/ Panics(r) \/ Finishes(r)
    <3>1. InFlight(r)
      BY <2>4, LeftToDo DEF Proceeds
    <3> QED
      BY <2>1, <2>4, <3>1, TellsAs, TellsServes
  <2> QED
    BY <1>2, <2>2, <2>3, <2>4, AcceptServes, ForgetServes DEF RequestStep, Proceeds
<1>3. CASE UNCHANGED vars
  BY <1>3 DEF vars, Promise!vars
<1> QED
  BY <1>1, <1>2, <1>3 DEF Next

\* At first there is no process, and nobody asks.
LEMMA InitServes == Init => Promise!Init
<1>1. Seen(Idle) = Promise!Away
  BY IdleType, SeenAway DEF Fine
<1> QED
  BY <1>1 DEF Init, Promise!Init

-----------------------------------------------------------------------------
(* Theorems.                                                               *)

\* The invariant holds in every behaviour.
LEMMA AlwaysIInv == Spec => []IInv
BY InitIInv, NextIInv, PTL DEF Spec

\* Its types are those the run checks.
LEMMA IInvTypeOK == IInv => TypeOK
<1> SUFFICES ASSUME IInv PROVE TypeOK
  OBVIOUS
<1>1. ProcessType
  BY DEF IInv, Typed
<1>2. ASSUME NEW r \in Requests
      PROVE  /\ req[r].at \in {"idle", "running", "hung", "answered"}
             /\ req[r].wrote \subseteq Writes
             /\ At(r, "answered") => req[r].status \in Statuses
  <2>1. req[r] \in RequestType /\ AnswerFine(req[r], handle)
    BY DEF IInv, Typed, Fine
  <2> QED
    BY <2>1 DEF RequestType, AnswerFine, At
<1> QED
  BY <1>1, <1>2 DEF TypeOK, ProcessType

\* Only what is answered has a status.
LEMMA AnsweredOnly ==
    ASSUME IInv, NEW r \in Requests, req[r].status \in Statuses
    PROVE  req[r].at = "answered" /\ AnswerFine(req[r], handle)
<1>1. /\ req[r] \in RequestType /\ IdleFine(req[r]) /\ PlanFine(req[r], handle)
      /\ AnswerFine(req[r], handle)
  BY DEF IInv, Typed, Fine
<1> QED
  BY <1>1, StatusesApart DEF RequestType, IdleFine, PlanFine

\* The process, its requests and their answers have the values their code gives
\* them: nothing else is ever sent to a client.
THEOREM TypeCorrect == Spec => []TypeOK
BY AlwaysIInv, IInvTypeOK, PTL

\* A client that is told 404 or 422 finds the database as it was.
THEOREM RefusalsWriteNothing == Spec => []RefusedWroteNothing
<1>1. IInv => RefusedWroteNothing
  BY AnsweredOnly DEF RefusedWroteNothing, AnswerFine, Statuses
<1> QED
  BY <1>1, AlwaysIInv, PTL

\* A client that is told 200, 201 or OK finds what it asked for, whatever failed.
THEOREM SuccessWroteAll == Spec => []DoneWroteAll
<1>1. IInv => DoneWroteAll
  BY AnsweredOnly DEF DoneWroteAll, AnswerFine, Statuses
<1> QED
  BY <1>1, AlwaysIInv, PTL

\* The exit code 0 is that of a process that left no request behind.
THEOREM CleanExits == Spec => CleanExitAnswersAll
<1>1. ASSUME IInv, [Next]_vars, main # "down", exit' = "ok"
      PROVE  (\A r \in Requests : ~InFlight(r)) \/ UNCHANGED vars
  <2>1. exit # "ok"
    BY <1>1 DEF IInv, Phases
  <2>2. CASE Stopped
    BY <2>2 DEF Stopped
  <2>3. CASE ProcessStep /\ ~Stopped
    BY <1>1, <2>1, <2>3 DEF ProcessStep, Boot, Listen, ListenFails, Serve,
       ServeTooLate, ServeFails, Notify, Signal, BeginStop, GraceOver, Crash, Toggle,
       Exit, Moves
  <2>4. CASE \E r \in Requests : RequestStep(r)
    <3>1. ProcessUnchanged
      BY <2>4, RequestProcess
    <3> QED
      BY <1>1, <2>1, <3>1 DEF ProcessUnchanged
  <2> QED
    BY <1>1, <2>2, <2>3, <2>4 DEF Next
<1>2. IInv /\ [Next]_vars =>
         [main # "down" /\ exit' = "ok" => \A r \in Requests : ~InFlight(r)]_vars
  BY <1>1
<1> QED
  BY <1>2, AlwaysIInv, PTL DEF Spec, CleanExitAnswersAll

\* Shutdown and GracefulStop only work off what there is: neither a late client
\* nor a request that hangs and goes on gives a stopping process more to do.
THEOREM StoppingOnlyDrains == Spec => StoppingDrains
<1>1. IInv /\ Closed /\ [Next]_vars =>
        [main = "stop" /\ main' = "stop" =>
           \A r \in Requests : InFlight(r)' =>
               InFlight(r) /\ Len(req'[r].todo) <= Len(req[r].todo)]_vars
  BY DrainStep
<1> QED
  BY <1>1, AlwaysIInv, InitClosed, ClosedStep, PTL DEF Spec, StoppingDrains

\* Over either transport, with whatever database, failures, panics and signals:
\* what a process tells its clients, and the exit code it leaves, agree with
\* what it stored for them.
THEOREM ProcessImplementsServing == Spec => ImplementsServing
BY AlwaysIInv, InitClosed, ClosedStep, InitServes, StepServes, PTL
   DEF Spec, ImplementsServing, Promise!Spec
=============================================================================
