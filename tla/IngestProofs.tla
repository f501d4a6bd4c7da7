---------------------------- MODULE IngestProofs ----------------------------
(***************************************************************************)
(* Proofs about Ingest, for any numbers of workers, processes, stores,     *)
(* batches and items, with and without unique keys and faults.             *)
(*                                                                         *)
(* The invariants the runs check are not inductive: they say nothing of an *)
(* import on its way.  WorkerInv adds what an import has already secured   *)
(* when it stands at a given statement.  It survives the other imports     *)
(* because what it speaks of only ever grows (Grows).                      *)
(*                                                                         *)
(* A running batch is held by an import at its mark, or has no summary yet *)
(* for others to collide with (HandedOn).                                  *)
(***************************************************************************)
EXTENDS Ingest, SequenceTheorems, TLAPS

Located    == Steps \ {"idle", "select", "insert"}
Stored     == Located \ {"replace"}
Summarised == {"mark"} \cup MapReads \cup MemorySteps
Marked     == MapReads \cup MemorySteps

\* What the import of w has secured at its statement.
WorkerInv(w) ==
    /\ pc[w] # "idle" => job[w].kompetitor \in Kompetitors /\ job[w].titles # {}
    /\ pc[w] \in Located => job[w].batch \in BatchIds
    /\ pc[w] \in Stored => HasRows(job[w].batch, job[w].kompetitor)
    /\ pc[w] \in {"lookup", "write"} =>
         /\ job[w].sums[job[w].kompetitor] # 0
         /\ \A k \in Kompetitors : job[w].sums[k] # 0 =>
              /\ HasRows(job[w].batch, k)
              /\ job[w].sums[k] <= products[job[w].batch][k].version
    /\ pc[w] = "write" =>
         \A k \in job[w].known : summaries[job[w].batch][k] # <<>>
    /\ pc[w] \in Summarised => summaries[job[w].batch][job[w].kompetitor] # <<>>
    /\ pc[w] \in Marked => batches[job[w].batch].status = "completed"

\* Rows have a version: they were inserted by some ReplaceProducts.
Versioned ==
    \A b \in BatchIds, k \in Kompetitors :
        HasRows(b, k) => products[b][k].version # 0

IInv ==
    /\ TypeOK
    /\ \A w \in Workers : WorkerInv(w)
    /\ Versioned
    /\ SummaryFromStored
    /\ AckedDurable

\* Nothing a store has in a batch is lost by a step.
Grows ==
    \A b \in BatchIds :
        /\ batches[b].status = "completed" => batches'[b].status = "completed"
        /\ \A k \in Kompetitors :
             /\ HasRows(b, k) => HasRows(b, k)'
             /\ products[b][k].version <= products'[b][k].version
             /\ summaries[b][k] # <<>> => summaries'[b][k] # <<>>

-----------------------------------------------------------------------------
(* The data.                                                               *)

\* Saving over the first summary row keeps the other rows and their number.
LEMMA FirstReplaced ==
    ASSUME NEW s \in Seq(Nat), s # <<>>, NEW n \in Nat
    PROVE  /\ [s EXCEPT ![1] = n] \in Seq(Nat)
           /\ Len([s EXCEPT ![1] = n]) = Len(s)
           /\ \A i \in 1..Len(s) : [s EXCEPT ![1] = n][i] \in {n, s[i]}
<1>1. 1 \in 1..Len(s)
  BY EmptySeq
<1> QED
  BY <1>1, ExceptSeq

\* Adding a summary row keeps the others.
LEMMA RowAdded ==
    ASSUME NEW s \in Seq(Nat), NEW n \in Nat
    PROVE  /\ Append(s, n) \in Seq(Nat)
           /\ Append(s, n) # <<>>
           /\ \A i \in 1..Len(Append(s, n)) :
                \/ Append(s, n)[i] = n
                \/ i \in 1..Len(s) /\ Append(s, n)[i] = s[i]
<1>1. Append(s, n) \in Seq(Nat) /\ Append(s, n) # <<>>
  BY AppendProperties
<1>2. Len(Append(s, n)) = Len(s) + 1 /\ Len(s) \in Nat
  BY AppendProperties, LenProperties
<1>3. ASSUME NEW i \in 1..Len(s)
      PROVE  Append(s, n)[i] = s[i]
  BY AppendProperties
<1>4. Append(s, n)[Len(s) + 1] = n
  BY AppendProperties
<1> QED
  BY <1>1, <1>2, <1>3, <1>4

\* A request without locals is well typed.
LEMMA NoJobType == NoJob \in Jobs
BY DEF NoJob, Jobs, NoRows, Loads, NoCorpus, Corpora

\* The aggregates of a batch are numbers.
LEMMA AggregatesType ==
    ASSUME TypeOK, NEW b \in BatchIds
    PROVE  Aggregates(b) \in [Kompetitors -> Nat]
BY DEF TypeOK, Aggregates, Loads

\* The names read for an IDF are titles.
LEMMA NamesType ==
    ASSUME TypeOK, NEW key \in Keys
    PROVE  Names(key) \in Corpora
BY DEF TypeOK, Names, Keys, Loads, Corpora

\* The stores allowed for an item are registered stores.
LEMMA AllowedType ==
    ASSUME TypeOK
    PROVE  /\ Allowed \in [Items -> SUBSET Kompetitors]
           /\ Mappable \in SUBSET Items
BY IngestAssumption DEF TypeOK, Allowed, Mappable

\* ComputeMatches yields rows of scraping_product_mappings.
LEMMA MatchesType ==
    ASSUME NEW items \in SUBSET Items, NEW rows \in [Kompetitors -> Loads],
           NEW allowed \in [Items -> SUBSET Kompetitors], NEW corpus
    PROVE  ComputeMatches(items, rows, allowed, corpus) \in SUBSET Match
BY DEF ComputeMatches, Match, Loads

\* What a worker writes for a store is a sequence of the versions that were
\* there and the one it aggregated; it is empty only if the store was not
\* aggregated and had no row.
LEMMA WrittenType ==
    ASSUME TypeOK, NEW w \in Workers, NEW k \in Kompetitors,
           job[w].batch \in BatchIds, WorkerInv(w), pc[w] = "write",
           NEW old, old = summaries[job[w].batch][k],
           NEW new, new = WrittenSummary(w, k),
           NEW n, n = job[w].sums[k]
    PROVE  /\ new \in Seq(Nat)
           /\ new = <<>> => old = <<>> /\ n = 0
           /\ \A i \in 1..Len(new) :
                \/ n # 0 /\ new[i] = n
                \/ i \in 1..Len(old) /\ new[i] = old[i]
<1>1. old \in Seq(Nat) /\ n \in Nat
  BY DEF TypeOK, Jobs
<1>2. CASE n = 0
  <2>1. new = old
    BY <1>2 DEF WrittenSummary
  <2> QED
    BY <1>1, <1>2, <2>1
<1>3. CASE n # 0 /\ k \in job[w].known
  <2>1. old # <<>>
    BY <1>3 DEF WorkerInv
  <2>2. new = [old EXCEPT ![1] = n]
    BY <1>3 DEF WrittenSummary
  <2>3. Len(new) = Len(old) /\ Len(old) # 0
    BY <1>1, <2>1, <2>2, FirstReplaced, EmptySeq
  <2> QED
    BY <1>1, <1>3, <2>1, <2>2, <2>3, FirstReplaced, EmptySeq
<1>4. CASE n # 0 /\ k \notin job[w].known
  <2>1. new = Append(old, n)
    BY <1>4 DEF WrittenSummary
  <2>2. /\ Append(old, n) \in Seq(Nat) /\ Append(old, n) # <<>>
        /\ \A i \in 1..Len(Append(old, n)) :
             \/ Append(old, n)[i] = n
             \/ i \in 1..Len(old) /\ Append(old, n)[i] = old[i]
    BY <1>1, RowAdded, Zenon
  <2>3. /\ new \in Seq(Nat) /\ new # <<>>
        /\ \A i \in 1..Len(new) :
             \/ new[i] = n
             \/ i \in 1..Len(old) /\ new[i] = old[i]
    BY <2>1, <2>2, Zenon
  <2>4. \A i \in 1..Len(new) :
           \/ n # 0 /\ new[i] = n
           \/ i \in 1..Len(old) /\ new[i] = old[i]
    BY <1>4, <2>3, Zenon
  <2> QED
    BY <2>3, <2>4, Zenon
<1> QED
  BY <1>2, <1>3, <1>4, Zenon

-----------------------------------------------------------------------------
(* Types.                                                                  *)

\* A request's locals stay typed when one of them is assigned.
LEMMA JobUpdates ==
    ASSUME NEW j \in Jobs
    PROVE  /\ \A x \in BatchIds : [j EXCEPT !.batch = x] \in Jobs
           /\ \A x \in [Kompetitors -> Nat] : [j EXCEPT !.sums = x] \in Jobs
           /\ \A x \in SUBSET Kompetitors : [j EXCEPT !.known = x] \in Jobs
           /\ \A x \in [Kompetitors -> Loads] : [j EXCEPT !.rows = x] \in Jobs
           /\ \A x \in SUBSET Items : [j EXCEPT !.items = x] \in Jobs
           /\ \A x \in Corpora : [j EXCEPT !.corpus = x] \in Jobs
           /\ \A x \in [Items -> SUBSET Kompetitors] :
                [j EXCEPT !.allowed = x] \in Jobs
BY DEF Jobs

\* The locals of all workers stay typed when those of one are assigned.
LEMMA JobType ==
    ASSUME TypeOK, NEW w \in Workers, NEW j \in Jobs
    PROVE  [job EXCEPT ![w] = j] \in [Workers -> Jobs]
BY DEF TypeOK

\* The initial state satisfies the inductive invariant.
LEMMA InitIInv == Init => IInv
<1> SUFFICES ASSUME Init PROVE IInv
  OBVIOUS
<1>1. TypeOK
  BY NoJobType, EmptySeq
     DEF Init, TypeOK, NoRows, Loads, NoCorpus, Corpora, Steps
<1>2. \A w \in Workers : WorkerInv(w)
  BY DEF Init, WorkerInv, Located, Stored, Summarised, Marked, MapReads,
         MemorySteps
<1>3. Versioned /\ SummaryFromStored /\ AckedDurable
  BY EmptySeq DEF Init, Versioned, SummaryFromStored, AckedDurable, HasRows, NoRows
<1> QED
  BY <1>1, <1>2, <1>3 DEF IInv

\* Ending requests keeps the workers' variables typed.
LEMMA LeaveType ==
    ASSUME TypeOK, NEW W \in SUBSET Workers, Leave(W)
    PROVE  pc' \in [Workers -> Steps] /\ job' \in [Workers -> Jobs]
BY NoJobType DEF TypeOK, Leave, Steps

\* So does answering, if the batch is known.
LEMMA AnswerType ==
    ASSUME TypeOK, NEW w \in Workers, NEW mapped \in BOOLEAN,
           job[w].batch \in BatchIds, job[w].kompetitor \in Kompetitors,
           AnswerOk(w, mapped)
    PROVE  /\ pc' \in [Workers -> Steps] /\ job' \in [Workers -> Jobs]
           /\ requests' \in Nat /\ edits' \in Nat
           /\ acked' \subseteq BatchIds \X Kompetitors
           /\ clean' \subseteq Workers /\ settled' \subseteq BatchIds
<1>1. pc' \in [Workers -> Steps] /\ job' \in [Workers -> Jobs]
  BY LeaveType DEF AnswerOk
<1> QED
  BY <1>1 DEF AnswerOk, TypeOK

\* Every step keeps every variable in its type.
LEMMA TypeStep ==
    ASSUME IInv, [Next]_vars
    PROVE  TypeOK'
<1> USE DEF IInv
<1>1. ASSUME NEW w \in Workers, Begin(w)
      PROVE  TypeOK'
  <2> PICK k \in Kompetitors, c \in Codes, rows \in Uploads :
        /\ Goto(w, "select")
        /\ job' = [job EXCEPT ![w] = [NoJob EXCEPT !.kompetitor = k, !.code = c,
                                                   !.titles = Normalized(rows)]]
    BY <1>1 DEF Begin
  <2>1. Normalized(rows) \subseteq Items \cup {OtherTitle}
    BY IngestAssumption DEF Normalized
  <2>2. job' \in [Workers -> Jobs]
    BY <2>1, NoJobType DEF TypeOK, Jobs, NoJob
  <2>3. clean' \subseteq Workers
    BY <1>1 DEF Begin, TypeOK
  <2> QED
    BY <1>1, <2>2, <2>3 DEF Begin, TypeOK, Goto, Steps, ImportSteps, tables
<1>0. \A w \in Workers : job[w] \in Jobs
  BY DEF TypeOK
<1>2. ASSUME NEW w \in Workers, FindBatch(w)
      PROVE  TypeOK'
  <2>1. job' = job => job' \in [Workers -> Jobs]
    BY DEF TypeOK
  <2>2. ASSUME NEW b \in BatchIds, job' = [job EXCEPT ![w].batch = b]
        PROVE  job' \in [Workers -> Jobs]
    BY <1>0, <2>2, JobUpdates, JobType
  <2>3. job' \in [Workers -> Jobs]
    BY <1>2, <2>1, <2>2 DEF FindBatch, TypeOK
  <2> QED
    BY <1>2, <2>3 DEF FindBatch, TypeOK, Goto, Steps, ImportSteps, tables, history
<1>3. ASSUME NEW w \in Workers, CreateBatch(w)
      PROVE  TypeOK'
  <2>1. job[w].code \in Codes \cup {None}
    BY DEF TypeOK, Jobs
  <2>2. PICK b \in BatchIds :
          /\ batches' = [batches EXCEPT ![b] = [code |-> job[w].code,
                                               status |-> "running"]]
          /\ job' = [job EXCEPT ![w].batch = b]
    BY <1>3 DEF CreateBatch
  <2>3. job' \in [Workers -> Jobs]
    BY <2>2, <1>0, JobUpdates, JobType
  <2> QED
    BY <1>3, <2>1, <2>2, <2>3
       DEF CreateBatch, TypeOK, Goto, Steps, ImportSteps, history
<1>4. ASSUME NEW w \in Workers, ReplaceProducts(w)
      PROVE  TypeOK'
  <2>1. job[w].titles \in SUBSET (Items \cup {OtherTitle})
    BY DEF TypeOK, Jobs
  <2>2. ASSUME NEW b \in BatchIds, NEW k \in Kompetitors
        PROVE  [version |-> products[b][k].version + 1, titles |-> job[w].titles]
                 \in Loads
    BY <2>1 DEF TypeOK, Loads
  <2>3. products' \in [BatchIds -> [Kompetitors -> Loads]]
    BY <1>4, <2>2 DEF ReplaceProducts, TypeOK
  <2> QED
    BY <1>4, <2>3 DEF ReplaceProducts, TypeOK, Goto, Steps, ImportSteps, history
<1>5. ASSUME NEW w \in Workers, AggregateProducts(w)
      PROVE  TypeOK'
  <2>1. job[w].batch \in BatchIds
    BY <1>5 DEF AggregateProducts, At, WorkerInv, Located, Steps, ImportSteps
  <2> QED
    <3>1. job' \in [Workers -> Jobs]
      BY <1>5, <1>0, <2>1, AggregatesType, JobUpdates, JobType
         DEF AggregateProducts
    <3> QED
      BY <1>5, <3>1
         DEF AggregateProducts, TypeOK, Goto, Steps, ImportSteps, tables, history
<1>6. ASSUME NEW w \in Workers, FindSummaries(w)
      PROVE  TypeOK'
  <2>1. job' \in [Workers -> Jobs]
    BY <1>6, <1>0, JobUpdates, JobType DEF FindSummaries
  <2> QED
    BY <1>6, <2>1
       DEF FindSummaries, TypeOK, Goto, Steps, ImportSteps, tables, history
<1>7. ASSUME NEW w \in Workers, WriteSummaries(w)
      PROVE  TypeOK'
  <2>1. job[w].batch \in BatchIds
    BY <1>7 DEF WriteSummaries, At, WorkerInv, Located, Steps, ImportSteps
  <2>2. \A k \in Kompetitors : WrittenSummary(w, k) \in Seq(Nat)
    BY <1>7, <2>1, WrittenType DEF WriteSummaries, At
  <2> QED
    BY <1>7, <2>2 DEF WriteSummaries, TypeOK, Goto, Steps, ImportSteps, history
<1>8. ASSUME NEW w \in Workers, MarkCompleted(w)
      PROVE  TypeOK'
  BY <1>8 DEF MarkCompleted, TypeOK, Goto, Steps, MapReads, history
<1>9. ASSUME NEW w \in Workers, StatementFails(w)
      PROVE  TypeOK'
  BY <1>9, LeaveType DEF StatementFails, AnswerError, TypeOK, tables
<1>10. ASSUME NEW w \in Workers, pc[w] \in Marked, NEW mapped \in BOOLEAN,
              AnswerOk(w, mapped), UNCHANGED <<tables, cache>>
       PROVE  TypeOK'
  <2>1. job[w].batch \in BatchIds /\ job[w].kompetitor \in Kompetitors
    BY <1>10 DEF WorkerInv, Located, Marked, Steps, ImportSteps, MapReads, MemorySteps
  <2> QED
    BY <1>10, <2>1, AnswerType DEF TypeOK, tables
<1>11. ASSUME NEW w \in Workers, ReadProducts(w)
       PROVE  TypeOK'
  <2>1. job[w].batch \in BatchIds /\ pc[w] \in Marked
    BY <1>11 DEF ReadProducts, At, WorkerInv, Located, Marked, Steps, ImportSteps,
                 MapReads
  <2>2. CASE AnswerOk(w, TRUE)
    BY <1>11, <1>10, <2>1, <2>2 DEF ReadProducts
  <2>3. CASE job' = [job EXCEPT ![w].rows = products[job[w].batch]]
             /\ Goto(w, "mapItems") /\ UNCHANGED history
    <3>1. products[job[w].batch] \in [Kompetitors -> Loads]
      BY <2>1 DEF TypeOK
    <3>2. job' \in [Workers -> Jobs]
      BY <1>0, <2>3, <3>1, JobUpdates, JobType
    <3> QED
      BY <1>11, <2>3, <3>2
         DEF ReadProducts, TypeOK, Goto, Steps, MapReads, tables, history
  <2> QED
    BY <1>11, <2>2, <2>3 DEF ReadProducts
<1>12. ASSUME NEW w \in Workers, ReadItems(w)
       PROVE  TypeOK'
  <2>1. CASE AnswerOk(w, TRUE)
    BY <1>12, <1>10, <2>1 DEF ReadItems, At, Marked, MapReads
  <2>2. CASE job' = [job EXCEPT ![w].items = Mappable]
             /\ Goto(w, "forget") /\ UNCHANGED history
    <3>1. job' \in [Workers -> Jobs]
      BY <1>0, <2>2, AllowedType, JobUpdates, JobType
    <3> QED
      BY <1>12, <2>2, <3>1
         DEF ReadItems, TypeOK, Goto, Steps, MemorySteps, tables, history
  <2> QED
    BY <1>12, <2>1, <2>2 DEF ReadItems
<1>13. ASSUME NEW w \in Workers, ForgetIdf(w)
       PROVE  TypeOK'
  BY <1>13 DEF ForgetIdf, TypeOK, Goto, Steps, MemorySteps, tables, history,
               NoCorpus, Corpora
<1>14. ASSUME NEW w \in Workers, GetIdf(w)
       PROVE  TypeOK'
  <2>1. ProcOf[w] \in Procs /\ {job[w].batch} \in Keys
    BY <1>14, IngestAssumption
       DEF GetIdf, At, WorkerInv, Located, Steps, ImportSteps, MemorySteps, Keys
  <2>2. cache[ProcOf[w]][{job[w].batch}] \in Corpora
    BY <2>1 DEF TypeOK
  <2>3. job' \in [Workers -> Jobs]
    BY <1>14, <1>0, <2>2, JobUpdates, JobType DEF GetIdf
  <2> QED
    BY <1>14, <2>3 DEF GetIdf, TypeOK, Goto, Steps, MapReads, tables, history
<1>15. ASSUME NEW w \in Workers, ReadNames(w)
       PROVE  TypeOK'
  <2>1. {job[w].batch} \in Keys
    BY <1>15 DEF ReadNames, At, WorkerInv, Located, Steps, ImportSteps, MapReads,
                 Keys
  <2> QED
    <3>1. Names({job[w].batch}) \in Corpora
      BY <2>1, NamesType
    <3>2. job' \in [Workers -> Jobs]
      BY <1>15, <1>0, <3>1, JobUpdates, JobType DEF ReadNames
    <3> QED
      BY <1>15, <3>2 DEF ReadNames, TypeOK, Goto, Steps, MapReads, tables, history
<1>16. ASSUME NEW w \in Workers, ReadItemNames(w)
       PROVE  TypeOK'
  <2>1. job[w].corpus \cup Mappable \in Corpora
    BY <1>0, AllowedType DEF Jobs, Corpora
  <2>2. job' \in [Workers -> Jobs]
    BY <1>16, <1>0, <2>1, JobUpdates, JobType DEF ReadItemNames
  <2> QED
    BY <1>16, <2>2
       DEF ReadItemNames, TypeOK, Goto, Steps, MemorySteps, tables, history
<1>17. ASSUME NEW w \in Workers, SetIdf(w)
       PROVE  TypeOK'
  <2>1. job[w].corpus \in Corpora
    BY DEF TypeOK, Jobs
  <2> QED
    BY <1>17, <2>1 DEF SetIdf, TypeOK, Goto, Steps, MapReads, tables, history
<1>18. ASSUME NEW w \in Workers, ReadAllowed(w)
       PROVE  TypeOK'
  <2>1. job' \in [Workers -> Jobs]
    BY <1>18, <1>0, AllowedType, JobUpdates, JobType DEF ReadAllowed
  <2> QED
    BY <1>18, <2>1 DEF ReadAllowed, TypeOK, Goto, Steps, MapReads, tables, history
<1>19. ASSUME NEW w \in Workers, ReplaceMappings(w)
       PROVE  TypeOK'
  <2>1. job[w].batch \in BatchIds /\ job[w].kompetitor \in Kompetitors
    BY <1>19 DEF ReplaceMappings, At, WorkerInv, Located, Steps, ImportSteps, MapReads
  <2>2. ComputeMatches(job[w].items, job[w].rows, job[w].allowed, job[w].corpus)
          \in SUBSET Match
    BY MatchesType DEF TypeOK, Jobs
  <2> QED
    BY <1>19, <2>1, <2>2, AnswerType DEF ReplaceMappings, TypeOK
<1>20. ASSUME NEW w \in Workers, MappingFails(w)
       PROVE  TypeOK'
  BY <1>20, <1>10 DEF MappingFails, Marked
<1>21. ASSUME NEW p \in Procs, Crash(p)
       PROVE  TypeOK'
  BY <1>21, LeaveType DEF Crash, TypeOK, tables, NoCorpus, Corpora
<1>22. ASSUME NEW p \in Procs, ExpireIdf(p)
       PROVE  TypeOK'
  BY <1>22 DEF ExpireIdf, TypeOK, tables, history, NoCorpus, Corpora
<1>23. ASSUME NEW i \in Items, EditCell(i)
       PROVE  TypeOK'
  BY <1>23 DEF EditCell, CellsBecome, TypeOK
<1>24. CASE UNCHANGED vars
  BY <1>24 DEF TypeOK, vars, tables, history
<1> QED
  BY <1>1, <1>2, <1>3, <1>4, <1>5, <1>6, <1>7, <1>8, <1>9, <1>11, <1>12, <1>13,
     <1>14, <1>15, <1>16, <1>17, <1>18, <1>19, <1>20, <1>21, <1>22, <1>23, <1>24
     DEF Next, Step, Finished

-----------------------------------------------------------------------------
(* What a step never loses.                                                *)

\* A step that leaves the tables of the import alone loses nothing.
LEMMA UnchangedGrows ==
    ASSUME TypeOK, UNCHANGED <<batches, products, summaries>>
    PROVE  Grows
BY DEF Grows, HasRows, TypeOK, Loads

\* No step takes a completed batch back, removes the rows or the summary of a
\* store, or lowers a version.
LEMMA GrowsStep ==
    ASSUME IInv, [Next]_vars
    PROVE  Grows
<1> USE DEF IInv
<1>1. ASSUME NEW w \in Workers, CreateBatch(w)
      PROVE  Grows
  <2>1. PICK b \in BatchIds :
          /\ batches[b].status = "absent"
          /\ batches' = [batches EXCEPT ![b] = [code |-> job[w].code,
                                               status |-> "running"]]
    BY <1>1 DEF CreateBatch, First
  <2>2. \A o \in BatchIds : batches[o].status = "completed" =>
                            batches'[o].status = "completed"
    BY <2>1 DEF TypeOK
  <2>3. \A o \in BatchIds, k \in Kompetitors : products[o][k].version \in Nat
    BY DEF TypeOK, Loads
  <2> QED
    BY <1>1, <2>2, <2>3 DEF CreateBatch, Grows, HasRows
<1>2. ASSUME NEW w \in Workers, ReplaceProducts(w)
      PROVE  Grows
  <2>1. /\ job[w].batch \in BatchIds /\ job[w].kompetitor \in Kompetitors
        /\ job[w].titles # {}
    BY <1>2 DEF ReplaceProducts, At, WorkerInv, Located, Steps, ImportSteps
  <2>2. \A b \in BatchIds, k \in Kompetitors : products[b][k].version \in Nat
    BY DEF TypeOK, Loads
  <2> QED
    BY <1>2, <2>1, <2>2 DEF ReplaceProducts, Grows, HasRows, TypeOK
<1>3. ASSUME NEW w \in Workers, WriteSummaries(w)
      PROVE  Grows
  <2>1. job[w].batch \in BatchIds
    BY <1>3 DEF WriteSummaries, At, WorkerInv, Located, Steps, ImportSteps
  <2>2. \A k \in Kompetitors : summaries[job[w].batch][k] # <<>> =>
                                WrittenSummary(w, k) # <<>>
    BY <1>3, <2>1, WrittenType DEF WriteSummaries, At
  <2>3. \A b \in BatchIds, k \in Kompetitors :
          summaries'[b][k] = IF b = job[w].batch THEN WrittenSummary(w, k)
                                                 ELSE summaries[b][k]
    BY <1>3 DEF WriteSummaries, TypeOK
  <2>4. \A b \in BatchIds, k \in Kompetitors :
          summaries[b][k] # <<>> => summaries'[b][k] # <<>>
    BY <2>2, <2>3
  <2>5. \A b \in BatchIds, k \in Kompetitors : products[b][k].version \in Nat
    BY DEF TypeOK, Loads
  <2> QED
    BY <1>3, <2>4, <2>5 DEF WriteSummaries, Grows, HasRows
<1>4. ASSUME NEW w \in Workers, MarkCompleted(w)
      PROVE  Grows
  BY <1>4 DEF MarkCompleted, Grows, HasRows, TypeOK, Loads
<1>5. CASE UNCHANGED <<batches, products, summaries>>
  BY <1>5, UnchangedGrows
<1>6. ASSUME NEW w \in Workers, Begin(w) \/ Step(w)
      PROVE  Grows
  BY <1>1, <1>2, <1>3, <1>4, <1>5, <1>6
     DEF Begin, Step, FindBatch, AggregateProducts, FindSummaries, StatementFails,
         ReadProducts, ReadItems, ForgetIdf, GetIdf, ReadNames, ReadItemNames,
         SetIdf, ReadAllowed, ReplaceMappings, MappingFails, tables
<1> QED
  BY <1>5, <1>6 DEF Next, Crash, ExpireIdf, EditCell, CellsBecome, Finished, vars,
                    tables

-----------------------------------------------------------------------------
(* What an import has secured.                                             *)

\* What a request that does not move has secured stays secured.
LEMMA Bystander ==
    ASSUME IInv, TypeOK', Grows, NEW w \in Workers,
           pc'[w] = pc[w], job'[w] = job[w]
    PROVE  WorkerInv(w)'
<1> USE DEF IInv
<1>1. pc[w] # "idle" => job[w].kompetitor \in Kompetitors /\ job[w].titles # {}
  BY DEF WorkerInv
<1>2. pc[w] \in Located => job[w].batch \in BatchIds
  BY DEF WorkerInv
<1>3. pc[w] \in Stored => HasRows(job[w].batch, job[w].kompetitor)'
  BY <1>1, <1>2 DEF WorkerInv, Grows, Stored, Located
<1>4. pc[w] \in {"lookup", "write"} =>
        /\ job[w].sums[job[w].kompetitor] # 0
        /\ \A k \in Kompetitors : job[w].sums[k] # 0 =>
             /\ HasRows(job[w].batch, k)'
             /\ job[w].sums[k] <= products'[job[w].batch][k].version
  <2> SUFFICES ASSUME pc[w] \in {"lookup", "write"}
               PROVE  \A k \in Kompetitors : job[w].sums[k] # 0 =>
                        /\ HasRows(job[w].batch, k)'
                        /\ job[w].sums[k] <= products'[job[w].batch][k].version
    BY DEF WorkerInv
  <2>1. job[w].batch \in BatchIds
    BY <1>2 DEF Located, Steps, ImportSteps
  <2>2. \A k \in Kompetitors : /\ job[w].sums[k] \in Nat
                               /\ products[job[w].batch][k].version \in Nat
                               /\ products'[job[w].batch][k].version \in Nat
    BY <2>1 DEF TypeOK, Loads, Jobs
  <2> QED
    BY <2>1, <2>2 DEF WorkerInv, Grows
<1>5. pc[w] = "write" =>
        \A k \in job[w].known : summaries'[job[w].batch][k] # <<>>
  <2>1. job[w].known \subseteq Kompetitors
    BY DEF TypeOK, Jobs
  <2> QED
    BY <1>2, <2>1 DEF WorkerInv, Grows, Located, Steps, ImportSteps
<1>6. pc[w] \in Summarised => summaries'[job[w].batch][job[w].kompetitor] # <<>>
  BY <1>1, <1>2 DEF WorkerInv, Grows, Summarised, Located, Steps, ImportSteps,
                    MapReads, MemorySteps
<1>7. pc[w] \in Marked => batches'[job[w].batch].status = "completed"
  BY <1>1, <1>2 DEF WorkerInv, Grows, Marked, Located, Steps, ImportSteps,
                    MapReads, MemorySteps
<1> QED
  BY <1>1, <1>2, <1>3, <1>4, <1>5, <1>6, <1>7 DEF WorkerInv

\* A request that was answered has nothing left to secure.
LEMMA Idle ==
    ASSUME NEW w \in Workers, pc'[w] = "idle"
    PROVE  WorkerInv(w)'
BY DEF WorkerInv, Located, Stored, Summarised, Marked, MapReads, MemorySteps

\* A request only moves by its own steps.
LEMMA Others ==
    ASSUME IInv, NEW w \in Workers, Begin(w) \/ Step(w),
           NEW x \in Workers, x # w
    PROVE  pc'[x] = pc[x] /\ job'[x] = job[x]
<1>1. pc \in [Workers -> Steps] /\ job \in [Workers -> Jobs]
  BY DEF IInv, TypeOK
<1>2. CASE Begin(w)
  BY <1>1, <1>2 DEF Begin, Goto
<1>3. CASE FindBatch(w) \/ CreateBatch(w) \/ ReplaceProducts(w)
           \/ AggregateProducts(w) \/ FindSummaries(w)
  BY <1>1, <1>3 DEF FindBatch, CreateBatch, ReplaceProducts, AggregateProducts,
                    FindSummaries, Goto
<1>4. CASE WriteSummaries(w) \/ MarkCompleted(w) \/ StatementFails(w)
  BY <1>1, <1>4 DEF WriteSummaries, MarkCompleted, StatementFails, AnswerError,
                    Leave, Goto
<1>5. CASE ReadProducts(w) \/ ReadItems(w) \/ ReplaceMappings(w) \/ MappingFails(w)
  BY <1>1, <1>5 DEF ReadProducts, ReadItems, ReplaceMappings, MappingFails,
                    AnswerOk, Leave, Goto
<1>6. CASE ForgetIdf(w) \/ GetIdf(w) \/ ReadNames(w) \/ ReadItemNames(w)
           \/ SetIdf(w) \/ ReadAllowed(w)
  BY <1>1, <1>6 DEF ForgetIdf, GetIdf, ReadNames, ReadItemNames, SetIdf,
                    ReadAllowed, Goto
<1> QED
  BY <1>2, <1>3, <1>4, <1>5, <1>6 DEF Step

\* mapBatch changes nothing that the import has secured.
LEMMA MappingKeeps ==
    ASSUME IInv, TypeOK', Grows, NEW w \in Workers,
           pc[w] \in Marked, pc'[w] \in Marked,
           job'[w].batch = job[w].batch, job'[w].kompetitor = job[w].kompetitor,
           job'[w].titles = job[w].titles
    PROVE  WorkerInv(w)'
<1>1. /\ job[w].batch \in BatchIds /\ job[w].kompetitor \in Kompetitors
      /\ job[w].titles # {}
      /\ HasRows(job[w].batch, job[w].kompetitor)
      /\ summaries[job[w].batch][job[w].kompetitor] # <<>>
      /\ batches[job[w].batch].status = "completed"
  BY DEF IInv, WorkerInv, Located, Stored, Summarised, Marked, Steps, ImportSteps,
         MapReads, MemorySteps
<1>2. /\ HasRows(job[w].batch, job[w].kompetitor)'
      /\ summaries'[job[w].batch][job[w].kompetitor] # <<>>
      /\ batches'[job[w].batch].status = "completed"
  BY <1>1 DEF Grows
<1>3. pc'[w] \notin {"idle", "lookup", "write"}
  BY DEF Marked, MapReads, MemorySteps
<1> QED
  BY <1>1, <1>2, <1>3 DEF WorkerInv, HasRows

\* What an import has secured at its next statement follows from what it had
\* secured and what the statement does.
LEMMA ActorStep ==
    ASSUME IInv, TypeOK', Grows, NEW w \in Workers, Begin(w) \/ Step(w)
    PROVE  WorkerInv(w)'
<1> USE DEF IInv
<1>0. /\ pc \in [Workers -> Steps] /\ job \in [Workers -> Jobs]
      /\ WorkerInv(w)
  BY DEF TypeOK
<1>1. CASE Begin(w)
  <2>1. PICK k \in Kompetitors, c \in Codes, rows \in Uploads :
          /\ Usable(rows)
          /\ job' = [job EXCEPT ![w] = [NoJob EXCEPT !.kompetitor = k, !.code = c,
                                                     !.titles = Normalized(rows)]]
          /\ Goto(w, "select")
    BY <1>1 DEF Begin
  <2>2. /\ pc'[w] = "select" /\ job'[w].kompetitor = k
        /\ job'[w].titles = Normalized(rows)
    BY <1>0, <2>1 DEF Goto, NoJob
  <2> QED
    BY <2>1, <2>2 DEF WorkerInv, Usable, Located, Stored, Summarised, Marked,
                      MapReads, MemorySteps
<1>2. CASE FindBatch(w)
  <2>1. /\ pc[w] # "idle" /\ pc'[w] \in {"insert", "replace"}
        /\ job'[w].kompetitor = job[w].kompetitor /\ job'[w].titles = job[w].titles
        /\ pc'[w] = "replace" => job'[w].batch \in BatchIds
    BY <1>0, <1>2 DEF FindBatch, At, Goto, Jobs
  <2> QED
    BY <1>0, <2>1 DEF WorkerInv, Located, Stored, Summarised, Marked, MapReads,
                      MemorySteps
<1>3. CASE CreateBatch(w)
  <2>1. /\ pc[w] # "idle" /\ pc'[w] = "replace"
        /\ job'[w].kompetitor = job[w].kompetitor /\ job'[w].titles = job[w].titles
        /\ job'[w].batch \in BatchIds
    BY <1>0, <1>3 DEF CreateBatch, At, Goto, Jobs
  <2> QED
    BY <1>0, <2>1 DEF WorkerInv, Located, Stored, Summarised, Marked, MapReads,
                      MemorySteps
<1>4. CASE ReplaceProducts(w)
  <2>1. /\ pc[w] = "replace" /\ pc'[w] = "aggregate" /\ job' = job
    BY <1>0, <1>4 DEF ReplaceProducts, At, Goto
  <2>2. /\ job[w].batch \in BatchIds /\ job[w].kompetitor \in Kompetitors
        /\ job[w].titles # {}
    BY <1>0, <2>1 DEF WorkerInv, Located, Steps, ImportSteps
  <2>3. products'[job[w].batch][job[w].kompetitor].titles = job[w].titles
    BY <1>4, <2>2 DEF ReplaceProducts, TypeOK
  <2> QED
    BY <2>1, <2>2, <2>3 DEF WorkerInv, HasRows, Located, Stored, Summarised, Marked,
                            MapReads, MemorySteps
<1>5. CASE AggregateProducts(w)
  <2>1. /\ pc[w] = "aggregate" /\ pc'[w] = "lookup"
        /\ job'[w].batch = job[w].batch /\ job'[w].kompetitor = job[w].kompetitor
        /\ job'[w].titles = job[w].titles
        /\ job'[w].sums = Aggregates(job[w].batch)
        /\ products' = products
    BY <1>0, <1>5 DEF AggregateProducts, At, Goto, Jobs, tables
  <2>2. /\ job[w].batch \in BatchIds /\ job[w].kompetitor \in Kompetitors
        /\ job[w].titles # {} /\ HasRows(job[w].batch, job[w].kompetitor)
    BY <1>0, <2>1 DEF WorkerInv, Located, Stored, Steps, ImportSteps
  <2>3. \A k \in Kompetitors : /\ products[job[w].batch][k].version \in Nat
                               /\ HasRows(job[w].batch, k) =>
                                    products[job[w].batch][k].version # 0
    BY <2>2 DEF TypeOK, Loads, Versioned
  <2>4. \A k \in Kompetitors :
          Aggregates(job[w].batch)[k] = IF HasRows(job[w].batch, k)
                                        THEN products[job[w].batch][k].version
                                        ELSE 0
    BY DEF Aggregates
  <2> QED
    BY <2>1, <2>2, <2>3, <2>4
       DEF WorkerInv, HasRows, Located, Stored, Summarised, Marked, MapReads,
           MemorySteps
<1>6. CASE FindSummaries(w)
  <2>1. /\ pc[w] = "lookup" /\ pc'[w] = "write"
        /\ job'[w].batch = job[w].batch /\ job'[w].kompetitor = job[w].kompetitor
        /\ job'[w].titles = job[w].titles /\ job'[w].sums = job[w].sums
        /\ \A k \in job'[w].known : summaries[job[w].batch][k] # <<>>
        /\ products' = products /\ summaries' = summaries
    BY <1>0, <1>6 DEF FindSummaries, At, Goto, Jobs, tables
  <2> QED
    BY <1>0, <2>1 DEF WorkerInv, HasRows, Located, Stored, Summarised, Marked,
                      Steps, ImportSteps, MapReads, MemorySteps
<1>7. CASE WriteSummaries(w)
  <2>1. pc[w] = "write" /\ pc'[w] = "mark" /\ job' = job /\ products' = products
    BY <1>0, <1>7 DEF WriteSummaries, At, Goto
  <2>2. /\ job[w].batch \in BatchIds /\ job[w].kompetitor \in Kompetitors
        /\ job[w].titles # {} /\ HasRows(job[w].batch, job[w].kompetitor)
        /\ job[w].sums[job[w].kompetitor] # 0
    BY <1>0, <2>1 DEF WorkerInv, Located, Stored, Steps, ImportSteps
  <2>3. summaries'[job[w].batch][job[w].kompetitor]
          = WrittenSummary(w, job[w].kompetitor)
    BY <1>7, <2>2 DEF WriteSummaries, TypeOK
  <2>4. summaries'[job[w].batch][job[w].kompetitor] # <<>>
    BY <1>0, <2>1, <2>2, <2>3, WrittenType
  <2> QED
    BY <2>1, <2>2, <2>4 DEF WorkerInv, HasRows, Marked, MapReads, MemorySteps
<1>8. CASE MarkCompleted(w)
  <2>1. /\ pc[w] = "mark" /\ pc'[w] = "mapProducts" /\ job' = job
        /\ products' = products /\ summaries' = summaries
    BY <1>0, <1>8 DEF MarkCompleted, At, Goto
  <2>2. /\ job[w].batch \in BatchIds /\ job[w].kompetitor \in Kompetitors
        /\ job[w].titles # {} /\ HasRows(job[w].batch, job[w].kompetitor)
        /\ summaries[job[w].batch][job[w].kompetitor] # <<>>
    BY <1>0, <2>1 DEF WorkerInv, Located, Stored, Summarised, Steps, ImportSteps
  <2>3. batches'[job[w].batch].status = "completed"
    BY <1>8, <2>2 DEF MarkCompleted, TypeOK
  <2> QED
    BY <2>1, <2>2, <2>3 DEF WorkerInv, HasRows
<1>9. CASE pc'[w] = "idle"
  BY <1>9, Idle
<1>10. CASE StatementFails(w) \/ MappingFails(w) \/ ReplaceMappings(w)
  BY <1>0, <1>9, <1>10 DEF StatementFails, MappingFails, ReplaceMappings,
                           AnswerError, AnswerOk, Leave
<1>11. CASE ReadProducts(w) \/ ReadItems(w)
  <2>1. pc[w] \in Marked
    BY <1>11 DEF ReadProducts, ReadItems, At, Marked, MapReads
  <2>2. \/ pc'[w] = "idle"
        \/ /\ pc'[w] \in Marked
           /\ job'[w].batch = job[w].batch
           /\ job'[w].kompetitor = job[w].kompetitor
           /\ job'[w].titles = job[w].titles
    BY <1>0, <1>11 DEF ReadProducts, ReadItems, AnswerOk, Leave, Goto, Jobs, Marked,
                       MapReads, MemorySteps
  <2> QED
    BY <1>9, <2>1, <2>2, MappingKeeps
<1>12. CASE ForgetIdf(w) \/ GetIdf(w) \/ ReadNames(w) \/ ReadItemNames(w)
            \/ SetIdf(w) \/ ReadAllowed(w)
  <2>1. pc[w] \in Marked
    BY <1>12 DEF ForgetIdf, GetIdf, ReadNames, ReadItemNames, SetIdf, ReadAllowed,
                 At, Marked, MapReads, MemorySteps
  <2>2. /\ pc'[w] \in Marked
        /\ job'[w].batch = job[w].batch /\ job'[w].kompetitor = job[w].kompetitor
        /\ job'[w].titles = job[w].titles
    BY <1>0, <1>12 DEF ForgetIdf, GetIdf, ReadNames, ReadItemNames, SetIdf,
                       ReadAllowed, Goto, Jobs, Marked, MapReads, MemorySteps
  <2> QED
    BY <2>1, <2>2, MappingKeeps
<1> QED
  BY <1>1, <1>2, <1>3, <1>4, <1>5, <1>6, <1>7, <1>8, <1>10, <1>11, <1>12 DEF Step

-----------------------------------------------------------------------------
(* The tables.                                                             *)

\* Which statements write the products and the summaries.
LEMMA Writers ==
    ASSUME [Next]_vars
    PROVE  /\ products' # products => \E w \in Workers : ReplaceProducts(w)
           /\ summaries' # summaries => \E w \in Workers : WriteSummaries(w)
           /\ acked' # acked => \E w \in Workers, mapped \in BOOLEAN :
                /\ Step(w) /\ AnswerOk(w, mapped) /\ pc[w] \in Marked
<1>1. ASSUME NEW w \in Workers, Begin(w) \/ Step(w)
      PROVE  /\ products' # products => ReplaceProducts(w)
             /\ summaries' # summaries => WriteSummaries(w)
  BY <1>1 DEF Step, Begin, FindBatch, CreateBatch, ReplaceProducts,
              AggregateProducts, FindSummaries, WriteSummaries, MarkCompleted,
              StatementFails, ReadProducts, ReadItems, ForgetIdf, GetIdf, ReadNames,
              ReadItemNames, SetIdf, ReadAllowed, ReplaceMappings, MappingFails,
              tables
<1>2. ASSUME NEW w \in Workers, Begin(w) \/ Step(w), acked' # acked
      PROVE  \E mapped \in BOOLEAN :
                Step(w) /\ AnswerOk(w, mapped) /\ pc[w] \in Marked
  <2>1. \/ ReadProducts(w) /\ AnswerOk(w, TRUE)
        \/ ReadItems(w) /\ AnswerOk(w, TRUE)
        \/ ReplaceMappings(w) /\ AnswerOk(w, TRUE)
        \/ MappingFails(w) /\ AnswerOk(w, FALSE)
    BY <1>2 DEF Step, Begin, FindBatch, CreateBatch, ReplaceProducts,
                AggregateProducts, FindSummaries, WriteSummaries, MarkCompleted,
                StatementFails, AnswerError, ReadProducts, ReadItems, ForgetIdf,
                GetIdf, ReadNames, ReadItemNames, SetIdf, ReadAllowed,
                ReplaceMappings, MappingFails, history
  <2> QED
    BY <2>1 DEF Step, ReadProducts, ReadItems, ReplaceMappings, MappingFails, At,
                Marked, MapReads
<1>3. CASE UNCHANGED <<products, summaries, acked>>
  BY <1>3
<1> QED
  BY <1>1, <1>2, <1>3 DEF Next, Crash, ExpireIdf, EditCell, CellsBecome, Finished,
                          vars, tables, history

\* Stored rows keep having a version.
LEMMA VersionedStep ==
    ASSUME IInv, TypeOK', [Next]_vars
    PROVE  Versioned'
<1> USE DEF IInv
<1>1. CASE products' = products
  BY <1>1 DEF Versioned, HasRows
<1>2. ASSUME NEW w \in Workers, ReplaceProducts(w)
      PROVE  Versioned'
  <2>1. \A b \in BatchIds, k \in Kompetitors : products[b][k].version \in Nat
    BY DEF TypeOK, Loads
  <2> QED
    BY <1>2, <2>1 DEF ReplaceProducts, Versioned, HasRows, TypeOK
<1> QED
  BY <1>1, <1>2, Writers

\* Summary rows keep describing versions the store went through.
LEMMA SummaryStep ==
    ASSUME IInv, TypeOK', Grows, [Next]_vars
    PROVE  SummaryFromStored'
<1> USE DEF IInv
<1>0. \A b \in BatchIds, k \in Kompetitors :
        /\ products[b][k].version \in Nat /\ products'[b][k].version \in Nat
        /\ summaries[b][k] \in Seq(Nat)
  BY DEF TypeOK, Loads
<1>1. ASSUME NEW b \in BatchIds, NEW k \in Kompetitors,
             NEW n \in 1..Len(summaries[b][k])
      PROVE  HasRows(b, k)' /\ summaries[b][k][n] \in 1..products'[b][k].version
  BY <1>0 DEF SummaryFromStored, Grows
<1>2. CASE summaries' = summaries
  BY <1>1, <1>2 DEF SummaryFromStored
<1>3. ASSUME NEW w \in Workers, WriteSummaries(w)
      PROVE  SummaryFromStored'
  <2>0. job[w] \in Jobs
    BY DEF TypeOK
  <2>1. /\ WorkerInv(w) /\ pc[w] = "write" /\ job[w].batch \in BatchIds
        /\ \A k \in Kompetitors : job[w].sums[k] \in Nat
    BY <1>3, <2>0 DEF WriteSummaries, At, WorkerInv, Located, Steps, ImportSteps,
                      Jobs
  <2> SUFFICES ASSUME NEW b \in BatchIds, NEW k \in Kompetitors,
                      NEW n \in 1..Len(summaries'[b][k])
               PROVE  /\ HasRows(b, k)'
                      /\ summaries'[b][k][n] \in 1..products'[b][k].version
    BY DEF SummaryFromStored
  <2>2. CASE b # job[w].batch
    <3>1. summaries'[b][k] = summaries[b][k]
      BY <1>3, <2>2 DEF WriteSummaries, TypeOK
    <3> QED
      BY <1>1, <3>1
  <2>3. CASE b = job[w].batch
    <3>1. summaries'[b][k] = WrittenSummary(w, k)
      BY <1>3, <2>3 DEF WriteSummaries, TypeOK
    <3>2. \/ job[w].sums[k] # 0 /\ summaries'[b][k][n] = job[w].sums[k]
          \/ n \in 1..Len(summaries[b][k])
             /\ summaries'[b][k][n] = summaries[b][k][n]
      BY <2>1, <2>3, <3>1, WrittenType
    <3>3. CASE job[w].sums[k] # 0 /\ summaries'[b][k][n] = job[w].sums[k]
      <4>1. HasRows(b, k) /\ job[w].sums[k] <= products[b][k].version
        BY <2>1, <2>3, <3>3 DEF WorkerInv
      <4>2. HasRows(b, k)' /\ products[b][k].version <= products'[b][k].version
        BY <4>1 DEF Grows
      <4> QED
        BY <1>0, <2>1, <3>3, <4>1, <4>2
    <3> QED
      BY <1>1, <3>2, <3>3
  <2> QED
    BY <2>2, <2>3
<1> QED
  BY <1>2, <1>3, Writers

\* What was acknowledged stays, and what is acknowledged was secured.
LEMMA AckedStep ==
    ASSUME IInv, TypeOK', Grows, [Next]_vars
    PROVE  AckedDurable'
<1> USE DEF IInv
<1>1. ASSUME NEW a \in acked
      PROVE  /\ batches'[a[1]].status = "completed" /\ HasRows(a[1], a[2])'
             /\ summaries'[a[1]][a[2]] # <<>>
  <2>1. a[1] \in BatchIds /\ a[2] \in Kompetitors
    BY DEF TypeOK
  <2> QED
    BY <2>1 DEF AckedDurable, Grows
<1>2. CASE acked' = acked
  BY <1>1, <1>2 DEF AckedDurable, HasRows
<1>3. ASSUME NEW w \in Workers, NEW mapped \in BOOLEAN, AnswerOk(w, mapped),
             pc[w] \in Marked
      PROVE  AckedDurable'
  <2>1. /\ job[w].batch \in BatchIds /\ job[w].kompetitor \in Kompetitors
        /\ HasRows(job[w].batch, job[w].kompetitor)
        /\ summaries[job[w].batch][job[w].kompetitor] # <<>>
        /\ batches[job[w].batch].status = "completed"
    BY <1>3 DEF WorkerInv, Located, Stored, Summarised, Marked, Steps, ImportSteps,
                MapReads, MemorySteps
  <2>2. /\ products'[job[w].batch][job[w].kompetitor].titles # {}
        /\ summaries'[job[w].batch][job[w].kompetitor] # <<>>
        /\ batches'[job[w].batch].status = "completed"
    BY <2>1 DEF Grows, HasRows
  <2>3. acked' = acked \cup {<<job[w].batch, job[w].kompetitor>>}
    BY <1>3 DEF AnswerOk
  <2> QED
    BY <1>1, <2>2, <2>3 DEF AckedDurable, HasRows
<1> QED
  BY <1>2, <1>3, Writers

-----------------------------------------------------------------------------
(* A batch that is there.                                                  *)

\* Only a batch there is has a code, and an import past its INSERT is in one.
Opened ==
    /\ \A b \in BatchIds : batches[b].status = "absent" => batches[b].code = None
    /\ \A w \in Workers : pc[w] # "idle" => job[w].code # None
    /\ \A w \in Workers :
         pc[w] \in Located => batches[job[w].batch].status # "absent"

LEMMA InitOpened == Init => Opened
BY DEF Init, Opened, Located

\* Batches there are stay, and only a FindBatch or a CreateBatch leads into one.
LEMMA OpenedStep == IInv /\ Opened /\ [Next]_vars => Opened'
<1> SUFFICES ASSUME IInv, Opened, [Next]_vars PROVE Opened'
  OBVIOUS
<1> USE DEF IInv
<1>0. TypeOK' /\ None \notin Codes
  BY TypeStep, IngestAssumption
<1>1. \A b \in BatchIds : batches[b].status # "absent" => batches'[b].status # "absent"
  <2>1. ASSUME NEW w \in Workers, CreateBatch(w)
        PROVE  \A b \in BatchIds : batches[b].status # "absent" =>
                                   batches'[b].status # "absent"
    BY <2>1 DEF CreateBatch, TypeOK
  <2>2. ASSUME NEW w \in Workers, MarkCompleted(w)
        PROVE  \A b \in BatchIds : batches[b].status # "absent" =>
                                   batches'[b].status # "absent"
    BY <2>2 DEF MarkCompleted, TypeOK
  <2> QED
    BY <2>1, <2>2 DEF Next, Begin, Step, FindBatch, ReplaceProducts,
       AggregateProducts, FindSummaries, WriteSummaries, StatementFails,
       ReadProducts, ReadItems, ForgetIdf, GetIdf, ReadNames, ReadItemNames,
       SetIdf, ReadAllowed, ReplaceMappings, MappingFails, Crash, ExpireIdf,
       EditCell, CellsBecome, Finished, tables, vars
<1>2. \A b \in BatchIds : batches'[b].status = "absent" => batches'[b].code = None
  <2>1. ASSUME NEW w \in Workers, CreateBatch(w)
        PROVE  \A b \in BatchIds : batches'[b].status = "absent" =>
                                   batches'[b].code = None
    BY <2>1 DEF CreateBatch, TypeOK, Opened
  <2>2. ASSUME NEW w \in Workers, MarkCompleted(w)
        PROVE  \A b \in BatchIds : batches'[b].status = "absent" =>
                                   batches'[b].code = None
    BY <2>2 DEF MarkCompleted, TypeOK, Opened
  <2>3. CASE batches' = batches
    BY <2>3 DEF Opened
  <2> QED
    BY <2>1, <2>2, <2>3 DEF Next, Begin, Step, FindBatch, ReplaceProducts,
       AggregateProducts, FindSummaries, WriteSummaries, StatementFails,
       ReadProducts, ReadItems, ForgetIdf, GetIdf, ReadNames, ReadItemNames,
       SetIdf, ReadAllowed, ReplaceMappings, MappingFails, Crash, ExpireIdf,
       EditCell, CellsBecome, Finished, tables, vars
<1>3. ASSUME NEW w \in Workers
      PROVE  /\ pc'[w] # "idle" => job'[w].code # None
             /\ pc'[w] \in Located => batches'[job'[w].batch].status # "absent"
  <2>1. CASE pc'[w] = pc[w] /\ job'[w] = job[w]
    BY <1>1, <2>1 DEF Opened, WorkerInv
  <2>2. CASE pc'[w] = "idle"
    BY <2>2 DEF Located
  <2>3. ASSUME Begin(w)
        PROVE  /\ pc'[w] # "idle" => job'[w].code # None
               /\ pc'[w] \in Located => batches'[job'[w].batch].status # "absent"
    <3>1. pc'[w] = "select" /\ job'[w].code # None
      BY <1>0, <2>3 DEF Begin, Goto, TypeOK, NoJob, Jobs
    <3> QED
      BY <3>1 DEF Located
  <2>4. ASSUME FindBatch(w)
        PROVE  /\ pc'[w] # "idle" => job'[w].code # None
               /\ pc'[w] \in Located => batches'[job'[w].batch].status # "absent"
    <3>1. pc[w] = "select" /\ job[w].code # None
      BY <2>4 DEF FindBatch, At, Opened
    <3>2. CASE pc'[w] = "insert" /\ job' = job
      BY <3>1, <3>2 DEF Located
    <3>3. ASSUME NEW b \in BatchIds, First(b, BatchesOf(job[w].code)),
                 job' = [job EXCEPT ![w].batch = b]
          PROVE  /\ job'[w].code # None
                 /\ batches'[job'[w].batch].status # "absent"
      <4>1. job'[w].batch = b /\ job'[w].code = job[w].code
        BY <3>3 DEF TypeOK, Jobs
      <4>2. batches[b].code = job[w].code
        BY <3>3 DEF First, BatchesOf
      <4> QED
        BY <1>1, <3>1, <4>1, <4>2 DEF Opened
    <3> QED
      BY <2>4, <3>2, <3>3 DEF FindBatch, Goto, TypeOK
  <2>5. ASSUME CreateBatch(w)
        PROVE  /\ pc'[w] # "idle" => job'[w].code # None
               /\ pc'[w] \in Located => batches'[job'[w].batch].status # "absent"
    <3>1. PICK b \in BatchIds :
            /\ batches' = [batches EXCEPT ![b] = [code |-> job[w].code,
                                                  status |-> "running"]]
            /\ job' = [job EXCEPT ![w].batch = b]
      BY <2>5 DEF CreateBatch
    <3>2. job'[w].batch = b /\ job'[w].code = job[w].code
      BY <3>1 DEF TypeOK, Jobs
    <3> QED
      BY <2>5, <3>1, <3>2 DEF CreateBatch, At, Opened, TypeOK
  <2>6. ASSUME Step(w), pc[w] \in Located
        PROVE  \/ pc'[w] = "idle"
               \/ job'[w].code = job[w].code /\ job'[w].batch = job[w].batch
    <3> USE DEF TypeOK, Jobs, Located, At, Goto
    <3>1. CASE job'[w] = job[w]
      BY <3>1
    <3>2. CASE AnswerOk(w, TRUE) \/ AnswerOk(w, FALSE) \/ AnswerError(w)
      BY <3>2 DEF AnswerOk, AnswerError, Leave
    <3>3. CASE AggregateProducts(w) \/ FindSummaries(w)
      BY <3>3 DEF AggregateProducts, FindSummaries
    <3>4. CASE ReadProducts(w) \/ ReadItems(w)
      <4>1. \/ AnswerOk(w, TRUE)
            \/ job' = [job EXCEPT ![w].rows = products[job[w].batch]]
            \/ job' = [job EXCEPT ![w].items = Mappable]
        BY <3>4 DEF ReadProducts, ReadItems
      <4>2. CASE job' = [job EXCEPT ![w].rows = products[job[w].batch]]
        BY <4>2
      <4>3. CASE job' = [job EXCEPT ![w].items = Mappable]
        BY <4>3
      <4> QED
        BY <3>2, <4>1, <4>2, <4>3
    <3>5. CASE GetIdf(w) \/ ReadNames(w) \/ ReadItemNames(w) \/ ReadAllowed(w)
      BY <3>5 DEF GetIdf, ReadNames, ReadItemNames, ReadAllowed
    <3>6. CASE FindBatch(w) \/ CreateBatch(w)
      BY <2>6, <3>6 DEF FindBatch, CreateBatch
    <3>7. CASE ReplaceProducts(w) \/ WriteSummaries(w) \/ MarkCompleted(w)
               \/ ForgetIdf(w) \/ SetIdf(w)
      BY <3>7 DEF ReplaceProducts, WriteSummaries, MarkCompleted, ForgetIdf, SetIdf
    <3>8. CASE StatementFails(w) \/ ReplaceMappings(w) \/ MappingFails(w)
      BY <3>2, <3>8 DEF StatementFails, ReplaceMappings, MappingFails
    <3> QED
      BY <2>6, <3>3, <3>4, <3>5, <3>6, <3>7, <3>8 DEF Step
  <2>7. CASE Step(w)
    <3>1. CASE pc[w] \in Located
      <4>1. job[w].code # None /\ batches[job[w].batch].status # "absent"
            /\ job[w].batch \in BatchIds
        BY <3>1 DEF Opened, WorkerInv, Located
      <4> QED
        BY <1>1, <2>2, <2>6, <2>7, <3>1, <4>1
    <3>2. CASE pc[w] \notin Located
      <4>1. pc[w] \in {"idle", "select", "insert"}
        BY <3>2 DEF TypeOK, Located
      <4>2. FindBatch(w) \/ CreateBatch(w) \/ StatementFails(w)
        BY <2>7, <4>1
           DEF Step, At, ReplaceProducts, AggregateProducts, FindSummaries,
               WriteSummaries, MarkCompleted, ReadProducts, ReadItems, ForgetIdf,
               GetIdf, ReadNames, ReadItemNames, SetIdf, ReadAllowed,
               ReplaceMappings, MappingFails, MapReads
      <4>3. CASE StatementFails(w)
        BY <2>2, <4>3 DEF StatementFails, AnswerError, Leave
      <4> QED
        BY <2>4, <2>5, <4>2, <4>3
    <3> QED
      BY <3>1, <3>2
  <2>8. ASSUME NEW x \in Workers, x # w, Begin(x) \/ Step(x)
        PROVE  pc'[w] = pc[w] /\ job'[w] = job[w]
    BY <2>8, Others
  <2>9. ASSUME NEW p \in Procs, Crash(p)
        PROVE  \/ pc'[w] = "idle"
               \/ pc'[w] = pc[w] /\ job'[w] = job[w]
    BY <2>9 DEF Crash, Leave
  <2> QED
    BY <2>1, <2>2, <2>3, <2>7, <2>8, <2>9
       DEF Next, ExpireIdf, EditCell, CellsBecome, Finished, vars
<1> QED
  BY <1>2, <1>3 DEF Opened

-----------------------------------------------------------------------------
(* Without failures nobody abandons a running batch.                       *)

\* Summaries of a batch that is still running were written by an import that
\* is about to mark it: another one, whose own lookup missed them, may give up.
HandedOn ==
    \A b \in BatchIds :
        /\ batches[b].status = "absent" =>
             \A k \in Kompetitors : summaries[b][k] = <<>>
        /\ batches[b].status = "running" =>
             \E w \in Workers :
                 /\ InHand(w, b)
                 /\ pc[w] = "mark" \/ \A k \in Kompetitors : summaries[b][k] = <<>>

LEMMA InitHandedOn == Init => HandedOn
BY DEF Init, HandedOn

\* The other imports stay where they are.
LEMMA OthersInHand ==
    ASSUME IInv, NEW w \in Workers, Begin(w) \/ Step(w), NEW x \in Workers, x # w,
           NEW b \in BatchIds, InHand(x, b)
    PROVE  InHand(x, b)' /\ pc'[x] = pc[x]
BY Others DEF InHand

\* A step that writes neither table and leaves no import behind.
LEMMA StillInHand ==
    ASSUME HandedOn, UNCHANGED <<batches, summaries>>,
           \A x \in Workers, b \in BatchIds :
               InHand(x, b) => InHand(x, b)' /\ (pc[x] = "mark" => pc'[x] = "mark")
    PROVE  HandedOn'
BY DEF HandedOn

\* A CREATE opens an empty batch in the import's own hands.
LEMMA CreateHands ==
    ASSUME IInv, HandedOn, NEW w \in Workers, CreateBatch(w)
    PROVE  HandedOn'
<1> USE DEF IInv
<1>1. PICK b \in BatchIds :
        /\ batches[b].status = "absent"
        /\ batches' = [batches EXCEPT ![b] = [code |-> job[w].code,
                                              status |-> "running"]]
        /\ job' = [job EXCEPT ![w].batch = b]
  BY DEF CreateBatch, First
<1>2. summaries' = summaries /\ pc'[w] = "replace" /\ pc[w] = "insert"
  BY DEF CreateBatch, At, Goto, TypeOK
<1>3. job'[w].batch = b
  BY <1>1 DEF TypeOK, Jobs
<1>4. \A o \in BatchIds : o # b => batches'[o] = batches[o]
  BY <1>1 DEF TypeOK
<1>5. /\ batches'[b].status = "running"
      /\ InHand(w, b)'
      /\ \A k \in Kompetitors : summaries'[b][k] = <<>>
  BY <1>1, <1>2, <1>3 DEF TypeOK, InHand, HandedOn
<1>6. ASSUME NEW x \in Workers, NEW o \in BatchIds, InHand(x, o)
      PROVE  InHand(x, o)' /\ pc'[x] = pc[x]
  <2>1. x # w
    BY <1>2, <1>6 DEF InHand
  <2> QED
    BY <1>6, <2>1, OthersInHand DEF Step
<1>7. ASSUME NEW o \in BatchIds, o # b
      PROVE  /\ batches'[o].status = "absent" =>
                  \A k \in Kompetitors : summaries'[o][k] = <<>>
             /\ batches'[o].status = "running" =>
                  \E x \in Workers :
                      /\ InHand(x, o)'
                      /\ \/ pc'[x] = "mark"
                         \/ \A k \in Kompetitors : summaries'[o][k] = <<>>
  BY <1>2, <1>4, <1>6, <1>7 DEF HandedOn
<1> QED
  BY <1>5, <1>7 DEF HandedOn

\* The commit of the summaries brings the import to its mark.
LEMMA WriteHands ==
    ASSUME IInv, Opened, HandedOn, NEW w \in Workers, WriteSummaries(w)
    PROVE  HandedOn'
<1> USE DEF IInv
<1>1. /\ pc[w] = "write" /\ pc'[w] = "mark"
      /\ job' = job /\ batches' = batches
  BY DEF WriteSummaries, At, Goto, TypeOK, history
<1>2. PICK b \in BatchIds : b = job[w].batch /\ batches[b].status # "absent"
  BY <1>1 DEF WorkerInv, Opened, Located, Steps, ImportSteps
<1>3. \A o \in BatchIds : o # b => summaries'[o] = summaries[o]
  BY <1>2 DEF WriteSummaries, TypeOK
<1>4. InHand(w, b)'
  BY <1>1, <1>2 DEF InHand
<1>5. ASSUME NEW x \in Workers, NEW o \in BatchIds, o # b, InHand(x, o)
      PROVE  InHand(x, o)' /\ pc'[x] = pc[x]
  <2>1. x # w
    BY <1>2, <1>5 DEF InHand
  <2> QED
    BY <1>5, <2>1, OthersInHand DEF Step
<1>6. ASSUME NEW o \in BatchIds, o # b
      PROVE  /\ batches'[o].status = "absent" =>
                  \A k \in Kompetitors : summaries'[o][k] = <<>>
             /\ batches'[o].status = "running" =>
                  \E x \in Workers :
                      /\ InHand(x, o)'
                      /\ \/ pc'[x] = "mark"
                         \/ \A k \in Kompetitors : summaries'[o][k] = <<>>
  BY <1>1, <1>3, <1>5, <1>6 DEF HandedOn
<1> QED
  BY <1>1, <1>2, <1>4, <1>6 DEF HandedOn

\* The mark ends the import's duty, and that of every other in the batch.
LEMMA MarkHands ==
    ASSUME IInv, Opened, HandedOn, NEW w \in Workers, MarkCompleted(w)
    PROVE  HandedOn'
<1> USE DEF IInv
<1>1. pc[w] = "mark" /\ summaries' = summaries
  BY DEF MarkCompleted, At
<1>2. PICK b \in BatchIds : b = job[w].batch
  BY <1>1 DEF WorkerInv, Located, Steps, ImportSteps
<1>3. /\ batches'[b].status = "completed"
      /\ \A o \in BatchIds : o # b => batches'[o] = batches[o]
  BY <1>2 DEF MarkCompleted, TypeOK
<1>4. ASSUME NEW x \in Workers, NEW o \in BatchIds, o # b, InHand(x, o)
      PROVE  InHand(x, o)' /\ pc'[x] = pc[x]
  <2>1. x # w
    BY <1>2, <1>4 DEF InHand
  <2> QED
    BY <1>4, <2>1, OthersInHand DEF Step
<1>5. ASSUME NEW o \in BatchIds, o # b
      PROVE  /\ batches'[o].status = "absent" =>
                  \A k \in Kompetitors : summaries'[o][k] = <<>>
             /\ batches'[o].status = "running" =>
                  \E x \in Workers :
                      /\ InHand(x, o)'
                      /\ \/ pc'[x] = "mark"
                         \/ \A k \in Kompetitors : summaries'[o][k] = <<>>
  BY <1>1, <1>3, <1>4, <1>5 DEF HandedOn
<1> QED
  BY <1>3, <1>5 DEF HandedOn

\* An import that gives up either holds no batch yet, or leaves its batch to
\* the one whose summaries it collided with.
LEMMA GiveUpHands ==
    ASSUME IInv, HandedOn, ~FaultsAllowed, NEW w \in Workers, StatementFails(w)
    PROVE  HandedOn'
<1> USE DEF IInv
<1>1. UNCHANGED <<batches, summaries>>
  BY DEF StatementFails, tables
<1>2. ASSUME NEW x \in Workers, NEW o \in BatchIds, InHand(x, o), x # w
      PROVE  InHand(x, o)' /\ pc'[x] = pc[x]
  BY <1>2, OthersInHand DEF Step
<1>3. CASE pc[w] = "insert"
  <2>1. \A o \in BatchIds : ~InHand(w, o)
    BY <1>3 DEF InHand
  <2> QED
    BY <1>1, <1>2, <2>1, StillInHand
<1>4. CASE pc[w] = "write" /\ SummaryCollisions(w) # {}
  <2>1. PICK k \in Kompetitors : summaries[job[w].batch][k] # <<>>
    BY <1>4 DEF SummaryCollisions
  <2>2. ASSUME NEW o \in BatchIds, batches[o].status = "running"
        PROVE  \E x \in Workers :
                   /\ InHand(x, o)'
                   /\ \/ pc'[x] = "mark"
                      \/ \A s \in Kompetitors : summaries'[o][s] = <<>>
    <3>1. PICK x \in Workers :
            /\ InHand(x, o)
            /\ pc[x] = "mark" \/ \A s \in Kompetitors : summaries[o][s] = <<>>
      BY <2>2 DEF HandedOn
    <3>2. x # w
      BY <1>4, <2>1, <3>1 DEF InHand
    <3> QED
      BY <1>1, <1>2, <3>1, <3>2
  <2> QED
    BY <1>1, <2>2 DEF HandedOn
<1> QED
  BY <1>3, <1>4 DEF StatementFails, At

LEMMA HandedOnStep ==
    ASSUME IInv, Opened, HandedOn, ~FaultsAllowed, [Next]_vars
    PROVE  HandedOn'
<1> USE DEF IInv
<1>1. CASE UNCHANGED <<batches, summaries, pc, job>>
  <2>1. \A x \in Workers, b \in BatchIds : InHand(x, b) => InHand(x, b)'
    BY <1>1 DEF InHand
  <2> QED
    BY <1>1, <2>1, StillInHand
<1>2. ASSUME NEW w \in Workers, Begin(w) \/ Step(w)
      PROVE  HandedOn'
  <2> DEFINE Stays ==
        /\ UNCHANGED <<batches, summaries>>
        /\ \A b \in BatchIds :
             InHand(w, b) => InHand(w, b)' /\ (pc[w] = "mark" => pc'[w] = "mark")
  <2>1. CASE Stays
    <3>1. ASSUME NEW x \in Workers, NEW b \in BatchIds, InHand(x, b)
          PROVE  InHand(x, b)' /\ (pc[x] = "mark" => pc'[x] = "mark")
      BY <1>2, <2>1, <3>1, OthersInHand
    <3> QED
      BY <2>1, <3>1, StillInHand
  <2>2. CASE Begin(w) \/ FindBatch(w)
    <3>1. \A b \in BatchIds : ~InHand(w, b)
      BY <2>2 DEF Begin, FindBatch, At, InHand
    <3> QED
      BY <2>1, <2>2, <3>1 DEF Begin, FindBatch, tables
  <2>3. CASE ReplaceProducts(w)
    BY <2>1, <2>3 DEF ReplaceProducts, At, Goto, InHand, TypeOK
  <2>4. CASE AggregateProducts(w) \/ FindSummaries(w)
    <3>1. job'[w].batch = job[w].batch /\ pc[w] # "mark"
      BY <2>4 DEF AggregateProducts, FindSummaries, TypeOK, Jobs, At
    <3>2. pc'[w] \in {"lookup", "write"}
      BY <2>4 DEF AggregateProducts, FindSummaries, Goto, TypeOK
    <3> QED
      BY <2>1, <2>4, <3>1, <3>2 DEF AggregateProducts, FindSummaries, InHand, tables
  <2>5. CASE CreateBatch(w)
    BY <2>5, CreateHands
  <2>6. CASE WriteSummaries(w)
    BY <2>6, WriteHands
  <2>7. CASE MarkCompleted(w)
    BY <2>7, MarkHands
  <2>8. CASE StatementFails(w)
    BY <2>8, GiveUpHands
  <2>9. CASE pc[w] \in Marked /\ UNCHANGED <<batches, summaries>>
    BY <2>1, <2>9 DEF Marked, MapReads, MemorySteps, InHand
  <2>10. CASE ReadProducts(w) \/ ReadItems(w) \/ ForgetIdf(w) \/ GetIdf(w)
              \/ ReadNames(w) \/ ReadItemNames(w) \/ SetIdf(w) \/ ReadAllowed(w)
              \/ ReplaceMappings(w) \/ MappingFails(w)
    BY <2>9, <2>10 DEF ReadProducts, ReadItems, ForgetIdf, GetIdf, ReadNames,
       ReadItemNames, SetIdf, ReadAllowed, ReplaceMappings, MappingFails, At,
       Marked, MapReads, MemorySteps, tables
  <2> QED
    BY <1>2, <2>2, <2>3, <2>4, <2>5, <2>6, <2>7, <2>8, <2>10 DEF Step
<1>3. ASSUME NEW p \in Procs, Crash(p) \/ ExpireIdf(p)
      PROVE  HandedOn'
  BY <1>1, <1>3 DEF Crash, ExpireIdf, tables
<1>4. ASSUME NEW i \in Items, EditCell(i)
      PROVE  HandedOn'
  BY <1>1, <1>4 DEF EditCell, CellsBecome
<1> QED
  BY <1>1, <1>2, <1>3, <1>4 DEF Next, Finished, vars, tables

-----------------------------------------------------------------------------
(* The theorems.                                                           *)

\* The invariant is inductive.
LEMMA IInvStep == IInv /\ [Next]_vars => IInv'
<1> SUFFICES ASSUME IInv, [Next]_vars PROVE IInv'
  OBVIOUS
<1>1. TypeOK' /\ Grows
  BY TypeStep, GrowsStep
<1>2. ASSUME NEW w \in Workers
      PROVE  WorkerInv(w)'
  <2>1. CASE pc'[w] = pc[w] /\ job'[w] = job[w]
    BY <1>1, <2>1, Bystander
  <2>2. CASE pc'[w] = "idle"
    BY <2>2, Idle
  <2>3. ASSUME NEW x \in Workers, Begin(x) \/ Step(x)
        PROVE  WorkerInv(w)'
    <3>1. CASE x = w
      BY <1>1, <2>3, <3>1, ActorStep
    <3>2. CASE x # w
      BY <2>1, <2>3, <3>2, Others
    <3> QED
      BY <3>1, <3>2
  <2>4. ASSUME NEW p \in Procs, Crash(p)
        PROVE  WorkerInv(w)'
    BY <2>1, <2>2, <2>4 DEF Crash, Leave
  <2> QED
    BY <2>1, <2>3, <2>4
       DEF Next, ExpireIdf, EditCell, CellsBecome, Finished, vars
<1> QED
  BY <1>1, <1>2, VersionedStep, SummaryStep, AckedStep DEF IInv

\* Whoever else changes the cells breaks nothing the imports rely on.
LEMMA CellsKeepIInv ==
    ASSUME IInv, NEW lists \in [Items -> SUBSET Kompetitors], CellsBecome(lists),
           UNCHANGED edits
    PROVE  IInv' /\ Grows
<1>1. TypeOK'
  BY DEF IInv, CellsBecome, TypeOK
<1>2. Grows
  BY UnchangedGrows DEF IInv, CellsBecome
<1>3. \A w \in Workers : WorkerInv(w)'
  BY <1>1, <1>2, Bystander DEF CellsBecome
<1> QED
  BY <1>1, <1>2, <1>3
     DEF IInv, CellsBecome, Versioned, SummaryFromStored, AckedDurable, HasRows

\* Every reachable state satisfies the inductive invariant.
LEMMA Inductive == Spec => []IInv
BY InitIInv, IInvStep, PTL DEF Spec

\* Type correctness: every row, cache entry and local of every reachable state
\* is what its column or type allows, and no stored row has a blank name.
THEOREM TypeCorrect == Spec => []TypeOK
BY Inductive, PTL DEF IInv

\* However many imports of however many processes overlap, fail or crash: a
\* store whose import was answered "ok" keeps its rows, a summary and a
\* completed batch.
THEOREM AckedImportsAreDurable == Spec => []AckedDurable
BY Inductive, PTL DEF IInv

\* Every summary row of every batch aggregates rows the store really had there,
\* and the store still has rows there.
THEOREM SummariesDescribeRows == Spec => []SummaryFromStored
BY Inductive, PTL DEF IInv

\* A batch the panels can read is never taken back.
THEOREM CompletedStaysCompleted == Spec => NeverUncompleted
<1>1. IInv /\ [Next]_vars =>
        [\A b \in BatchIds : batches[b].status = "completed" =>
                               batches'[b].status = "completed"]_vars
  BY GrowsStep DEF Grows
<1> QED
  BY <1>1, Inductive, PTL DEF Spec, NeverUncompleted

\* However many imports of one code overlap and collide on a unique key: unless
\* a statement fails or a process dies, a batch that is still "running" is in
\* the hands of an import that has yet to mark it.
THEOREM RunningBatchesAreInHand == Spec => []RunningInHand
<1>1. CASE FaultsAllowed
  <2>1. RunningInHand
    BY <1>1 DEF RunningInHand
  <2> QED
    BY <2>1, PTL
<1>2. CASE ~FaultsAllowed
  <2>1. IInv /\ Opened /\ HandedOn /\ [Next]_vars => HandedOn'
    BY <1>2, HandedOnStep
  <2>2. HandedOn => RunningInHand
    BY DEF HandedOn, RunningInHand
  <2> QED
    BY <2>1, <2>2, Inductive, InitOpened, OpenedStep, InitHandedOn, PTL DEF Spec
<1> QED
  BY <1>1, <1>2
=============================================================================
