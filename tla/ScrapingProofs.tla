--------------------------- MODULE ScrapingProofs ---------------------------
(***************************************************************************)
(* The import pipeline implements Scraping: every statement of every       *)
(* request is a step of the abstract batch or invisible to the panels, for *)
(* any numbers of workers, processes, stores and batches, with and without *)
(* unique keys and faults.                                                 *)
(*                                                                         *)
(* Beyond IInv the mapping needs that an import only ever works in a batch *)
(* there is (Opened, both of IngestProofs): otherwise its rows would be    *)
(* stored in a batch no panel can be told of.                              *)
(***************************************************************************)
EXTENDS IngestProofs

-----------------------------------------------------------------------------
(* The steps.                                                              *)

\* A step that changes nothing the panels see.
LEMMA Invisible ==
    ASSUME UNCHANGED <<batches, products, summaries, acked>>
    PROVE  UNCHANGED Promise!vars
BY DEF Promise!vars, Described

\* An acknowledgement.
LEMMA AckImplements ==
    ASSUME IInv, NEW w \in Workers, pc[w] \in Marked,
           UNCHANGED <<batches, products, summaries>>,
           acked' = acked \cup {<<job[w].batch, job[w].kompetitor>>}
    PROVE  Promise!Next
<1> USE DEF IInv
<1>1. PICK b \in BatchIds, k \in Kompetitors :
        /\ b = job[w].batch /\ k = job[w].kompetitor
        /\ batches[b].status = "completed" /\ summaries[b][k] # <<>>
  BY DEF WorkerInv, Marked, Summarised, Located, Steps, ImportSteps, MapReads,
         MemorySteps
<1>2. summaries[b][k] \in Seq(Nat)
  BY <1>1 DEF TypeOK
<1>3. Described(b, k) # {}
  <2>1. 1 \in 1..Len(summaries[b][k])
    BY <1>1, <1>2, EmptySeq
  <2> QED
    BY <2>1 DEF Described
<1>4. Promise!Acknowledge(b, k)
  <2>1. acked' = acked \cup {<<b, k>>}
    BY <1>1
  <2>2. UNCHANGED [o \in BatchIds |-> [s \in Kompetitors |-> Described(o, s)]]
    BY DEF Described
  <2> QED
    BY <1>1, <1>3, <2>1, <2>2 DEF Promise!Acknowledge
<1> QED
  BY <1>1, <1>4 DEF Promise!Next

\* FirstOrCreateBatch's INSERT opens a batch.
LEMMA CreateImplements ==
    ASSUME IInv, NEW w \in Workers, CreateBatch(w)
    PROVE  Promise!Next
<1> USE DEF IInv
<1>1. PICK b \in BatchIds :
        /\ batches[b].status = "absent"
        /\ batches' = [batches EXCEPT ![b] = [code |-> job[w].code,
                                             status |-> "running"]]
  BY DEF CreateBatch, First
<1>2. [o \in BatchIds |-> batches'[o].status] =
        [[o \in BatchIds |-> batches[o].status] EXCEPT ![b] = "running"]
  BY <1>1 DEF TypeOK
<1>3. UNCHANGED <<products, summaries, acked>>
  BY DEF CreateBatch, history
<1>4. Promise!Open(b)
  BY <1>1, <1>2, <1>3 DEF Promise!Open, Described
<1> QED
  BY <1>4 DEF Promise!Next

\* ReplaceProducts stores another file of the store.
LEMMA ReplaceImplements ==
    ASSUME IInv, Opened, NEW w \in Workers, ReplaceProducts(w)
    PROVE  Promise!Next
<1> USE DEF IInv
<1>1. PICK b \in BatchIds, k \in Kompetitors :
        /\ b = job[w].batch /\ k = job[w].kompetitor
        /\ batches[b].status # "absent"
  BY DEF ReplaceProducts, At, WorkerInv, Opened, Located, Steps, ImportSteps
<1>2. products' = [products EXCEPT ![b][k] =
                     [version |-> @.version + 1, titles |-> job[w].titles]]
  BY <1>1 DEF ReplaceProducts
<1>3. [o \in BatchIds |-> [s \in Kompetitors |-> products'[o][s].version]] =
        [[o \in BatchIds |-> [s \in Kompetitors |-> products[o][s].version]]
           EXCEPT ![b][k] = @ + 1]
  BY <1>1, <1>2 DEF TypeOK
<1>4. UNCHANGED <<batches, summaries, acked>>
  BY DEF ReplaceProducts, history
<1>5. Promise!Store(b, k)
  BY <1>1, <1>3, <1>4 DEF Promise!Store, Described
<1> QED
  BY <1>1, <1>5 DEF Promise!Next

\* ComputeSummaries' commit only replaces and adds summaries.
LEMMA SummariseImplements ==
    ASSUME IInv, NEW w \in Workers, WriteSummaries(w)
    PROVE  Promise!Next
<1> USE DEF IInv
<1>0. job[w] \in Jobs
  BY DEF TypeOK
<1>1. PICK b \in BatchIds :
      /\ WorkerInv(w) /\ pc[w] = "write" /\ b = job[w].batch
      /\ \A k \in Kompetitors : job[w].sums[k] \in Nat
  BY <1>0 DEF WriteSummaries, At, WorkerInv, Located, Steps, ImportSteps, Jobs
<1>2. \A o \in BatchIds, k \in Kompetitors :
        summaries'[o][k] = IF o = b THEN WrittenSummary(w, k) ELSE summaries[o][k]
  BY <1>1 DEF WriteSummaries, TypeOK
<1>3. ASSUME NEW k \in Kompetitors
      PROVE  /\ Described(b, k)' \subseteq Described(b, k) \cup 1..products[b][k].version
             /\ Described(b, k) # {} => Described(b, k)' # {}
  <2>1. summaries'[b][k] = WrittenSummary(w, k) /\ summaries'[b][k] \in Seq(Nat)
        /\ (summaries[b][k] # <<>> => summaries'[b][k] # <<>>)
    BY <1>1, <1>2, WrittenType
  <2>2. ASSUME NEW n \in 1..Len(summaries'[b][k])
        PROVE  summaries'[b][k][n] \in Described(b, k) \cup 1..products[b][k].version
    <3>1. \/ job[w].sums[k] # 0 /\ summaries'[b][k][n] = job[w].sums[k]
          \/ n \in 1..Len(summaries[b][k])
             /\ summaries'[b][k][n] = summaries[b][k][n]
      BY <1>1, <2>1, <2>2, WrittenType
    <3>2. CASE job[w].sums[k] # 0 /\ summaries'[b][k][n] = job[w].sums[k]
      <4>1. job[w].sums[k] <= products[b][k].version
        BY <1>1, <3>2 DEF WorkerInv
      <4>2. products[b][k].version \in Nat
        BY <1>1 DEF TypeOK, Loads
      <4> QED
        BY <1>1, <3>2, <4>1, <4>2
    <3> QED
      BY <3>1, <3>2 DEF Described
  <2>3. Described(b, k) # {} => summaries[b][k] # <<>>
    BY EmptySeq DEF Described
  <2>4. summaries'[b][k] # <<>> => Described(b, k)' # {}
    <3>1. summaries'[b][k] # <<>> => 1 \in 1..Len(summaries'[b][k])
      BY <2>1, EmptySeq
    <3> QED
      BY <3>1 DEF Described
  <2>5. Described(b, k)' \subseteq Described(b, k) \cup 1..products[b][k].version
    BY <2>2 DEF Described
  <2> QED
    BY <2>1, <2>3, <2>4, <2>5
<1>4. \A o \in BatchIds, k \in Kompetitors :
        o # b => Described(o, k)' = Described(o, k)
  BY <1>2 DEF Described
<1>5. UNCHANGED <<batches, products, acked>>
  BY DEF WriteSummaries, history
<1>6. Promise!Summarise(b)
  <2> DEFINE old == [o \in BatchIds |-> [k \in Kompetitors |-> Described(o, k)]]
             new == [o \in BatchIds |-> [k \in Kompetitors |-> Described(o, k)]]'
             row == [k \in Kompetitors |-> new[b][k]]
  <2>1. \A k \in Kompetitors :
          /\ new[b][k] \subseteq old[b][k] \cup 1..products[b][k].version
          /\ old[b][k] # {} => new[b][k] # {}
    BY <1>1, <1>3
  <2>2. \A o \in BatchIds : new[o] = [old EXCEPT ![b] = row][o]
    BY <1>1, <1>4
  <2>3. new = [old EXCEPT ![b] = row]
    BY <2>2
  <2>4. \A k \in Kompetitors :
          [o \in BatchIds |-> [s \in Kompetitors |-> products[o][s].version]][b][k]
            = products[b][k].version
    BY <1>1
  <2> QED
    BY <1>5, <2>1, <2>3, <2>4 DEF Promise!Summarise
<1> QED
  BY <1>1, <1>6 DEF Promise!Next

\* MarkStatus completes a batch that has the import's own summary.
LEMMA CompleteImplements ==
    ASSUME IInv, Opened, NEW w \in Workers, MarkCompleted(w)
    PROVE  Promise!Next \/ UNCHANGED Promise!vars
<1> USE DEF IInv
<1>1. PICK b \in BatchIds, k \in Kompetitors :
        /\ b = job[w].batch /\ k = job[w].kompetitor
        /\ batches[b].status # "absent" /\ summaries[b][k] # <<>>
  BY DEF MarkCompleted, At, WorkerInv, Opened, Summarised, Located, Steps, ImportSteps
<1>2. /\ batches' = [batches EXCEPT ![b].status = "completed"]
      /\ UNCHANGED <<products, summaries, acked>>
  BY <1>1 DEF MarkCompleted, history
<1>3. CASE batches[b].status = "completed"
  <2>1. [o \in BatchIds |-> batches'[o].status] = [o \in BatchIds |-> batches[o].status]
    BY <1>1, <1>2, <1>3 DEF TypeOK
  <2> QED
    BY <1>2, <2>1 DEF Promise!vars, Described
<1>4. CASE batches[b].status = "running"
  <2>1. [o \in BatchIds |-> batches'[o].status] =
          [[o \in BatchIds |-> batches[o].status] EXCEPT ![b] = "completed"]
    BY <1>1, <1>2 DEF TypeOK
  <2>2. Described(b, k) # {}
    <3>1. 1 \in 1..Len(summaries[b][k])
      BY <1>1, EmptySeq DEF TypeOK
    <3> QED
      BY <3>1 DEF Described
  <2>3. Promise!Complete(b)
    <3>1. UNCHANGED [o \in BatchIds |-> [s \in Kompetitors |-> Described(o, s)]]
      BY <1>2 DEF Described
    <3> QED
      BY <1>1, <1>2, <1>4, <2>1, <2>2, <3>1 DEF Promise!Complete
  <2> QED
    BY <1>1, <2>3 DEF Promise!Next
<1> QED
  BY <1>1, <1>3, <1>4 DEF TypeOK

-----------------------------------------------------------------------------
\* Every step of the pipeline is one of the abstract batch or a stutter.
LEMMA StepImplements ==
    IInv /\ Opened /\ [Next]_vars => [Promise!Next]_(Promise!vars)
<1> SUFFICES ASSUME IInv, Opened, [Next]_vars
             PROVE  Promise!Next \/ UNCHANGED Promise!vars
  OBVIOUS
<1>1. CASE UNCHANGED <<batches, products, summaries, acked>>
  BY <1>1, Invisible
<1>2. ASSUME NEW w \in Workers, pc[w] \in Marked,
             UNCHANGED <<batches, products, summaries>>,
             AnswerOk(w, TRUE) \/ AnswerOk(w, FALSE)
      PROVE  Promise!Next
  BY <1>2, AckImplements DEF AnswerOk
<1>3. ASSUME NEW w \in Workers, Begin(w) \/ Step(w)
      PROVE  Promise!Next \/ UNCHANGED Promise!vars
  <2> USE DEF tables, history
  <2>1. CASE Begin(w) \/ FindBatch(w) \/ AggregateProducts(w) \/ FindSummaries(w)
    BY <1>1, <2>1 DEF Begin, FindBatch, AggregateProducts, FindSummaries
  <2>2. CASE StatementFails(w)
    BY <1>1, <2>2 DEF StatementFails, AnswerError
  <2>3. CASE ForgetIdf(w) \/ GetIdf(w) \/ ReadNames(w) \/ ReadItemNames(w)
             \/ SetIdf(w) \/ ReadAllowed(w)
    BY <1>1, <2>3 DEF ForgetIdf, GetIdf, ReadNames, ReadItemNames, SetIdf, ReadAllowed
  <2>4. CASE ReadProducts(w) \/ ReadItems(w)
    BY <1>1, <1>2, <2>4 DEF ReadProducts, ReadItems, At, Marked, MapReads
  <2>5. CASE ReplaceMappings(w) \/ MappingFails(w)
    BY <1>2, <2>5 DEF ReplaceMappings, MappingFails, At, Marked, MapReads
  <2>6. CASE CreateBatch(w) \/ ReplaceProducts(w) \/ WriteSummaries(w)
             \/ MarkCompleted(w)
    BY <2>6, CreateImplements, ReplaceImplements, SummariseImplements,
       CompleteImplements
  <2> QED
    BY <1>3, <2>1, <2>2, <2>3, <2>4, <2>5, <2>6 DEF Step
<1>4. ASSUME NEW p \in Procs, Crash(p) \/ ExpireIdf(p)
      PROVE  Promise!Next \/ UNCHANGED Promise!vars
  BY <1>1, <1>4 DEF Crash, ExpireIdf, tables, history
<1>5. ASSUME NEW i \in Items, EditCell(i)
      PROVE  Promise!Next \/ UNCHANGED Promise!vars
  BY <1>1, <1>5 DEF EditCell, CellsBecome
<1> QED
  BY <1>1, <1>3, <1>4, <1>5 DEF Next, Finished, vars, tables, history

\* The statements of ImportProducts and mapBatch, however many requests overlap,
\* fail or crash, implement the abstract batch the panels rely on.
THEOREM PipelineImplementsScraping == Spec => ImplementsScraping
<1>1. Init => Promise!Init
  BY EmptySeq DEF Init, Promise!Init, Described, NoRows
<1>2. Init => Opened
  BY InitOpened
<1>3. IInv /\ Opened /\ [Next]_vars => Opened'
  BY OpenedStep
<1> QED
  BY <1>1, <1>2, <1>3, Inductive, StepImplements, PTL
     DEF Spec, ImplementsScraping, Promise!Spec
=============================================================================
