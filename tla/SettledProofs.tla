--------------------------- MODULE SettledProofs ----------------------------
(***************************************************************************)
(* Proofs about the imports that repair: one that runs alone in its batch  *)
(* and to its end, with no failure and no cell changed under it, leaves    *)
(* the batch with the summaries and matches of its rows, for any numbers   *)
(* of workers, processes, stores, batches and items.                       *)
(*                                                                         *)
(* A clean import is the only one of its code (Alone) and works in a batch *)
(* of that code (Placed), so nobody else touches what it has read, and the *)
(* locals it carries from statement to statement stay those of the tables  *)
(* (Exact).                                                                *)
(***************************************************************************)
EXTENDS IngestProofs

\* Where the schema keeps summaries unique a store has one of a batch.
OneSummary ==
    UniqueKeys => \A b \in BatchIds, k \in Kompetitors : Len(summaries[b][k]) <= 1

\* A primary key that is not taken has no code.
Blank(b) == batches[b].status = "absent" => batches[b].code = None

\* A request has a code, and works in a batch of its code.
Placed(w) ==
    /\ pc[w] # "idle" => job[w].code # None
    /\ pc[w] \in Located =>
         /\ batches[job[w].batch].status # "absent"
         /\ batches[job[w].batch].code = job[w].code

\* A clean import is under way, and no other import of its code is.
Alone(w) ==
    w \in clean =>
        /\ pc[w] # "idle"
        /\ \A o \in Workers : pc[o] # "idle" /\ job[o].code = job[w].code => o = w

\* The summaries of a batch are those of its rows.
Rebuilt(b) ==
    UniqueKeys => \A k \in Kompetitors :
        summaries[b][k] = IF HasRows(b, k) THEN <<products[b][k].version>> ELSE <<>>

\* So are its matches, as long as some item can be matched at all.
Remapped(b) ==
    Mappable # {} =>
        mappings[b] = ComputeMatches(Mappable, products[b], Allowed, Items)

Read     == {"mapItems"} \cup MemorySteps \cup {"names", "itemNames", "allowed",
                                                "mapReplace"}
Selected == Read \ {"mapItems"}
Weighed  == {"set", "allowed", "mapReplace"}

\* What a clean import carries is what the tables hold.
Exact(w) ==
    LET j == job[w] IN
    w \in clean =>
        /\ pc[w] \in {"lookup", "write"} => j.sums = Aggregates(j.batch)
        /\ pc[w] = "write" =>
             \A k \in Kompetitors :
                 k \in j.known <=> j.sums[k] # 0 /\ summaries[j.batch][k] # <<>>
        /\ pc[w] \in Summarised => Rebuilt(j.batch)
        /\ pc[w] \in Read => j.rows = products[j.batch]
        /\ pc[w] \in Selected => j.items = Mappable
        /\ pc[w] = "get" => cache[ProcOf[w]][{j.batch}] = NoCorpus
        /\ pc[w] \in Weighed => Mappable \subseteq j.corpus
        /\ pc[w] = "mapReplace" => j.allowed = Allowed

\* Nobody is at work in a settled batch, and it is as it should be.
Held(b) ==
    b \in settled =>
        /\ batches[b].status # "absent"
        /\ \A w \in Workers : pc[w] # "idle" => job[w].code # batches[b].code
        /\ Rebuilt(b) /\ Remapped(b)

SettledInv ==
    /\ IInv /\ OneSummary
    /\ \A w \in Workers : Placed(w) /\ Alone(w) /\ Exact(w)
    /\ \A b \in BatchIds : Blank(b) /\ Held(b)

-----------------------------------------------------------------------------
\* An import that commits its summaries collides with none, or fails.
LEMMA OneSummaryStep ==
    ASSUME IInv, OneSummary, [Next]_vars
    PROVE  OneSummary'
<1> SUFFICES ASSUME UniqueKeys, NEW b \in BatchIds, NEW k \in Kompetitors,
                    NEW w \in Workers, WriteSummaries(w), b = job[w].batch
             PROVE  Len(summaries'[b][k]) <= 1
  <2>1. ASSUME NEW w \in Workers, WriteSummaries(w), NEW b \in BatchIds, b # job[w].batch
        PROVE  summaries'[b] = summaries[b]
    BY <2>1 DEF WriteSummaries, IInv, TypeOK
  <2> QED
    BY <2>1, Writers DEF OneSummary
<1> DEFINE old == summaries[b][k]
           n == job[w].sums[k]
<1>1. /\ old \in Seq(Nat) /\ n \in Nat /\ Len(old) <= 1
      /\ summaries'[b][k] = WrittenSummary(w, k)
      /\ WorkerInv(w) /\ pc[w] = "write"
  BY DEF WriteSummaries, IInv, TypeOK, Jobs, OneSummary, At
<1>2. CASE n = 0
  BY <1>1, <1>2 DEF WrittenSummary
<1>3. CASE n # 0 /\ k \in job[w].known
  <2>1. old # <<>> /\ summaries'[b][k] = [old EXCEPT ![1] = n]
    BY <1>1, <1>3 DEF WrittenSummary, WorkerInv
  <2> QED
    BY <1>1, <2>1, FirstReplaced
<1>4. CASE n # 0 /\ k \notin job[w].known
  <2>1. old = <<>>
    BY <1>4 DEF WriteSummaries, SummaryCollisions
  <2>2. summaries'[b][k] = Append(old, n)
    BY <1>1, <1>4 DEF WrittenSummary
  <2> QED
    BY <1>1, <2>1, <2>2
<1> QED
  BY <1>2, <1>3, <1>4

-----------------------------------------------------------------------------
(* What a step of a request changes.                                       *)

\* A request keeps its code until it is answered, and only an import that is
\* answered leaves the clean ones or settles a batch.
LEMMA GoesOnOrEnds ==
    ASSUME TypeOK, NEW w \in Workers, Step(w)
    PROVE  \/ /\ pc[w] # "idle" /\ pc'[w] # "idle" /\ job'[w].code = job[w].code
              /\ clean' = clean /\ settled' = settled
           \/ /\ pc[w] # "idle" /\ pc'[w] = "idle" /\ clean' = clean \ {w}
              /\ settled' = settled
           \/ /\ pc[w] \in Marked /\ pc'[w] = "idle" /\ clean' = clean \ {w}
              /\ w \in clean /\ settled' = settled \cup {job[w].batch}
              /\ \/ ReadProducts(w) \/ ReadItems(w) \/ ReplaceMappings(w)
<1>1. pc \in [Workers -> Steps] /\ job \in [Workers -> Jobs]
  BY DEF TypeOK
<1>2. CASE AnswerError(w) /\ pc[w] # "idle"
  BY <1>1, <1>2 DEF AnswerError, Leave
<1>3. CASE AnswerOk(w, FALSE) /\ pc[w] # "idle"
  BY <1>1, <1>3 DEF AnswerOk, Leave
<1>4. CASE /\ AnswerOk(w, TRUE) /\ pc[w] \in Marked
           /\ \/ ReadProducts(w) \/ ReadItems(w) \/ ReplaceMappings(w)
  BY <1>1, <1>4 DEF AnswerOk, Leave, Marked, MapReads, MemorySteps
<1>5. CASE UNCHANGED job /\ UNCHANGED history /\ pc[w] # "idle"
           /\ \E step \in Steps \ {"idle"} : Goto(w, step)
  BY <1>1, <1>5 DEF Goto, history
<1>6. CASE FindBatch(w)
  <2>1. CASE BatchesOf(job[w].code) = {} /\ Goto(w, "insert") /\ UNCHANGED job
    BY <1>5, <1>6, <2>1 DEF FindBatch, At, Steps, ImportSteps
  <2>2. ASSUME NEW b \in BatchIds, Goto(w, "replace"),
               job' = [job EXCEPT ![w].batch = b]
        PROVE  job'[w].code = job[w].code /\ pc'[w] = "replace"
    BY <1>1, <2>2 DEF Goto, Jobs
  <2> QED
    BY <1>6, <2>1, <2>2 DEF FindBatch, At, history
<1>7. CASE CreateBatch(w)
  BY <1>1, <1>7 DEF CreateBatch, At, Goto, history
<1>8. CASE ReplaceProducts(w) \/ WriteSummaries(w) \/ MarkCompleted(w)
  BY <1>5, <1>8 DEF ReplaceProducts, WriteSummaries, MarkCompleted, At, Steps,
                    ImportSteps, MapReads
<1>9. CASE AggregateProducts(w)
  BY <1>1, <1>9 DEF AggregateProducts, At, Goto, history
<1>10. CASE FindSummaries(w)
  BY <1>1, <1>10 DEF FindSummaries, At, Goto, history
<1>11. CASE StatementFails(w)
  BY <1>2, <1>11 DEF StatementFails, ImportSteps
<1>12. CASE ReadProducts(w)
  <2>1. CASE \A k \in Kompetitors : ~HasRows(job[w].batch, k)
    BY <1>4, <1>12, <2>1 DEF ReadProducts, At, Marked, MapReads
  <2>2. CASE ~\A k \in Kompetitors : ~HasRows(job[w].batch, k)
    <3>1. /\ job' = [job EXCEPT ![w].rows = products[job[w].batch]]
          /\ pc' = [pc EXCEPT ![w] = "mapItems"] /\ pc[w] = "mapProducts"
          /\ UNCHANGED history
      BY <1>12, <2>2 DEF ReadProducts, At, Goto
    <3> QED
      BY <1>1, <3>1 DEF Jobs, history
  <2> QED
    BY <2>1, <2>2
<1>13. CASE ReadItems(w)
  <2>1. CASE Mappable = {}
    BY <1>4, <1>13, <2>1 DEF ReadItems, At, Marked, MapReads
  <2>2. CASE Mappable # {}
    <3>1. /\ job' = [job EXCEPT ![w].items = Mappable]
          /\ pc' = [pc EXCEPT ![w] = "forget"] /\ pc[w] = "mapItems"
          /\ UNCHANGED history
      BY <1>13, <2>2 DEF ReadItems, At, Goto
    <3> QED
      BY <1>1, <3>1 DEF Jobs, history
  <2> QED
    BY <2>1, <2>2
<1>14. CASE ForgetIdf(w) \/ SetIdf(w)
  BY <1>5, <1>14 DEF ForgetIdf, SetIdf, At, Steps, MemorySteps, MapReads
<1>15. CASE GetIdf(w)
  BY <1>1, <1>15 DEF GetIdf, At, Goto, history
<1>16. CASE ReadNames(w)
  BY <1>1, <1>16 DEF ReadNames, At, Goto, history
<1>17. CASE ReadItemNames(w)
  BY <1>1, <1>17 DEF ReadItemNames, At, Goto, history
<1>18. CASE ReadAllowed(w)
  BY <1>1, <1>18 DEF ReadAllowed, At, Goto, history
<1>19. CASE ReplaceMappings(w)
  BY <1>4, <1>19 DEF ReplaceMappings, At, Marked, MapReads
<1>20. CASE MappingFails(w)
  BY <1>3, <1>20 DEF MappingFails, MapReads
<1> QED
  BY <1>6, <1>7, <1>8, <1>9, <1>10, <1>11, <1>12, <1>13, <1>14, <1>15, <1>16,
     <1>17, <1>18, <1>19, <1>20 DEF Step

\* A step of a request leaves every batch alone that is there and not its own.
LEMMA Elsewhere ==
    ASSUME IInv, NEW w \in Workers, Step(w), NEW b \in BatchIds,
           batches[b].status # "absent", pc[w] \in Located => job[w].batch # b
    PROVE  /\ products'[b] = products[b] /\ summaries'[b] = summaries[b]
           /\ mappings'[b] = mappings[b] /\ batches'[b] = batches[b]
           /\ \A p \in Procs : cache'[p][{b}] = cache[p][{b}]
           /\ cells' = cells
<1>1. /\ TypeOK /\ WorkerInv(w) /\ {b} \in Keys
      /\ pc[w] \in Located => {job[w].batch} \in Keys /\ {job[w].batch} # {b}
  BY DEF IInv, WorkerInv, Keys
<1>2. CASE FindBatch(w) \/ CreateBatch(w)
  BY <1>1, <1>2 DEF FindBatch, CreateBatch, First, TypeOK, tables
<1>3. CASE ReplaceProducts(w) \/ WriteSummaries(w) \/ MarkCompleted(w)
  BY <1>1, <1>3 DEF ReplaceProducts, WriteSummaries, MarkCompleted, TypeOK, At,
                    Located, Steps, ImportSteps
<1>4. CASE ForgetIdf(w) \/ SetIdf(w)
  <2>1. pc[w] \in Located /\ UNCHANGED tables
    BY <1>4 DEF ForgetIdf, SetIdf, At, Located, Steps, MemorySteps
  <2>2. cache \in [Procs -> [Keys -> Corpora]]
    BY <1>1 DEF TypeOK
  <2>3. \E x : cache' = [cache EXCEPT ![ProcOf[w]][{job[w].batch}] = x]
    BY <1>4 DEF ForgetIdf, SetIdf
  <2> QED
    BY <1>1, <2>1, <2>2, <2>3 DEF tables
<1>5. CASE ReplaceMappings(w)
  BY <1>1, <1>5 DEF ReplaceMappings, TypeOK, At, Located, Steps, MapReads
<1>6. CASE \/ AggregateProducts(w) \/ FindSummaries(w) \/ StatementFails(w)
           \/ ReadProducts(w) \/ ReadItems(w) \/ GetIdf(w) \/ ReadNames(w)
           \/ ReadItemNames(w) \/ ReadAllowed(w) \/ MappingFails(w)
  BY <1>6 DEF AggregateProducts, FindSummaries, StatementFails, ReadProducts,
              ReadItems, GetIdf, ReadNames, ReadItemNames, ReadAllowed,
              MappingFails, tables
<1> QED
  BY <1>2, <1>3, <1>4, <1>5, <1>6 DEF Step

\* The batches change when one is created and when one is marked.
LEMMA BatchWriters ==
    ASSUME [Next]_vars, batches' # batches
    PROVE  \E w \in Workers : CreateBatch(w) \/ MarkCompleted(w)
<1>1. ASSUME NEW w \in Workers, Begin(w) \/ Step(w),
             ~CreateBatch(w), ~MarkCompleted(w)
      PROVE  batches' = batches
  BY <1>1 DEF Step, Begin, FindBatch, ReplaceProducts, AggregateProducts,
              FindSummaries, WriteSummaries, StatementFails, ReadProducts,
              ReadItems, ForgetIdf, GetIdf, ReadNames, ReadItemNames, SetIdf,
              ReadAllowed, ReplaceMappings, MappingFails, tables
<1> QED
  BY <1>1 DEF Next, Crash, ExpireIdf, EditCell, CellsBecome, Finished, vars,
              tables

\* A batch that is there keeps its code.
LEMMA CodesStay ==
    ASSUME IInv, [Next]_vars, NEW b \in BatchIds, batches[b].status # "absent"
    PROVE  batches'[b].status # "absent" /\ batches'[b].code = batches[b].code
<1>1. TypeOK
  BY DEF IInv
<1>2. CASE batches' = batches
  BY <1>2
<1>3. ASSUME NEW w \in Workers, CreateBatch(w) \/ MarkCompleted(w)
      PROVE  batches'[b].status # "absent" /\ batches'[b].code = batches[b].code
  <2>1. CASE CreateBatch(w)
    BY <1>1, <2>1 DEF CreateBatch, First, TypeOK
  <2>2. CASE MarkCompleted(w)
    BY <1>1, <2>2 DEF MarkCompleted, TypeOK
  <2> QED
    BY <1>3, <2>1, <2>2
<1> QED
  BY <1>2, <1>3, BatchWriters

-----------------------------------------------------------------------------
(* What nobody touched stays exact.                                        *)

\* The summaries, rows and matches of a batch that is left alone, and the cells.
Untouched(b) ==
    /\ products'[b] = products[b] /\ summaries'[b] = summaries[b]
    /\ mappings'[b] = mappings[b] /\ cells' = cells

LEMMA UntouchedKeeps ==
    ASSUME NEW b \in BatchIds, Untouched(b)
    PROVE  /\ Rebuilt(b) => Rebuilt(b)'
           /\ Remapped(b) => Remapped(b)'
           /\ Aggregates(b)' = Aggregates(b)
           /\ Mappable' = Mappable /\ Allowed' = Allowed
<1>1. \A k \in Kompetitors : HasRows(b, k)' <=> HasRows(b, k)
  BY DEF Untouched, HasRows
<1>2. Mappable' = Mappable /\ Allowed' = Allowed
  BY DEF Untouched, Mappable, Allowed
<1>3. Aggregates(b)' = Aggregates(b)
  BY <1>1 DEF Untouched, Aggregates
<1>4. Rebuilt(b) => Rebuilt(b)'
  BY <1>1 DEF Untouched, Rebuilt
<1>5. ComputeMatches(Mappable, products[b], Allowed, Items)'
         = ComputeMatches(Mappable, products[b], Allowed, Items)
  BY <1>2 DEF Untouched, ComputeMatches
<1>6. Remapped(b) => Remapped(b)'
  BY <1>2, <1>5 DEF Untouched, Remapped
<1> QED
  BY <1>2, <1>3, <1>4, <1>6

\* What a clean import carries stays what the tables hold, as long as nobody
\* touches its batch, the cells or, but for emptying it, its cache entry.
LEMMA ExactKept ==
    ASSUME IInv, NEW w \in Workers, Exact(w),
           pc'[w] = pc[w], job'[w] = job[w], w \in clean' => w \in clean,
           pc[w] \in Located => Untouched(job[w].batch),
           pc[w] = "get" => cache'[ProcOf[w]][{job[w].batch}]
                              \in {NoCorpus, cache[ProcOf[w]][{job[w].batch}]}
    PROVE  Exact(w)'
<1> DEFINE b == job[w].batch
<1>1. CASE pc[w] \notin Located \/ w \notin clean'
  BY <1>1 DEF Exact, Located, Steps, ImportSteps, MapReads, MemorySteps,
              Summarised, Read, Selected, Weighed
<1>2. CASE pc[w] \in Located /\ w \in clean'
  <2>1. b \in BatchIds /\ Untouched(b)
    BY <1>2 DEF IInv, WorkerInv
  <2>2. /\ Rebuilt(b) => Rebuilt(b)'
        /\ Aggregates(b)' = Aggregates(b)
        /\ Mappable' = Mappable /\ Allowed' = Allowed
    BY <2>1, UntouchedKeeps
  <2> QED
    BY <1>2, <2>1, <2>2 DEF Exact, Untouched
<1> QED
  BY <1>1, <1>2

\* A settled batch stays as it should be when nobody touches it.
LEMMA HeldKept ==
    ASSUME NEW b \in BatchIds, Held(b), b \in settled' => b \in settled,
           Untouched(b), batches'[b] = batches[b],
           \A w \in Workers : b \in settled /\ pc'[w] # "idle" =>
                                job'[w].code # batches[b].code
    PROVE  Held(b)'
BY UntouchedKeeps DEF Held

-----------------------------------------------------------------------------
(* The steps.                                                              *)

\* The commit of a clean import leaves one summary of each store with rows.
LEMMA CleanCommit ==
    ASSUME IInv, OneSummary, NEW w \in Workers, Exact(w), w \in clean,
           WriteSummaries(w)
    PROVE  Rebuilt(job[w].batch)'
<1> DEFINE b == job[w].batch
<1>1. /\ TypeOK /\ b \in BatchIds /\ WorkerInv(w) /\ pc[w] = "write"
      /\ job'[w] = job[w] /\ products' = products
      /\ job[w].sums = Aggregates(b)
  BY DEF IInv, WorkerInv, WriteSummaries, At, Exact, Located, Steps, ImportSteps
<1>2. SUFFICES ASSUME UniqueKeys, NEW k \in Kompetitors
               PROVE  summaries'[b][k] = IF HasRows(b, k)
                                         THEN <<products[b][k].version>> ELSE <<>>
  BY <1>1, <1>2 DEF Rebuilt, HasRows
<1> DEFINE old == summaries[b][k]
           n == products[b][k].version
<1>3. /\ old \in Seq(Nat) /\ n \in Nat /\ Len(old) <= 1
      /\ summaries'[b][k] = WrittenSummary(w, k)
      /\ job[w].sums[k] = IF HasRows(b, k) THEN n ELSE 0
  BY <1>1, <1>2 DEF WriteSummaries, TypeOK, Loads, OneSummary, Aggregates
<1>4. CASE ~HasRows(b, k)
  <2>1. \A i \in 1..Len(old) : FALSE
    BY <1>1, <1>4 DEF IInv, SummaryFromStored
  <2>2. old = <<>>
    <3>1. Len(old) = 0
      BY <1>3, <2>1, LenProperties
    <3> QED
      BY <1>3, <3>1, EmptySeq
  <2> QED
    BY <1>3, <1>4, <2>2 DEF WrittenSummary
<1>5. CASE HasRows(b, k)
  <2>1. n # 0 /\ (k \in job[w].known <=> old # <<>>)
    BY <1>1, <1>3, <1>5 DEF IInv, Versioned, Exact
  <2>2. CASE old = <<>>
    BY <1>3, <1>5, <2>1, <2>2 DEF WrittenSummary
  <2>3. CASE old # <<>>
    <3>1. summaries'[b][k] = [old EXCEPT ![1] = n] /\ Len(old) = 1
      <4>1. Len(old) \in Nat \ {0}
        BY <1>3, <2>3, EmptySeq
      <4>2. job[w].sums[k] = n /\ n # 0 /\ k \in job[w].known
        BY <1>3, <1>5, <2>1, <2>3
      <4>3. summaries'[b][k] = [old EXCEPT ![1] = n]
        BY <1>3, <4>2, Zenon DEF WrittenSummary
      <4>4. Len(old) <= 1
        BY <1>3, Zenon
      <4>5. \A x \in Nat \ {0} : x <= 1 => x = 1
        OBVIOUS
      <4> QED
        BY <4>1, <4>3, <4>4, <4>5, Zenon
    <3>2. <<n>> \in Seq(Nat) /\ Len(<<n>>) = 1 /\ <<n>>[1] = n
      BY <1>3
    <3>3. /\ [old EXCEPT ![1] = n] \in Seq(Nat) /\ Len([old EXCEPT ![1] = n]) = 1
          /\ [old EXCEPT ![1] = n][1] = n
      BY <1>3, <2>3, <3>1, FirstReplaced, ExceptSeq
    <3>4. [old EXCEPT ![1] = n] = <<n>>
      BY <3>2, <3>3, SeqEqual
    <3> QED
      BY <1>5, <3>1, <3>4
  <2> QED
    BY <2>2, <2>3
<1> QED
  BY <1>4, <1>5

\* What a clean import reads next is what the tables hold.
LEMMA ExactStep ==
    ASSUME IInv, OneSummary, NEW w \in Workers, Exact(w), Step(w)
    PROVE  Exact(w)'
<1> DEFINE b == job[w].batch
<1>1. /\ TypeOK /\ pc \in [Workers -> Steps] /\ job \in [Workers -> Jobs]
      /\ pc[w] \in Located => b \in BatchIds
  BY DEF IInv, TypeOK, WorkerInv
<1>2. CASE w \notin clean'
  BY <1>2 DEF Exact
<1>3. CASE pc'[w] \in {"idle", "select", "insert", "replace", "aggregate"}
  BY <1>3 DEF Exact, Summarised, Read, Selected, Weighed, MapReads, MemorySteps
<1>4. CASE FindBatch(w) \/ CreateBatch(w) \/ ReplaceProducts(w)
  BY <1>1, <1>3, <1>4 DEF FindBatch, CreateBatch, ReplaceProducts, Goto
<1>5. CASE \/ StatementFails(w) \/ ReplaceMappings(w) \/ MappingFails(w)
  BY <1>1, <1>2, <1>5, GoesOnOrEnds
     DEF StatementFails, ReplaceMappings, MappingFails, AnswerError, AnswerOk
<1>6. CASE AggregateProducts(w)
  <2>1. /\ pc'[w] = "lookup" /\ job'[w].batch = b
        /\ job'[w].sums = Aggregates(b) /\ products' = products
    BY <1>1, <1>6 DEF AggregateProducts, Goto, tables, Jobs
  <2>2. Aggregates(job[w].batch)' = Aggregates(b)
    BY <2>1 DEF Aggregates, HasRows
  <2> QED
    BY <2>1, <2>2 DEF Exact, Summarised, Read, Selected, Weighed, MapReads,
                      MemorySteps
<1>7. CASE FindSummaries(w) /\ w \in clean'
  <2>1. /\ pc[w] = "lookup" /\ pc'[w] = "write" /\ job'[w].batch = b /\ w \in clean
        /\ job'[w].sums = job[w].sums
        /\ job'[w].known = {k \in Kompetitors : job[w].sums[k] # 0
                                                  /\ summaries[b][k] # <<>>}
        /\ products' = products /\ summaries' = summaries
    BY <1>1, <1>7 DEF FindSummaries, At, Goto, tables, history, Jobs
  <2>2. Aggregates(job[w].batch)' = Aggregates(b)
    BY <2>1 DEF Aggregates, HasRows
  <2> QED
    BY <2>1, <2>2 DEF Exact, Summarised, Read, Selected, Weighed, MapReads,
                      MemorySteps
<1>8. CASE WriteSummaries(w) /\ w \in clean'
  <2>1. pc'[w] = "mark" /\ w \in clean
    BY <1>1, <1>8 DEF WriteSummaries, Goto, history
  <2>2. Rebuilt(job[w].batch)'
    BY <1>8, <2>1, CleanCommit
  <2> QED
    BY <2>1, <2>2 DEF Exact, Read, Selected, Weighed, MapReads, MemorySteps
<1>9. CASE /\ w \in clean' /\ pc'[w] # "idle"
           /\ \/ MarkCompleted(w) \/ ReadProducts(w) \/ ReadItems(w) \/ ForgetIdf(w)
              \/ GetIdf(w) \/ ReadNames(w) \/ ReadItemNames(w) \/ SetIdf(w)
              \/ ReadAllowed(w)
  <2>1. /\ w \in clean /\ pc[w] \in Summarised /\ pc[w] \in Located
        /\ b \in BatchIds /\ job'[w].batch = b /\ pc'[w] \in Marked
        /\ products' = products /\ summaries' = summaries /\ cells' = cells
        /\ mappings' = mappings
    <3>1. CASE MarkCompleted(w) \/ ForgetIdf(w) \/ SetIdf(w)
      BY <1>1, <1>9, <3>1 DEF MarkCompleted, ForgetIdf, SetIdf, At, Goto, history,
         tables, Located, Summarised, Marked, Steps, ImportSteps, MapReads, MemorySteps
    <3>2. CASE ReadProducts(w) \/ ReadItems(w)
      <4>1. pc'[w] # "idle" /\ AnswerOk(w, TRUE) => FALSE
        BY <1>1 DEF AnswerOk, Leave
      <4> QED
        BY <1>1, <1>9, <3>2, <4>1 DEF ReadProducts, ReadItems, At, Goto, history, Jobs,
         tables, Located, Summarised, Marked, Steps, ImportSteps, MapReads, MemorySteps
    <3>3. CASE GetIdf(w) \/ ReadNames(w)
      BY <1>1, <1>9, <3>3 DEF GetIdf, ReadNames, At, Goto, history, Jobs,
         tables, Located, Summarised, Marked, Steps, ImportSteps, MapReads, MemorySteps
    <3>4. CASE ReadItemNames(w) \/ ReadAllowed(w)
      BY <1>1, <1>9, <3>4 DEF ReadItemNames, ReadAllowed, At, Goto, history, Jobs,
         tables, Located, Summarised, Marked, Steps, ImportSteps, MapReads, MemorySteps
    <3> QED
      BY <1>9, <3>1, <3>2, <3>3, <3>4
  <2>2. Rebuilt(b)' /\ Mappable' = Mappable /\ Allowed' = Allowed
    BY <2>1, UntouchedKeeps DEF Untouched, Exact
  <2>3. Rebuilt(job[w].batch)'
    BY <2>1, <2>2 DEF Rebuilt, HasRows
  <2>4. CASE MarkCompleted(w)
    <3>1. pc'[w] = "mapProducts"
      BY <1>1, <2>4 DEF MarkCompleted, Goto
    <3> QED
      BY <2>3, <3>1 DEF Exact, Read, Selected, Weighed, MemorySteps
  <2>5. CASE ReadProducts(w)
    <3>1. pc'[w] = "mapItems" /\ job'[w].rows = products[b]
      <4>1. pc'[w] # "idle" /\ AnswerOk(w, TRUE) => FALSE
        BY <1>1 DEF AnswerOk, Leave
      <4>2. /\ job' = [job EXCEPT ![w].rows = products[b]]
            /\ pc' = [pc EXCEPT ![w] = "mapItems"]
        BY <1>9, <2>5, <4>1, Zenon DEF ReadProducts, Goto
      <4> QED
        BY <1>1, <4>2 DEF Jobs
    <3> QED
      BY <2>1, <2>3, <3>1 DEF Exact, Selected, Weighed, MemorySteps
  <2>6. CASE ReadItems(w)
    <3>1. /\ pc[w] = "mapItems" /\ pc'[w] = "forget" /\ job'[w].items = Mappable
          /\ job'[w].rows = job[w].rows
      <4>1. pc'[w] # "idle" /\ AnswerOk(w, TRUE) => FALSE
        BY <1>1 DEF AnswerOk, Leave
      <4> QED
        BY <1>1, <1>9, <2>6, <4>1 DEF ReadItems, Goto, Jobs, At
    <3>2. job[w].rows = products[b]
      BY <2>1, <3>1 DEF Exact, Read
    <3> QED
      BY <2>1, <2>2, <2>3, <3>1, <3>2 DEF Exact, Weighed
  <2>7. CASE /\ pc[w] \in Selected /\ pc'[w] \in Selected
             /\ job'[w].rows = job[w].rows /\ job'[w].items = job[w].items
    <3>1. job'[w].rows = products'[b] /\ job'[w].items = Mappable'
      BY <2>1, <2>2, <2>7 DEF Exact, Read, Selected
    <3>2. CASE ForgetIdf(w)
      <4>1. pc'[w] = "get" /\ cache'[ProcOf[w]][{b}] = NoCorpus
        <5>1. /\ cache \in [Procs -> [Keys -> Corpora]]
              /\ ProcOf[w] \in Procs /\ {b} \in Keys
          BY <1>1, <2>1, IngestAssumption DEF TypeOK, Keys
        <5> QED
          BY <1>1, <3>2, <5>1 DEF ForgetIdf, Goto
      <4> QED
        BY <2>1, <2>3, <3>1, <4>1 DEF Exact, Weighed
    <3>3. CASE GetIdf(w)
      <4>1. pc[w] = "get"
        BY <3>3 DEF GetIdf, At
      <4>2. pc'[w] = "names"
        BY <1>1, <2>1, <3>3, <4>1 DEF GetIdf, Goto, Exact
      <4> QED
        BY <2>1, <2>3, <3>1, <4>2 DEF Exact, Weighed
    <3>4. CASE ReadNames(w)
      <4>1. pc'[w] = "itemNames"
        BY <1>1, <3>4 DEF ReadNames, Goto
      <4> QED
        BY <2>1, <2>3, <3>1, <4>1 DEF Exact, Weighed
    <3>5. CASE ReadItemNames(w)
      <4>1. pc'[w] = "set" /\ job'[w].corpus = job[w].corpus \cup Mappable
        BY <1>1, <3>5 DEF ReadItemNames, Goto, Jobs
      <4> QED
        BY <2>1, <2>2, <2>3, <3>1, <4>1 DEF Exact
    <3>6. CASE SetIdf(w)
      <4>1. /\ pc[w] = "set" /\ pc'[w] = "allowed" /\ job'[w] = job[w]
        BY <1>1, <3>6 DEF SetIdf, Goto, At
      <4>2. Mappable \subseteq job[w].corpus
        BY <2>1, <4>1 DEF Exact, Weighed
      <4> QED
        BY <2>1, <2>2, <2>3, <3>1, <4>1, <4>2 DEF Exact
    <3>7. CASE ReadAllowed(w)
      <4>1. /\ pc[w] = "allowed" /\ pc'[w] = "mapReplace"
            /\ job'[w].corpus = job[w].corpus /\ job'[w].allowed = Allowed
        BY <1>1, <3>7 DEF ReadAllowed, Goto, At, Jobs
      <4>2. Mappable \subseteq job[w].corpus
        BY <2>1, <4>1 DEF Exact, Weighed
      <4> QED
        BY <2>1, <2>2, <2>3, <3>1, <4>1, <4>2 DEF Exact
    <3>8. CASE MarkCompleted(w) \/ ReadProducts(w) \/ ReadItems(w)
      BY <2>4, <2>5, <2>6, <3>8
    <3> QED
      BY <1>9, <3>2, <3>3, <3>4, <3>5, <3>6, <3>7, <3>8
  <2>8. CASE \/ ForgetIdf(w) \/ GetIdf(w) \/ ReadNames(w) \/ ReadItemNames(w)
             \/ SetIdf(w) \/ ReadAllowed(w)
    <3>1. CASE ForgetIdf(w) \/ SetIdf(w)
      BY <1>1, <2>7, <3>1 DEF ForgetIdf, SetIdf, At, Goto, Selected, Read, MemorySteps
    <3>2. CASE GetIdf(w) \/ ReadNames(w)
      BY <1>1, <2>7, <3>2 DEF GetIdf, ReadNames, At, Goto, Selected, Read,
                              MemorySteps, Jobs
    <3>3. CASE ReadItemNames(w) \/ ReadAllowed(w)
      BY <1>1, <2>7, <3>3 DEF ReadItemNames, ReadAllowed, At, Goto, Selected, Read,
                              MemorySteps, Jobs
    <3> QED
      BY <2>8, <3>1, <3>2, <3>3
  <2> QED
    BY <1>9, <2>4, <2>5, <2>6, <2>8
<1> QED
  BY <1>2, <1>3, <1>4, <1>5, <1>6, <1>7, <1>8, <1>9 DEF Step

\* The batch a clean import leaves settled is as it should be.
LEMMA JustSettled ==
    ASSUME IInv, NEW w \in Workers, Exact(w), w \in clean,
           ReadProducts(w) \/ ReadItems(w) \/ ReplaceMappings(w),
           pc'[w] = "idle", NEW b \in BatchIds, b = job[w].batch
    PROVE  Rebuilt(b)' /\ Remapped(b)'
<1> DEFINE j == job[w]
<1>1. /\ TypeOK /\ pc \in [Workers -> Steps] /\ WorkerInv(w)
  BY DEF IInv, TypeOK
<1>2. /\ pc[w] \in Marked /\ b \in BatchIds
      /\ products' = products /\ summaries' = summaries /\ cells' = cells
  BY <1>1 DEF ReadProducts, ReadItems, ReplaceMappings, At, Marked, MapReads, tables,
     WorkerInv, Located, Steps
<1>3. Mappable' = Mappable /\ Allowed' = Allowed
  BY <1>2 DEF Mappable, Allowed
<1>4. Rebuilt(b)
  BY <1>2 DEF Exact, Summarised, Marked
<1>5. Rebuilt(b)'
  BY <1>2, <1>4 DEF Rebuilt, HasRows
<1>6. CASE ReadProducts(w)
  <2>1. pc[w] = "mapProducts" /\ b \in BatchIds /\ HasRows(b, j.kompetitor)
    BY <1>1, <1>6 DEF WorkerInv, ReadProducts, At, Stored, Located, Steps, MapReads
  <2>2. ~\A k \in Kompetitors : ~HasRows(b, k)
    BY <1>1, <2>1 DEF WorkerInv
  <2> QED
    BY <1>1, <1>6, <2>2 DEF ReadProducts, Goto
<1>7. CASE ReadItems(w)
  <2>1. Mappable = {}
    BY <1>1, <1>7 DEF ReadItems, Goto
  <2> QED
    BY <1>3, <1>5, <2>1 DEF Remapped
<1>8. CASE ReplaceMappings(w)
  <2>1. /\ j.rows = products[b] /\ j.items = Mappable /\ j.allowed = Allowed
        /\ Mappable \subseteq j.corpus
    BY <1>8 DEF ReplaceMappings, At, Exact, Read, Selected, Weighed
  <2>2. mappings'[b] = ComputeMatches(Mappable, products[b], Allowed, j.corpus)
    BY <1>1, <1>2, <1>8, <2>1 DEF ReplaceMappings, TypeOK
  <2>3. Mappable \cap j.corpus = Mappable \cap Items
    BY <2>1 DEF Mappable
  <2>4. \A rows, allowed : ComputeMatches(Mappable, rows, allowed, j.corpus)
                              = ComputeMatches(Mappable, rows, allowed, Items)
    BY <2>3, Zenon DEF ComputeMatches
  <2>5. mappings'[b] = ComputeMatches(Mappable, products[b], Allowed, Items)
    BY <2>2, <2>4, Zenon
  <2>6. ComputeMatches(Mappable, products[b], Allowed, Items)'
          = ComputeMatches(Mappable, products[b], Allowed, Items)
    BY <1>2, <1>3, Zenon DEF ComputeMatches
  <2> QED
    BY <1>5, <2>5, <2>6 DEF Remapped
<1> QED
  BY <1>6, <1>7, <1>8

\* Only a batch that is there has a code.
LEMMA BlankStep ==
    ASSUME IInv, [Next]_vars, NEW b \in BatchIds, Blank(b)
    PROVE  Blank(b)'
<1>1. CASE batches[b].status # "absent"
  BY <1>1, CodesStay DEF Blank
<1>2. CASE batches' = batches
  BY <1>2 DEF Blank
<1>3. ASSUME NEW w \in Workers, CreateBatch(w) \/ MarkCompleted(w)
      PROVE  Blank(b)'
  <2>1. TypeOK
    BY DEF IInv
  <2>2. CASE CreateBatch(w)
    BY <2>1, <2>2 DEF CreateBatch, TypeOK, Blank
  <2>3. CASE MarkCompleted(w)
    BY <2>1, <2>3 DEF MarkCompleted, TypeOK, Blank
  <2> QED
    BY <1>3, <2>2, <2>3
<1> QED
  BY <1>2, <1>3, BatchWriters

\* The batch a request finds or creates is one of its code.
LEMMA PlacedStep ==
    ASSUME IInv, \A b \in BatchIds : Blank(b),
           NEW w \in Workers, Placed(w), Step(w)
    PROVE  Placed(w)'
<1>1. /\ TypeOK /\ pc \in [Workers -> Steps] /\ job \in [Workers -> Jobs]
      /\ pc[w] \in Located => job[w].batch \in BatchIds
      /\ batches \in [BatchIds -> [code : Codes \cup {None},
                                    status : {"absent", "running", "completed"}]]
  BY DEF IInv, TypeOK, WorkerInv
<1>2. pc'[w] # "idle" => job'[w].code # None /\ job'[w].code = job[w].code
  BY <1>1, GoesOnOrEnds DEF Placed
<1>3. CASE pc'[w] \notin Located
  BY <1>2, <1>3 DEF Placed
<1>4. CASE FindBatch(w) /\ pc'[w] \in Located
  <2>1. /\ pc[w] = "select" /\ batches' = batches /\ pc'[w] # "insert"
        /\ pc'[w] # "idle"
    BY <1>4 DEF FindBatch, At, tables, Located
  <2>2. PICK b \in BatchIds : /\ batches[b].code = job[w].code
                              /\ job' = [job EXCEPT ![w].batch = b]
    BY <1>1, <1>4, <2>1 DEF FindBatch, Goto, First, BatchesOf
  <2>3. job'[w].batch = b
    BY <1>1, <2>2 DEF Jobs
  <2>4. batches[b].status # "absent"
    BY <1>2, <2>1, <2>2 DEF Blank
  <2> QED
    BY <1>2, <2>1, <2>2, <2>3, <2>4 DEF Placed
<1>5. CASE CreateBatch(w)
  <2>1. PICK b \in BatchIds :
          /\ batches' = [batches EXCEPT ![b] = [code |-> job[w].code,
                                                status |-> "running"]]
          /\ job' = [job EXCEPT ![w].batch = b]
    BY <1>5 DEF CreateBatch
  <2>2. job'[w].batch = b /\ pc'[w] # "idle"
    BY <1>1, <1>5, <2>1 DEF Jobs, CreateBatch, Goto
  <2>3. batches'[b].code = job[w].code /\ batches'[b].status = "running"
    BY <1>1, <2>1
  <2> QED
    BY <1>2, <2>2, <2>3 DEF Placed
<1>6. ASSUME pc'[w] \in Located, ~FindBatch(w), ~CreateBatch(w)
      PROVE  pc[w] \in Located /\ job'[w].batch = job[w].batch /\ pc'[w] # "idle"
  <2>1. pc'[w] # "idle"
    BY <1>6 DEF Located
  <2>2. ASSUME NEW mapped \in BOOLEAN PROVE ~AnswerOk(w, mapped)
    BY <2>1, <1>1 DEF AnswerOk, Leave
  <2>3. ~AnswerError(w)
    BY <2>1, <1>1 DEF AnswerError, Leave
  <2>4. CASE \/ ReplaceProducts(w) \/ WriteSummaries(w) \/ MarkCompleted(w)
             \/ ForgetIdf(w) \/ SetIdf(w)
    BY <2>1, <2>4 DEF ReplaceProducts, WriteSummaries, MarkCompleted, ForgetIdf,
       SetIdf, At, Located, Steps, ImportSteps, MapReads, MemorySteps
  <2>5. CASE AggregateProducts(w) \/ FindSummaries(w)
    BY <1>1, <2>1, <2>5 DEF AggregateProducts, FindSummaries, At, Located, Steps,
       ImportSteps, Jobs
  <2>6. CASE GetIdf(w) \/ ReadNames(w)
    BY <1>1, <2>1, <2>6 DEF GetIdf, ReadNames, At, Located, Steps,
       MapReads, MemorySteps, Jobs
  <2>7. CASE ReadItemNames(w) \/ ReadAllowed(w)
    BY <1>1, <2>1, <2>7 DEF ReadItemNames, ReadAllowed, At, Located, Steps,
       MapReads, Jobs
  <2>8. CASE ReadProducts(w)
    <3>1. pc[w] = "mapProducts" /\ job' = [job EXCEPT ![w].rows = products[job[w].batch]]
      BY <2>2, <2>8, Zenon DEF ReadProducts, At
    <3> QED
      BY <1>1, <2>1, <3>1 DEF Located, Steps, MapReads, Jobs
  <2>9. CASE ReadItems(w)
    <3>1. pc[w] = "mapItems" /\ job' = [job EXCEPT ![w].items = Mappable]
      BY <2>2, <2>9, Zenon DEF ReadItems, At
    <3> QED
      BY <1>1, <2>1, <3>1 DEF Located, Steps, MapReads, Jobs
  <2>10. CASE StatementFails(w) \/ ReplaceMappings(w) \/ MappingFails(w)
    BY <2>2, <2>3, <2>10 DEF StatementFails, ReplaceMappings, MappingFails
  <2> QED
    BY <1>6, <2>4, <2>5, <2>6, <2>7, <2>8, <2>9, <2>10 DEF Step
<1>7. CASE pc[w] \in Located /\ job'[w].batch = job[w].batch /\ pc'[w] # "idle"
  <2>1. [Next]_vars
    BY DEF Next
  <2> QED
    BY <1>1, <1>2, <1>7, <2>1, CodesStay DEF Placed
<1> QED
  BY <1>3, <1>4, <1>5, <1>6, <1>7

\* A step of a request.
LEMMA SettledWhenStepping ==
    ASSUME SettledInv, NEW w \in Workers, Step(w), IInv', OneSummary'
    PROVE  SettledInv'
<1>1. /\ IInv /\ TypeOK /\ OneSummary /\ pc[w] # "idle"
      /\ pc \in [Workers -> Steps] /\ job \in [Workers -> Jobs]
      /\ \A o \in Workers : WorkerInv(o) /\ Placed(o) /\ Alone(o) /\ Exact(o)
      /\ \A b \in BatchIds : Blank(b) /\ Held(b)
  <2>1. IInv /\ TypeOK
    BY DEF SettledInv, IInv
  <2>2. pc[w] # "idle"
    BY <2>1, GoesOnOrEnds, Zenon DEF Marked, MapReads, MemorySteps
  <2> QED
    BY <2>1, <2>2 DEF SettledInv, IInv, TypeOK
<1>2. \A o \in Workers : o # w => pc'[o] = pc[o] /\ job'[o] = job[o]
  BY <1>1, Others
<1>3. [Next]_vars
  BY DEF Next
<1>4. \A o \in Workers : pc'[o] # "idle" => pc[o] # "idle" /\ job'[o].code = job[o].code
  BY <1>1, <1>2, GoesOnOrEnds
<1>5. clean' \subseteq clean /\ (w \in clean' => pc'[w] # "idle")
  BY <1>1, GoesOnOrEnds
<1>6. ASSUME NEW o \in Workers PROVE Placed(o)'
  <2>1. CASE o = w
    BY <1>1, <2>1, PlacedStep
  <2>2. CASE o # w
    <3>1. CASE pc[o] \in Located
      BY <1>1, <1>2, <1>3, <2>2, <3>1, CodesStay DEF Placed, WorkerInv
    <3>2. CASE pc[o] \notin Located
      BY <1>1, <1>2, <2>2, <3>2 DEF Placed, Located
    <3> QED
      BY <3>1, <3>2
  <2> QED
    BY <2>1, <2>2
<1>7. ASSUME NEW o \in Workers PROVE Alone(o)'
  <2>1. CASE o \notin clean'
    BY <2>1 DEF Alone
  <2>2. CASE o \in clean'
    <3>1. Alone(o) /\ o \in clean /\ pc'[o] # "idle"
      BY <1>1, <1>2, <1>5, <2>2 DEF Alone
    <3>2. job'[o].code = job[o].code
      BY <1>4, <3>1
    <3> QED
      BY <1>4, <3>1, <3>2 DEF Alone
  <2> QED
    BY <2>1, <2>2
<1>8. ASSUME NEW b \in BatchIds, batches[b].status # "absent",
             job[w].code # batches[b].code
      PROVE  /\ Untouched(b) /\ batches'[b] = batches[b]
             /\ \A p \in Procs : cache'[p][{b}] = cache[p][{b}]
  <2>1. pc[w] \in Located => job[w].batch # b
    BY <1>1, <1>8 DEF Placed
  <2> QED
    BY <1>1, <1>8, <2>1, Elsewhere DEF Untouched
<1>9. ASSUME NEW o \in Workers PROVE Exact(o)'
  <2>1. CASE o = w
    BY <1>1, <2>1, ExactStep
  <2>2. CASE o \notin clean'
    BY <2>2 DEF Exact
  <2>3. CASE o # w /\ o \in clean'
    <3>1. o \in clean /\ pc[o] # "idle" /\ job[w].code # job[o].code
      BY <1>1, <1>5, <2>3 DEF Alone
    <3>2. pc[o] \in Located =>
            /\ job[o].batch \in BatchIds
            /\ batches[job[o].batch].status # "absent"
            /\ job[w].code # batches[job[o].batch].code
      BY <1>1, <3>1 DEF WorkerInv, Placed
    <3>3. pc[o] \in Located =>
            /\ Untouched(job[o].batch)
            /\ cache'[ProcOf[o]][{job[o].batch}] = cache[ProcOf[o]][{job[o].batch}]
      BY <1>8, <3>2, IngestAssumption
    <3>4. pc[o] = "get" => pc[o] \in Located
      BY DEF Located, Steps, MemorySteps
    <3> QED
      BY <1>1, <1>2, <2>3, <3>1, <3>3, <3>4, ExactKept
  <2> QED
    BY <2>1, <2>2, <2>3
<1>10. ASSUME NEW b \in BatchIds PROVE Held(b)'
  <2>1. CASE b \notin settled'
    BY <2>1 DEF Held
  <2>2. CASE b \in settled /\ b \in settled'
    <3>1. /\ batches[b].status # "absent"
          /\ \A o \in Workers : pc[o] # "idle" => job[o].code # batches[b].code
      BY <1>1, <2>2 DEF Held
    <3>2. Untouched(b) /\ batches'[b] = batches[b]
      BY <1>1, <1>8, <3>1
    <3>3. \A o \in Workers : pc'[o] # "idle" => job'[o].code # batches[b].code
      BY <1>4, <3>1
    <3> QED
      BY <1>1, <2>2, <3>2, <3>3, HeldKept
  <2>3. CASE b \in settled' /\ b \notin settled
    <3>1. /\ pc[w] \in Marked /\ pc'[w] = "idle" /\ w \in clean /\ b = job[w].batch
          /\ ReadProducts(w) \/ ReadItems(w) \/ ReplaceMappings(w)
      BY <1>1, <2>3, GoesOnOrEnds
    <3>2. Rebuilt(b)' /\ Remapped(b)'
      BY <1>1, <3>1, JustSettled
    <3>3. /\ batches[b].status # "absent" /\ batches[b].code = job[w].code
          /\ batches'[b].status # "absent" /\ batches'[b].code = batches[b].code
      BY <1>1, <1>3, <3>1, CodesStay DEF Placed, Marked, Located, Steps, MapReads,
                                         MemorySteps
    <3>4. \A o \in Workers : pc'[o] # "idle" => job'[o].code # batches'[b].code
      BY <1>1, <1>2, <1>4, <3>1, <3>3 DEF Alone
    <3> QED
      BY <3>2, <3>3, <3>4 DEF Held
  <2> QED
    BY <2>1, <2>2, <2>3
<1> QED
  BY <1>1, <1>3, <1>6, <1>7, <1>9, <1>10, BlankStep DEF SettledInv

\* A request that arrives ends what was clean or settled under its code.
LEMMA SettledWhenBeginning ==
    ASSUME SettledInv, NEW w \in Workers, Begin(w), IInv', OneSummary'
    PROVE  SettledInv'
<1>1. /\ IInv /\ OneSummary /\ pc \in [Workers -> Steps] /\ job \in [Workers -> Jobs]
      /\ \A o \in Workers : WorkerInv(o) /\ Placed(o) /\ Alone(o) /\ Exact(o)
      /\ \A b \in BatchIds : Blank(b) /\ Held(b)
  BY DEF SettledInv, IInv, TypeOK
<1>2. PICK c \in Codes :
        /\ c # None /\ pc[w] = "idle" /\ pc'[w] = "select" /\ job'[w].code = c
        /\ clean' = IF ActiveOn(c) = {} THEN clean \cup {w} ELSE clean \ ActiveOn(c)
        /\ settled' = settled \ BatchesOf(c)
        /\ UNCHANGED <<tables, cache>>
  BY <1>1, IngestAssumption DEF Begin, At, Goto, Jobs, NoJob
<1>3. \A o \in Workers : o # w => pc'[o] = pc[o] /\ job'[o] = job[o]
  BY <1>1, Others
<1>4. \A b \in BatchIds : Untouched(b) /\ batches'[b] = batches[b]
  BY <1>2 DEF Untouched, tables
<1>5. w \notin clean
  BY <1>1, <1>2 DEF Alone
<1>6. ASSUME NEW o \in Workers PROVE Placed(o)'
  BY <1>1, <1>2, <1>3, <1>4 DEF Placed, Located, tables
<1>7. ASSUME NEW o \in Workers PROVE Alone(o)'
  <2>1. CASE o \in clean' /\ o = w
    BY <1>2, <1>3, <1>5, <2>1 DEF Alone, ActiveOn
  <2>2. CASE o \in clean' /\ o # w
    <3>1. o \in clean /\ o \notin ActiveOn(c) /\ pc[o] # "idle"
      BY <1>1, <1>2, <2>2 DEF Alone
    <3>2. job[o].code # c
      BY <3>1 DEF ActiveOn
    <3> QED
      BY <1>1, <1>2, <1>3, <2>2, <3>1, <3>2 DEF Alone
  <2> QED
    BY <2>1, <2>2 DEF Alone
<1>8. ASSUME NEW o \in Workers PROVE Exact(o)'
  <2>1. CASE o = w
    BY <1>2, <2>1 DEF Exact, Summarised, Read, Selected, Weighed, MapReads, MemorySteps
  <2>2. CASE o # w
    <3>1. pc[o] \in Located => Untouched(job[o].batch)
      BY <1>1, <1>4 DEF WorkerInv
    <3>2. o \in clean' => o \in clean
      BY <1>2, <2>2
    <3> QED
      BY <1>1, <1>2, <1>3, <2>2, <3>1, <3>2, ExactKept
  <2> QED
    BY <2>1, <2>2
<1>9. ASSUME NEW b \in BatchIds PROVE Held(b)'
  <2>1. CASE b \notin settled'
    BY <2>1 DEF Held
  <2>2. CASE b \in settled'
    <3>1. b \in settled /\ batches[b].code # c
      BY <1>2, <2>2 DEF BatchesOf
    <3>2. \A o \in Workers : pc'[o] # "idle" => job'[o].code # batches[b].code
      BY <1>1, <1>2, <1>3, <3>1 DEF Held
    <3> QED
      BY <1>1, <1>4, <3>1, <3>2, HeldKept
  <2> QED
    BY <2>1, <2>2
<1> QED
  BY <1>1, <1>4, <1>6, <1>7, <1>8, <1>9 DEF SettledInv, Blank

\* A crash ends the requests of its process, and an expiry empties an entry.
LEMMA SettledWhenFailing ==
    ASSUME SettledInv, NEW p \in Procs, Crash(p) \/ ExpireIdf(p), IInv', OneSummary'
    PROVE  SettledInv'
<1>1. /\ IInv /\ TypeOK
      /\ \A o \in Workers : WorkerInv(o) /\ Placed(o) /\ Alone(o) /\ Exact(o)
      /\ \A b \in BatchIds : Blank(b) /\ Held(b)
  BY DEF SettledInv, IInv
<1>2. /\ UNCHANGED tables /\ clean' \subseteq clean /\ settled' = settled
      /\ \A o \in Workers : \/ pc'[o] = pc[o] /\ job'[o] = job[o]
                            \/ pc'[o] = "idle" /\ o \notin clean'
  BY DEF Crash, ExpireIdf, Leave, history
<1>3. \A b \in BatchIds : Untouched(b) /\ batches'[b] = batches[b]
  BY <1>2 DEF Untouched, tables
<1>4. \A q \in Procs, key \in Keys : cache'[q][key] \in {NoCorpus, cache[q][key]}
  <2>1. cache \in [Procs -> [Keys -> Corpora]]
    BY <1>1 DEF TypeOK
  <2>2. CASE Crash(p)
    BY <2>1, <2>2 DEF Crash
  <2>3. CASE ExpireIdf(p)
    BY <2>1, <2>3 DEF ExpireIdf
  <2> QED
    BY <2>2, <2>3
<1>5. ASSUME NEW o \in Workers PROVE Placed(o)' /\ Alone(o)'
  <2>1. Placed(o)'
    BY <1>1, <1>2 DEF Placed, Located, tables
  <2>2. Alone(o)'
    BY <1>1, <1>2 DEF Alone
  <2> QED
    BY <2>1, <2>2
<1>6. ASSUME NEW o \in Workers PROVE Exact(o)'
  <2>1. CASE o \notin clean'
    BY <2>1 DEF Exact
  <2>2. CASE o \in clean'
    <3>1. pc'[o] = pc[o] /\ job'[o] = job[o] /\ o \in clean
      BY <1>2, <2>2
    <3>2. pc[o] \in Located => job[o].batch \in BatchIds /\ Untouched(job[o].batch)
      BY <1>1, <1>3 DEF WorkerInv
    <3>3. pc[o] = "get" => pc[o] \in Located
      BY DEF Located, Steps, MemorySteps
    <3>4. pc[o] = "get" => cache'[ProcOf[o]][{job[o].batch}]
                             \in {NoCorpus, cache[ProcOf[o]][{job[o].batch}]}
      BY <1>4, <3>2, <3>3, IngestAssumption DEF Keys
    <3> QED
      BY <1>1, <3>1, <3>2, <3>4, ExactKept
  <2> QED
    BY <2>1, <2>2
<1>7. ASSUME NEW b \in BatchIds PROVE Held(b)'
  <2>1. CASE b \in settled
    <3>1. \A o \in Workers : pc'[o] # "idle" => job'[o].code # batches[b].code
      BY <1>1, <1>2, <2>1 DEF Held
    <3> QED
      BY <1>1, <1>2, <1>3, <3>1, HeldKept
  <2>2. CASE b \notin settled
    BY <1>2, <2>2 DEF Held
  <2> QED
    BY <2>1, <2>2
<1> QED
  BY <1>1, <1>3, <1>5, <1>6, <1>7 DEF SettledInv, Blank

-----------------------------------------------------------------------------
(* The theorems.                                                           *)

\* No import has begun: nothing is clean and nothing is settled.
LEMMA InitSettledInv == Init => SettledInv
<1> SUFFICES ASSUME Init PROVE SettledInv
  OBVIOUS
<1>1. IInv
  BY InitIInv
<1>2. OneSummary
  BY DEF Init, OneSummary
<1>3. \A w \in Workers : Placed(w) /\ Alone(w) /\ Exact(w)
  BY DEF Init, Placed, Alone, Exact, Located
<1>4. \A b \in BatchIds : Blank(b) /\ Held(b)
  BY DEF Init, Blank, Held
<1> QED
  BY <1>1, <1>2, <1>3, <1>4 DEF SettledInv

\* A change of the cells leaves nothing clean or settled.
LEMMA SettledWhenCellsChange ==
    ASSUME SettledInv, IInv', OneSummary', NEW lists, CellsBecome(lists)
    PROVE  SettledInv'
<1>1. /\ batches' = batches /\ pc' = pc /\ job' = job
      /\ clean' = {} /\ settled' = {}
  BY DEF CellsBecome
<1>2. \A w \in Workers : Placed(w)'
  BY <1>1 DEF SettledInv, Placed
<1> QED
  BY <1>1, <1>2 DEF SettledInv, Alone, Exact, Blank, Held

\* The invariant is inductive.
LEMMA SettledInvStep == SettledInv /\ [Next]_vars => SettledInv'
<1> SUFFICES ASSUME SettledInv, [Next]_vars PROVE SettledInv'
  OBVIOUS
<1>1. IInv' /\ OneSummary'
  BY IInvStep, OneSummaryStep DEF SettledInv
<1>2. ASSUME NEW w \in Workers, Begin(w) \/ Step(w) PROVE SettledInv'
  BY <1>1, <1>2, SettledWhenBeginning, SettledWhenStepping
<1>3. ASSUME NEW p \in Procs, Crash(p) \/ ExpireIdf(p) PROVE SettledInv'
  BY <1>1, <1>3, SettledWhenFailing
<1>4. ASSUME NEW i \in Items, EditCell(i) PROVE SettledInv'
  BY <1>1, <1>4, SettledWhenCellsChange DEF EditCell
<1>5. CASE UNCHANGED vars
  <2>1. /\ batches' = batches /\ pc' = pc /\ job' = job /\ cache' = cache
        /\ clean' = clean /\ settled' = settled
        /\ \A b \in BatchIds : Untouched(b) /\ batches'[b] = batches[b]
    BY <1>5 DEF vars, tables, history, Untouched
  <2>2. \A w \in Workers : Placed(w)' /\ Alone(w)'
    BY <2>1 DEF SettledInv, Placed, Alone
  <2>3. ASSUME NEW w \in Workers PROVE Exact(w)'
    <3>1. pc[w] \in Located => job[w].batch \in BatchIds
      BY DEF SettledInv, IInv, WorkerInv
    <3> QED
      BY <2>1, <3>1, ExactKept DEF SettledInv
  <2>4. ASSUME NEW b \in BatchIds PROVE Blank(b)' /\ Held(b)'
    BY <2>1, HeldKept DEF SettledInv, Blank, Held
  <2> QED
    BY <1>1, <2>2, <2>3, <2>4 DEF SettledInv
<1> QED
  BY <1>2, <1>3, <1>4, <1>5 DEF Next, Finished

\* Every reachable state satisfies the inductive invariant.
LEMMA AlwaysSettledInv == Spec => []SettledInv
BY InitSettledInv, SettledInvStep, PTL DEF Spec

\* With unique keys, an import that ran alone in its batch and to its end left
\* one summary for each store with rows, of the rows the store has, whatever
\* crashed, failed or overlapped before it, and until an import begins again.
THEOREM CleanImportsRepairSummaries ==
    ASSUME UniqueKeys PROVE Spec => []SettledSummaries
<1>1. SettledInv => SettledSummaries
  BY DEF SettledInv, IInv, TypeOK, Held, Rebuilt, SettledSummaries
<1> QED
  BY <1>1, AlwaysSettledInv, PTL

\* With or without unique keys it left the matches of the rows and the cells,
\* as computed with weights of these rows and never of earlier ones.
THEOREM CleanImportsRepairMatches == Spec => []SettledMatches
<1>1. SettledInv => SettledMatches
  BY DEF SettledInv, IInv, TypeOK, Held, Remapped, SettledMatches
<1> QED
  BY <1>1, AlwaysSettledInv, PTL

=============================================================================
