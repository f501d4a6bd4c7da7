--------------------------- MODULE RegistryProofs ---------------------------
(***************************************************************************)
(* Proofs about Registry, for any numbers of workers, stores, codes and    *)
(* cells, with and without a unique key on the mapping rows.               *)
(*                                                                         *)
(* What a request relies on while it waits for its next statement is in    *)
(* three parts: what a deletion has ruled out (Checked), what a solo save  *)
(* has established about its codes (Validated), and what a solo update of  *)
(* a cell knows of the cell (Snapshot).  The last two survive the other    *)
(* requests because a clean request is alone among those it conflicts with *)
(* (Lonely).  The lists of settled cells name stores there are because     *)
(* only deletions take stores away (NamesStores).                          *)
(***************************************************************************)
EXTENDS Registry, TLAPS

StoreSteps  == {"find", "save", "hasSummaries", "hasProducts", "hasMappings",
                "delete", "storeProducts", "storeSummaries", "storeMappings"}
CellSteps   == {"exists", "pluck", "sync"}
DeleteSteps == {"hasSummaries", "hasProducts", "hasMappings", "delete"}
SaveSteps   == {"shopee", "tokopedia", "insert", "save"}

\* The locals a statement uses are there.
Located(w) ==
    /\ pc[w] = "idle" => job[w] = NoJob
    /\ pc[w] \in StoreSteps => job[w].id \in Ids
    /\ pc[w] = "find" => job[w].op \in {"update", "delete", "import"}
    /\ pc[w] \in SaveSteps => job[w].op \in SavingOps /\ job[w].form \in Forms
    /\ pc[w] = "insert" => job[w].id = 0
    /\ pc[w] = "save" => job[w].id \in used
    /\ job[w].op = "create" => job[w].id = 0
    /\ job[w].op \in SavingOps => job[w].form \in Forms
    /\ pc[w] \in CellSteps => job[w].op = "cell" /\ job[w].cell \in Cells
    /\ pc[w] \in {"shopee", "tokopedia"} /\ job[w].op = "update" =>
         job[w].id \in used
    /\ pc[w] \in DeleteSteps => job[w].op = "delete"

\* The data a deletion saw at its beginning is still there, and none of it is
\* in a table it has checked.
Checked(w) ==
    /\ job[w].op = "delete" =>
         job[w].id \in Ids /\ job[w].seen \subseteq data[job[w].id]
    /\ pc[w] = "hasProducts" => "summaries" \notin job[w].seen
    /\ pc[w] = "hasMappings" => job[w].seen \cap {"summaries", "products"} = {}
    /\ pc[w] = "delete" => job[w].seen = {}

\* No other store has the codes a solo save has validated.
Validated(w) ==
    w \in clean =>
      /\ pc[w] \in {"tokopedia", "insert", "save"} /\ job[w].form["shopee"] # None =>
           ~CodeTaken("shopee", job[w].form["shopee"], job[w].id)
      /\ pc[w] \in {"insert", "save"} /\ job[w].form["tokopedia"] # None =>
           ~CodeTaken("tokopedia", job[w].form["tokopedia"], job[w].id)

\* The snapshot of a solo update of a cell is the cell's current list.
Snapshot(w) ==
    w \in clean /\ pc[w] = "sync" => job[w].kept = InCell(job[w].cell)

\* A clean request is alone among those it conflicts with.
Lonely ==
    \A w \in clean : \A v \in Workers \ {w} : ~Conflict(v, job[w].op, job[w].cell)

IInv ==
    /\ TypeOK
    /\ \A w \in Workers : Located(w) /\ Checked(w) /\ Validated(w) /\ Snapshot(w)
    /\ Lonely
    /\ SoloSavesUnique
    /\ SettledCells

-----------------------------------------------------------------------------
(* What every step has in common.                                          *)

ReadStep(w)  == \E step \in Steps : Read(w, step)
StoreStep(w) ==
    \/ StoreData(w, "storeProducts", "products", "storeSummaries")
    \/ StoreData(w, "storeSummaries", "summaries", "storeMappings")
    \/ StoreData(w, "storeMappings", "mappings", "idle")

\* A statement reads, refuses, or is one of the few that change a table or a
\* local.
LEMMA Kinds ==
    ASSUME NEW w \in Workers, Located(w), Step(w)
    PROVE  \/ Refuse(w) \/ ReadStep(w)
           \/ InsertStore(w) \/ SaveStore(w) \/ DeleteStore(w)
           \/ PluckCell(w) \/ SyncCell(w) \/ StoreStep(w)
<1>1. ASSUME NEW column, NEW step \in Steps, CheckCode(w, column, step)
      PROVE  Refuse(w) \/ ReadStep(w)
  BY <1>1 DEF CheckCode, ReadStep
<1>2. ASSUME NEW step, NEW table, NEW next \in Steps, CheckData(w, step, table, next)
      PROVE  Refuse(w) \/ ReadStep(w)
  BY <1>2 DEF CheckData, ReadStep
<1>3. ASSUME FindStore(w) PROVE Refuse(w) \/ ReadStep(w)
  <2>1. AfterFind[job[w].op] \in Steps
    BY <1>3 DEF FindStore, At, Located, AfterFind, Steps
  <2> QED
    BY <1>3, <2>1 DEF FindStore, ReadStep
<1>4. ASSUME CheckIds(w) PROVE Refuse(w) \/ ReadStep(w)
  BY <1>4 DEF CheckIds, ReadStep, Steps
<1>5. {"tokopedia", "insert", "save", "hasProducts", "hasMappings", "delete"}
          \subseteq Steps
  BY DEF Steps
<1>6. ASSUME Fails(w) PROVE Refuse(w)
  BY <1>6 DEF Fails
<1> QED
  BY <1>1, <1>2, <1>3, <1>4, <1>5, <1>6 DEF Step, StoreStep

\* A step of one worker leaves the others where they are, and no other worker
\* becomes clean by it.
LEMMA Bystander ==
    ASSUME TypeOK, NEW w \in Workers, Located(w), Begin(w) \/ Step(w)
    PROVE  /\ \A v \in Workers \ {w} : pc'[v] = pc[v] /\ job'[v] = job[v]
           /\ clean' \subseteq clean \cup {w}
<1>1. CASE Begin(w)
  BY <1>1 DEF Begin, BeginCreate, BeginUpdate, BeginDelete, BeginCell, BeginImport,
              Receive, Goto, TypeOK
<1>2. CASE Refuse(w)
  BY <1>2 DEF Refuse, Leave, Goto, TypeOK
<1>3. CASE ReadStep(w)
  BY <1>3 DEF ReadStep, Read, Goto, TypeOK, history
<1>4. CASE InsertStore(w) \/ SaveStore(w)
  BY <1>4 DEF InsertStore, SaveStore, Saved, Leave, Goto, TypeOK
<1>5. CASE DeleteStore(w)
  BY <1>5 DEF DeleteStore, Leave, Goto, TypeOK
<1>6. CASE PluckCell(w)
  BY <1>6 DEF PluckCell, Goto, TypeOK, history
<1>7. CASE SyncCell(w)
  BY <1>7 DEF SyncCell, Leave, Goto, TypeOK
<1>8. CASE StoreStep(w)
  BY <1>8 DEF StoreStep, StoreData, Leave, Goto, TypeOK
<1> QED
  BY <1>1, <1>2, <1>3, <1>4, <1>5, <1>6, <1>7, <1>8, Kinds

\* A worker whose request has ended is idle, without locals and not clean.
LEMMA Ended ==
    ASSUME TypeOK, NEW w \in Workers, Leave(w)
    PROVE  pc'[w] = "idle" /\ job'[w] = NoJob
BY DEF Leave, Goto, TypeOK

\* A statement that only reads changes its worker's program counter alone.
LEMMA Reads ==
    ASSUME TypeOK, NEW w \in Workers, NEW step, Read(w, step)
    PROVE  pc'[w] = step /\ UNCHANGED <<tables, job, history>>
BY DEF Read, Goto, TypeOK

\* A request that arrives finds its worker idle and is its worker's from then on.
LEMMA Arrives ==
    ASSUME TypeOK, NEW w \in Workers, NEW request, NEW step, Receive(w, request, step)
    PROVE  /\ pc[w] = "idle" /\ pc'[w] = step /\ job'[w] = request
           /\ clean' \subseteq clean \cup {w}
           /\ \A v \in Workers \ {w} :
                Conflict(v, request.op, request.cell) => clean' \cap {v, w} = {}
BY DEF Receive, At, Goto, TypeOK

\* The first statement of a request reads.
LEMMA Starts ==
    ASSUME TypeOK, NEW w \in Workers, Begin(w)
    PROVE  pc'[w] \in {"shopee", "find", "pluck", "exists"}
<1>1. ASSUME NEW request, NEW step \in {"shopee", "find", "pluck", "exists"},
             Receive(w, request, step)
      PROVE  pc'[w] \in {"shopee", "find", "pluck", "exists"}
  BY <1>1, Arrives
<1> QED
  BY <1>1 DEF Begin, BeginCreate, BeginUpdate, BeginDelete, BeginCell, BeginImport

-----------------------------------------------------------------------------
(* Types.                                                                  *)

\* Assigning one field keeps a request's locals typed.
LEMMA JobUpdates ==
    ASSUME NEW j \in Jobs
    PROVE  /\ \A x \in {"create", "update", "delete", "cell", "import"} :
                [j EXCEPT !.op = x] \in Jobs
           /\ \A x \in Ids : [j EXCEPT !.id = x] \in Jobs
           /\ \A x \in Stores : [j EXCEPT !.form = x] \in Jobs
           /\ \A x \in Cells : [j EXCEPT !.cell = x] \in Jobs
           /\ \A x \in SUBSET Ids : [j EXCEPT !.list = x] \in Jobs
           /\ \A x \in SUBSET Ids : [j EXCEPT !.kept = x] \in Jobs
           /\ \A x \in SUBSET Tables : [j EXCEPT !.seen = x] \in Jobs
BY DEF Jobs

\* What is recorded of a cell stays typed.
LEMMA AskedUpdates ==
    ASSUME NEW q \in Asked, NEW k
    PROVE  /\ [q EXCEPT !.alone = FALSE] \in Asked
           /\ [q EXCEPT !.list = @ \ {k}] \in Asked
<1>1. q.list \ {k} \in SUBSET Ids /\ q.alone \in BOOLEAN
  BY DEF Asked
<1>2. [q EXCEPT !.list = @ \ {k}] \in Asked
  BY <1>1 DEF Asked
<1>3. [q EXCEPT !.alone = FALSE] \in Asked
  BY DEF Asked
<1> QED
  BY <1>2, <1>3

\* A request without locals is well typed.
LEMMA NoJobType == NoJob \in Jobs
BY DEF NoJob, Jobs, NoStore, Stores

\* The request of every operation is well typed, and starts at a known step.
LEMMA RequestType ==
    ASSUME TypeOK, NEW w \in Workers, Begin(w)
    PROVE  job' \in [Workers -> Jobs] /\ pc' \in [Workers -> Steps]
<1>1. Forms \subseteq Stores
  BY RegistryAssumption
<1>2. ASSUME NEW request \in Jobs, NEW step \in Steps, Receive(w, request, step)
      PROVE  job' \in [Workers -> Jobs] /\ pc' \in [Workers -> Steps]
  BY <1>2 DEF Receive, Goto, TypeOK
<1>3. {"shopee", "find", "pluck", "exists"} \subseteq Steps
  BY DEF Steps
<1>4. ASSUME NEW f \in Forms
      PROVE  [NoJob EXCEPT !.op = "create", !.form = f] \in Jobs
  BY <1>1, NoJobType DEF Jobs
<1>5. ASSUME NEW f \in Forms, NEW k \in Ids
      PROVE  [NoJob EXCEPT !.op = "update", !.id = k, !.form = f] \in Jobs
  BY <1>1, NoJobType DEF Jobs
<1>6. ASSUME NEW k \in Ids
      PROVE  /\ [NoJob EXCEPT !.op = "delete", !.id = k, !.seen = data[k]] \in Jobs
             /\ [NoJob EXCEPT !.op = "import", !.id = k] \in Jobs
  BY NoJobType DEF Jobs, TypeOK
<1>7. ASSUME NEW c \in Cells, NEW list \in SUBSET Ids
      PROVE  [NoJob EXCEPT !.op = "cell", !.cell = c, !.list = list] \in Jobs
  BY NoJobType DEF Jobs
<1> QED
  BY <1>2, <1>3, <1>4, <1>5, <1>6, <1>7
     DEF Begin, BeginCreate, BeginUpdate, BeginDelete, BeginCell, BeginImport

\* Every step keeps the types.
LEMMA TypeStep ==
    ASSUME TypeOK, \A w \in Workers : Located(w), [Next]_vars
    PROVE  TypeOK'
<1>1. ASSUME NEW w \in Workers, Begin(w)
      PROVE  TypeOK'
  <2>1. UNCHANGED <<stores, used, rows, data, raced>> /\ requests' = requests + 1
    BY <1>1 DEF Begin, BeginCreate, BeginUpdate, BeginDelete, BeginCell, BeginImport,
                Receive, tables
  <2>2. asked' \in [Cells -> Asked]
    <3>1. CASE UNCHANGED asked
      BY <3>1 DEF TypeOK
    <3>2. ASSUME NEW c \in Cells, asked' = [asked EXCEPT ![c].alone = FALSE]
          PROVE  asked' \in [Cells -> Asked]
      <4>1. asked[c] \in Asked
        BY DEF TypeOK
      <4>2. [asked[c] EXCEPT !.alone = FALSE] \in Asked
        BY <4>1, AskedUpdates DEF Asked
      <4> QED
        BY <3>2, <4>2 DEF TypeOK
    <3> QED
      BY <1>1, <3>1, <3>2
         DEF Begin, BeginCreate, BeginUpdate, BeginDelete, BeginCell, BeginImport
  <2>3. clean' \subseteq Workers
    BY <1>1, Bystander DEF TypeOK
  <2> QED
    BY <1>1, <2>1, <2>2, <2>3, RequestType DEF TypeOK, Present
<1>2. ASSUME NEW w \in Workers, Leave(w)
      PROVE  pc' \in [Workers -> Steps] /\ job' \in [Workers -> Jobs]
  BY <1>2, NoJobType DEF Leave, Goto, TypeOK, Steps
<1>3. ASSUME NEW w \in Workers, Refuse(w)
      PROVE  TypeOK'
  BY <1>2, <1>3 DEF Refuse, TypeOK, tables, Present
<1>4. ASSUME NEW w \in Workers, ReadStep(w)
      PROVE  TypeOK'
  BY <1>4 DEF ReadStep, Read, Goto, TypeOK, tables, history, Present
<1>5. ASSUME NEW w \in Workers, NEW k \in Ids, Saved(w, k)
      PROVE  /\ pc' \in [Workers -> Steps] /\ job' \in [Workers -> Jobs]
             /\ raced' \subseteq Ids /\ clean' \subseteq Workers
             /\ UNCHANGED <<rows, data, requests, asked>>
  BY <1>2, <1>5 DEF Saved, TypeOK
<1>6. ASSUME NEW w \in Workers, InsertStore(w)
      PROVE  TypeOK'
  <2>1. PICK k \in Ids : /\ stores' = [stores EXCEPT ![k] = Defaulted(job[w].form)]
                         /\ used' = used \cup {k}
                         /\ Saved(w, k)
    BY <1>6 DEF InsertStore
  <2>2. job[w].form \in Forms
    BY <1>6 DEF InsertStore, At, Located, SaveSteps
  <2>3. stores' \in [Ids -> Forms \cup {Defaulted(f) : f \in Forms} \cup {NoStore}]
    BY <2>1, <2>2 DEF TypeOK
  <2>4. {l \in Ids : Present(l)}' \subseteq used' /\ used' \subseteq Ids
    BY <2>1 DEF TypeOK, Present
  <2> QED
    BY <1>5, <2>1, <2>3, <2>4 DEF TypeOK
<1>7. ASSUME NEW w \in Workers, SaveStore(w)
      PROVE  TypeOK'
  <2>1. job[w].form \in Forms /\ job[w].id \in used
    BY <1>7 DEF SaveStore, At, Located, SaveSteps
  <2>2. stores' \in [Ids -> Forms \cup {Defaulted(f) : f \in Forms} \cup {NoStore}]
    BY <1>7, <2>1 DEF TypeOK, SaveStore
  <2>3. {l \in Ids : Present(l)}' \subseteq used' /\ used' \subseteq Ids
    BY <1>7, <2>1 DEF TypeOK, Present, SaveStore
  <2>4. Saved(w, job[w].id) /\ job[w].id \in Ids
    BY <1>7, <2>1 DEF SaveStore, TypeOK
  <2> QED
    BY <1>5, <2>2, <2>3, <2>4 DEF TypeOK
<1>8. ASSUME NEW w \in Workers, DeleteStore(w)
      PROVE  TypeOK'
  <2>1. job[w].id \in Ids
    BY <1>8 DEF DeleteStore, At, Located, StoreSteps
  <2>2. /\ stores' \in [Ids -> Forms \cup {Defaulted(f) : f \in Forms} \cup {NoStore}]
        /\ {l \in Ids : Present(l)}' \subseteq used'
        /\ rows' \in [Cells -> [Ids -> Nat]]
    BY <1>8, <2>1 DEF TypeOK, DeleteStore, Present
  <2>3. ASSUME NEW c \in Cells
        PROVE  [asked[c] EXCEPT !.list = @ \ {job[w].id}] \in Asked
    <3>1. asked[c] \in Asked
      BY DEF TypeOK
    <3> QED
      BY <3>1, AskedUpdates
  <2>4. asked' \in [Cells -> Asked]
    BY <1>8, <2>3 DEF DeleteStore
  <2> QED
    BY <1>2, <1>8, <2>2, <2>4 DEF TypeOK, DeleteStore
<1>9. ASSUME NEW w \in Workers, PluckCell(w)
      PROVE  TypeOK'
  <2>1. [job[w] EXCEPT !.kept = InCell(job[w].cell)] \in Jobs
    BY JobUpdates DEF TypeOK, InCell
  <2>2. job' \in [Workers -> Jobs] /\ pc' \in [Workers -> Steps]
    BY <1>9, <2>1 DEF PluckCell, Goto, TypeOK, Steps
  <2> QED
    BY <1>9, <2>2 DEF PluckCell, TypeOK, tables, history, Present
<1>10. ASSUME NEW w \in Workers, SyncCell(w)
       PROVE  TypeOK'
  <2>1. job[w].cell \in Cells /\ job[w].list \subseteq Ids
    BY <1>10 DEF SyncCell, At, Located, CellSteps, TypeOK, Jobs
  <2>2. Synced(w) \in [Ids -> Nat]
    BY <2>1 DEF Synced, TypeOK
  <2>3. rows' \in [Cells -> [Ids -> Nat]]
    BY <1>10, <2>2 DEF SyncCell, TypeOK
  <2>4. [alone |-> w \in clean, list |-> job[w].list] \in Asked
    BY <2>1 DEF TypeOK, Asked
  <2>5. asked' \in [Cells -> Asked]
    BY <1>10, <2>1, <2>4 DEF SyncCell, TypeOK
  <2> QED
    BY <1>2, <1>10, <2>3, <2>5 DEF SyncCell, TypeOK, Present
<1>11. ASSUME NEW w \in Workers, StoreStep(w)
       PROVE  TypeOK'
  <2>1. data' \in [Ids -> SUBSET Tables]
    BY <1>11 DEF StoreStep, StoreData, TypeOK, Tables
  <2>2. pc' \in [Workers -> Steps] /\ job' \in [Workers -> Jobs]
    BY <1>2, <1>11 DEF StoreStep, StoreData, Goto, TypeOK, Steps
  <2> QED
    BY <1>11, <2>1, <2>2 DEF StoreStep, StoreData, TypeOK, Present
<1>12. CASE Finished \/ UNCHANGED vars
  BY <1>12 DEF Finished, vars, tables, history, TypeOK, Present
<1> QED
  BY <1>1, <1>3, <1>4, <1>6, <1>7, <1>8, <1>9, <1>10, <1>11, <1>12, Kinds DEF Next

-----------------------------------------------------------------------------
(* What requests rely on.                                                  *)

\* The locals that name a request's kind stay until it is answered.
LEMMA KindKept ==
    ASSUME TypeOK, NEW w \in Workers, Located(w), Step(w)
    PROVE  /\ \/ job'[w] = NoJob
              \/ job'[w].op = job[w].op /\ job'[w].cell = job[w].cell
           /\ clean' \subseteq clean
<1>1. CASE Refuse(w)
  BY <1>1, Ended DEF Refuse
<1>2. CASE ReadStep(w)
  BY <1>2, Reads DEF ReadStep, history
<1>3. CASE InsertStore(w) \/ SaveStore(w)
  BY <1>3, Ended DEF InsertStore, SaveStore, Saved
<1>4. CASE DeleteStore(w)
  BY <1>4, Ended DEF DeleteStore
<1>5. CASE PluckCell(w)
  BY <1>5 DEF PluckCell, TypeOK, Jobs, history
<1>6. CASE SyncCell(w)
  BY <1>6, Ended DEF SyncCell
<1>7. CASE StoreStep(w)
  BY <1>7, Ended DEF StoreStep, StoreData
<1> QED
  BY <1>1, <1>2, <1>3, <1>4, <1>5, <1>6, <1>7, Kinds

\* The keys handed out and the data of a store only grow.
LEMMA Grows ==
    ASSUME TypeOK, NEW w \in Workers, Located(w), Begin(w) \/ Step(w)
    PROVE  /\ used \subseteq used'
           /\ \A k \in Ids : data[k] \subseteq data'[k]
<1>1. CASE Begin(w)
  BY <1>1 DEF Begin, BeginCreate, BeginUpdate, BeginDelete, BeginCell, BeginImport,
              tables
<1>2. CASE Refuse(w) \/ ReadStep(w) \/ PluckCell(w)
  BY <1>2 DEF Refuse, ReadStep, Read, PluckCell, tables
<1>3. CASE InsertStore(w) \/ SaveStore(w)
  BY <1>3 DEF InsertStore, SaveStore, Saved
<1>4. CASE DeleteStore(w) \/ SyncCell(w)
  BY <1>4 DEF DeleteStore, SyncCell
<1>5. CASE StoreStep(w)
  BY <1>5 DEF StoreStep, StoreData, TypeOK
<1> QED
  BY <1>1, <1>2, <1>3, <1>4, <1>5, Kinds

\* A request has the locals of its next statement.
LEMMA LocatedStep ==
    ASSUME TypeOK, NEW w \in Workers, \A v \in Workers : Located(v),
           Begin(w) \/ Step(w), NEW v \in Workers
    PROVE  Located(v)'
<1>1. CASE v # w
  BY <1>1, Bystander, Grows DEF Located
<1> SUFFICES ASSUME v = w PROVE Located(w)'
  BY <1>1
<1>2. ASSUME Leave(w) PROVE Located(w)'
  <2>1. pc'[w] = "idle" /\ job'[w] = NoJob /\ job'[w].op = "none"
    BY <1>2, Ended DEF NoJob
  <2> QED
    BY <2>1 DEF Located, StoreSteps, SaveSteps, SavingOps, CellSteps, DeleteSteps
<1>3. CASE Begin(w)
  <2>1. ASSUME NEW f \in Forms,
               Receive(w, [NoJob EXCEPT !.op = "create", !.form = f], "shopee")
        PROVE  Located(w)'
    <3>1. pc'[w] = "shopee" /\ job'[w] = [NoJob EXCEPT !.op = "create", !.form = f]
      BY <2>1, Arrives
    <3>2. /\ pc'[w] = "shopee" /\ job'[w].op = "create" /\ job'[w].id = 0
          /\ job'[w].form = f
      BY <3>1 DEF NoJob
    <3> QED
      BY <3>2 DEF Located, StoreSteps, SaveSteps, SavingOps, CellSteps, DeleteSteps
  <2>2. ASSUME NEW f \in Forms, NEW k \in Ids,
               Receive(w, [NoJob EXCEPT !.op = "update", !.id = k, !.form = f], "find")
        PROVE  Located(w)'
    <3>1. pc'[w] = "find" /\ job'[w] = [NoJob EXCEPT !.op = "update", !.id = k, !.form = f]
      BY <2>2, Arrives
    <3>2. /\ pc'[w] = "find" /\ job'[w].op = "update" /\ job'[w].id = k
          /\ job'[w].form = f
      BY <3>1 DEF NoJob
    <3> QED
      BY <3>2 DEF Located, StoreSteps, SaveSteps, SavingOps, CellSteps, DeleteSteps
  <2>3. ASSUME NEW k \in Ids,
               \/ Receive(w, [NoJob EXCEPT !.op = "delete", !.id = k, !.seen = data[k]],
                          "find")
               \/ Receive(w, [NoJob EXCEPT !.op = "import", !.id = k], "find")
        PROVE  Located(w)'
    <3>1. /\ pc'[w] = "find"
          /\ \/ job'[w] = [NoJob EXCEPT !.op = "delete", !.id = k, !.seen = data[k]]
             \/ job'[w] = [NoJob EXCEPT !.op = "import", !.id = k]
      BY <2>3, Arrives
    <3>2. pc'[w] = "find" /\ job'[w].op \in {"delete", "import"} /\ job'[w].id = k
      BY <3>1 DEF NoJob
    <3> QED
      BY <3>2 DEF Located, StoreSteps, SaveSteps, SavingOps, CellSteps, DeleteSteps
  <2>4. ASSUME NEW c \in Cells, NEW list \in SUBSET Ids, NEW step \in {"pluck", "exists"},
               Receive(w, [NoJob EXCEPT !.op = "cell", !.cell = c, !.list = list], step)
        PROVE  Located(w)'
    <3>1. pc'[w] = step /\ job'[w] = [NoJob EXCEPT !.op = "cell", !.cell = c, !.list = list]
      BY <2>4, Arrives
    <3>2. pc'[w] = step /\ job'[w].op = "cell" /\ job'[w].cell = c
      BY <3>1 DEF NoJob
    <3> QED
      BY <3>2 DEF Located, StoreSteps, SaveSteps, SavingOps, CellSteps, DeleteSteps
  <2> QED
    BY <1>3, <2>1, <2>2, <2>3, <2>4
       DEF Begin, BeginCreate, BeginUpdate, BeginDelete, BeginCell, BeginImport
<1>4. CASE Refuse(w) \/ InsertStore(w) \/ SaveStore(w) \/ DeleteStore(w) \/ SyncCell(w)
  BY <1>2, <1>4 DEF Refuse, InsertStore, SaveStore, Saved, DeleteStore, SyncCell
<1>5. ASSUME Read(w, "tokopedia"), At(w, "shopee") PROVE Located(w)'
  BY <1>5, Reads, Grows DEF At, Located, StoreSteps, SaveSteps, SavingOps, CellSteps,
                            DeleteSteps, tables
<1>6. ASSUME Read(w, IF job[w].op = "create" THEN "insert" ELSE "save"),
             At(w, "tokopedia")
      PROVE  Located(w)'
  <2>1. /\ pc'[w] = IF job[w].op = "create" THEN "insert" ELSE "save"
        /\ job' = job /\ used' = used
    BY <1>6, Reads DEF tables
  <2>2. job[w].op \in SavingOps /\ job[w].form \in Forms
    BY <1>6 DEF At, Located, SaveSteps
  <2>3. job[w].op = "update" => job[w].id \in used
    BY <1>6 DEF At, Located
  <2> QED
    BY <2>1, <2>2, <2>3 DEF Located, StoreSteps, SaveSteps, SavingOps, CellSteps,
                            DeleteSteps, TypeOK
<1>7. ASSUME FindStore(w) PROVE Located(w)'
  <2>1. CASE Refuse(w)
    BY <1>2, <2>1 DEF Refuse
  <2>2. CASE Read(w, AfterFind[job[w].op]) /\ Present(job[w].id)
    BY <1>7, <2>2, Reads
       DEF FindStore, AfterFind, At, Located, StoreSteps, SaveSteps, SavingOps,
           CellSteps, DeleteSteps, TypeOK, tables
  <2> QED
    BY <1>7, <2>1, <2>2 DEF FindStore
<1>8. ASSUME NEW next \in DeleteSteps, Read(w, next), pc[w] \in DeleteSteps
      PROVE  Located(w)'
  BY <1>8, Reads DEF Located, StoreSteps, SaveSteps, SavingOps, CellSteps, DeleteSteps,
                     tables
<1>9. ASSUME CheckIds(w) \/ PluckCell(w) PROVE Located(w)'
  <2>1. CASE Refuse(w)
    BY <1>2, <2>1 DEF Refuse
  <2>2. CASE Read(w, "pluck") /\ At(w, "exists")
    BY <2>2, Reads DEF At, Located, StoreSteps, SaveSteps, SavingOps, CellSteps,
                       DeleteSteps, tables
  <2>3. CASE PluckCell(w)
    <3>1. /\ pc[w] = "pluck" /\ pc'[w] = "sync" /\ job'[w].op = job[w].op
          /\ job'[w].cell = job[w].cell /\ job'[w].id = job[w].id /\ used' = used
      BY <2>3 DEF PluckCell, At, Goto, TypeOK, Jobs, tables
    <3> QED
      BY <3>1 DEF Located, StoreSteps, SaveSteps, SavingOps, CellSteps, DeleteSteps
  <2> QED
    BY <1>9, <2>1, <2>2, <2>3 DEF CheckIds
<1>10. ASSUME NEW step \in StoreSteps, NEW table, NEW next \in StoreSteps \cup {"idle"},
              StoreData(w, step, table, next),
              next \in {"storeSummaries", "storeMappings", "idle"}
       PROVE  Located(w)'
  <2>1. CASE Leave(w)
    BY <1>2, <2>1
  <2>2. CASE Goto(w, next) /\ UNCHANGED job /\ next # "idle"
    BY <1>10, <2>2 DEF StoreData, At, Goto, TypeOK, Located, StoreSteps, SaveSteps,
                       SavingOps, CellSteps, DeleteSteps
  <2> QED
    BY <1>10, <2>1, <2>2 DEF StoreData
<1>11. CASE Step(w)
  BY <1>4, <1>5, <1>6, <1>7, <1>8, <1>9, <1>10, <1>11
     DEF Step, CheckCode, CheckData, Fails, At, DeleteSteps, StoreSteps
<1> QED
  BY <1>3, <1>11

\* A request other than a deletion has nothing to check.
LEMMA NoDeletion ==
    ASSUME NEW w \in Workers, pc[w] \notin DeleteSteps, job[w].op # "delete"
    PROVE  Checked(w)
BY DEF Checked, DeleteSteps

\* A deletion has checked the tables before the one it is about to check.
LEMMA CheckedStep ==
    ASSUME TypeOK, NEW w \in Workers, \A v \in Workers : Located(v) /\ Checked(v),
           Begin(w) \/ Step(w), NEW v \in Workers
    PROVE  Checked(v)'
<1>1. CASE v # w
  <2>1. pc'[v] = pc[v] /\ job'[v] = job[v]
    BY <1>1, Bystander
  <2>2. job[v].id \in Ids => data[job[v].id] \subseteq data'[job[v].id]
    BY Grows
  <2> QED
    BY <2>1, <2>2 DEF Checked
<1> SUFFICES ASSUME v = w PROVE Checked(w)'
  BY <1>1
<1>2. ASSUME pc'[w] \notin DeleteSteps, job'[w].op # "delete"
      PROVE  Checked(w)'
  BY <1>2 DEF Checked, DeleteSteps
<1>3. ASSUME Leave(w) PROVE Checked(w)'
  <2>1. pc'[w] = "idle" /\ job'[w].op = "none"
    BY <1>3, Ended DEF NoJob
  <2> QED
    BY <2>1, <1>2 DEF DeleteSteps
<1>4. CASE Begin(w)
  <2>1. ASSUME NEW request, NEW step, Receive(w, request, step), request.op # "delete",
               step \notin DeleteSteps
        PROVE  Checked(w)'
    BY <2>1, <1>2, Arrives
  <2>2. ASSUME NEW k \in Ids, UNCHANGED data,
               Receive(w, [NoJob EXCEPT !.op = "delete", !.id = k, !.seen = data[k]],
                       "find")
        PROVE  Checked(w)'
    <3>1. /\ pc'[w] = "find"
          /\ job'[w] = [NoJob EXCEPT !.op = "delete", !.id = k, !.seen = data[k]]
      BY <2>2, Arrives
    <3>2. job'[w].id = k /\ job'[w].seen = data'[k]
      BY <2>2, <3>1 DEF NoJob
    <3> QED
      BY <3>1, <3>2 DEF Checked
  <2>3. /\ \A f \in Forms : [NoJob EXCEPT !.op = "create", !.form = f].op = "create"
        /\ \A f \in Forms, k \in Ids :
             [NoJob EXCEPT !.op = "update", !.id = k, !.form = f].op = "update"
        /\ \A c \in Cells, list \in SUBSET Ids :
             [NoJob EXCEPT !.op = "cell", !.cell = c, !.list = list].op = "cell"
        /\ \A k \in Ids : [NoJob EXCEPT !.op = "import", !.id = k].op = "import"
    BY DEF NoJob
  <2>4. {"shopee", "find", "pluck", "exists"} \cap DeleteSteps = {}
    BY DEF DeleteSteps
  <2>5. CASE BeginCreate(w) \/ BeginUpdate(w)
    BY <2>1, <2>3, <2>4, <2>5 DEF BeginCreate, BeginUpdate
  <2>6. CASE BeginCell(w)
    BY <2>1, <2>3, <2>4, <2>6 DEF BeginCell
  <2>7. CASE BeginImport(w)
    BY <2>1, <2>3, <2>4, <2>7 DEF BeginImport
  <2> QED
    BY <1>4, <2>2, <2>5, <2>6, <2>7 DEF Begin, BeginDelete, tables
<1>5. CASE Refuse(w) \/ InsertStore(w) \/ SaveStore(w) \/ DeleteStore(w) \/ SyncCell(w)
  BY <1>3, <1>5 DEF Refuse, InsertStore, SaveStore, Saved, DeleteStore, SyncCell
<1>6. ASSUME NEW step \in SaveSteps, Read(w, step), pc[w] \in SaveSteps
      PROVE  Checked(w)'
  <2>1. pc'[w] = step /\ job' = job /\ job[w].op \in SavingOps
    BY <1>6, Reads DEF Located
  <2> QED
    BY <2>1, <1>2 DEF SaveSteps, DeleteSteps, SavingOps
<1>7. ASSUME FindStore(w) PROVE Checked(w)'
  <2>1. CASE Refuse(w)
    BY <1>5, <2>1
  <2>2. CASE Read(w, AfterFind[job[w].op])
    <3>1. /\ pc'[w] \in {"shopee", "hasSummaries", "storeProducts"}
          /\ job' = job /\ data' = data
      BY <1>7, <2>2, Reads DEF FindStore, At, Located, AfterFind, tables
    <3> QED
      BY <3>1 DEF Checked
  <2> QED
    BY <1>7, <2>1, <2>2 DEF FindStore
<1>8. ASSUME NEW step, NEW table, NEW next, CheckData(w, step, table, next),
             <<step, table, next>> \in
                {<<"hasSummaries", "summaries", "hasProducts">>,
                 <<"hasProducts", "products", "hasMappings">>,
                 <<"hasMappings", "mappings", "delete">>}
      PROVE  Checked(w)'
  <2>1. CASE Refuse(w)
    BY <1>5, <2>1
  <2>2. CASE Read(w, next) /\ table \notin data[job[w].id]
    <3>1. pc[w] = step /\ pc'[w] = next /\ job' = job /\ data' = data
      BY <1>8, <2>2, Reads DEF CheckData, At, tables
    <3>2. job[w].id \in Ids /\ job[w].seen \subseteq data[job[w].id]
      BY <1>8, <3>1 DEF Located, Checked, DeleteSteps
    <3>3. job[w].seen \subseteq Tables
      BY DEF TypeOK, Jobs
    <3> QED
      BY <1>8, <2>2, <3>1, <3>2, <3>3 DEF Checked, Tables
  <2> QED
    BY <1>8, <2>1, <2>2 DEF CheckData
<1>9. ASSUME CheckIds(w) PROVE Checked(w)'
  <2>1. CASE Refuse(w)
    BY <1>5, <2>1
  <2>2. CASE Read(w, "pluck")
    <3>1. pc'[w] = "pluck" /\ job' = job /\ job[w].op = "cell"
      BY <1>9, <2>2, Reads DEF CheckIds, At, Located, CellSteps
    <3> QED
      BY <3>1, <1>2 DEF DeleteSteps
  <2> QED
    BY <1>9, <2>1, <2>2 DEF CheckIds
<1>10. ASSUME PluckCell(w) PROVE Checked(w)'
  <2>1. pc'[w] = "sync" /\ job'[w].op = job[w].op /\ job[w].op = "cell"
    BY <1>10 DEF PluckCell, At, Goto, TypeOK, Jobs, Located, CellSteps
  <2> QED
    BY <2>1, <1>2 DEF DeleteSteps
<1>11. ASSUME StoreStep(w) PROVE Checked(w)'
  <2>1. CASE Leave(w)
    BY <1>3, <2>1
  <2>2. CASE /\ pc'[w] \in {"storeSummaries", "storeMappings"} /\ job' = job
    <3>1. \A k \in Ids : data[k] \subseteq data'[k]
      BY <1>11, Grows DEF StoreStep, Step
    <3> QED
      BY <2>2, <3>1 DEF Checked
  <2> QED
    BY <1>11, <2>1, <2>2 DEF StoreStep, StoreData, Goto, TypeOK
<1>12. CASE Step(w)
  <2>1. {"shopee", "tokopedia", "insert", "save"} \subseteq SaveSteps
    BY DEF SaveSteps
  <2>2. ASSUME NEW column \in SaveSteps, NEW step \in SaveSteps,
               CheckCode(w, column, step)
        PROVE  Checked(w)'
    BY <2>2, <1>5, <1>6 DEF CheckCode, At
  <2> QED
    BY <1>12, <1>5, <1>7, <1>8, <1>9, <1>10, <1>11, <2>1, <2>2
       DEF Step, StoreStep, Fails
<1> QED
  BY <1>4, <1>12

\* Who is clean stays alone among those it conflicts with.
LEMMA LonelyStep ==
    ASSUME TypeOK, Lonely, NEW w \in Workers, Located(w), Begin(w) \/ Step(w)
    PROVE  Lonely'
<1> SUFFICES ASSUME NEW c \in clean', NEW v \in Workers \ {c}
             PROVE  ~Conflict(v, job[c].op, job[c].cell)'
  BY DEF Lonely
<1>1. c \in Workers /\ (c # w => c \in clean)
  BY Bystander DEF TypeOK
<1>2. \A u \in Workers \ {w} : job'[u] = job[u]
  BY Bystander
<1>3. CASE Begin(w)
  <2>1. ASSUME NEW request, NEW step, Receive(w, request, step)
        PROVE  ~Conflict(v, job[c].op, job[c].cell)'
    <3>1. job'[w] = request
      BY <2>1, Arrives
    <3>2. \A u \in Workers \ {w} :
            Conflict(u, request.op, request.cell) => u \notin clean' /\ w \notin clean'
      BY <2>1, Arrives
    <3>3. CASE c = w
      <4>1. ~Conflict(v, request.op, request.cell) /\ job'[v] = job[v]
        BY <3>2, <3>3, <1>2
      <4> QED
        BY <4>1, <3>1, <3>3 DEF Conflict
    <3>4. CASE c # w /\ v = w
      <4>1. ~Conflict(c, request.op, request.cell) /\ job'[c] = job[c]
        BY <3>2, <3>4, <1>1, <1>2
      <4> QED
        BY <4>1, <3>1, <3>4 DEF Conflict
    <3>5. CASE c # w /\ v # w
      <4>1. job'[c] = job[c] /\ job'[v] = job[v] /\ ~Conflict(v, job[c].op, job[c].cell)
        BY <3>5, <1>1, <1>2 DEF Lonely
      <4> QED
        BY <4>1 DEF Conflict
    <3> QED
      BY <3>3, <3>4, <3>5
  <2> QED
    BY <1>3, <2>1
       DEF Begin, BeginCreate, BeginUpdate, BeginDelete, BeginCell, BeginImport
<1>4. CASE Step(w)
  <2>1. c \in clean /\ ~Conflict(v, job[c].op, job[c].cell)
    BY <1>4, KindKept DEF Lonely
  <2>2. ASSUME NEW u \in Workers
        PROVE  \/ job'[u].op = "none"
               \/ job'[u].op = job[u].op /\ job'[u].cell = job[u].cell
    BY <1>2, <1>4, KindKept DEF NoJob
  <2> QED
    BY <1>1, <2>1, <2>2 DEF Conflict, SavingOps
<1> QED
  BY <1>3, <1>4

-----------------------------------------------------------------------------
(* What the tables are worth to a request that runs alone.                 *)

\* A statement that is not a save leaves no more stores with a code than there
\* were.
LEMMA CodesShrink ==
    ASSUME TypeOK, NEW w \in Workers, Located(w), Begin(w) \/ Step(w),
           ~InsertStore(w), ~SaveStore(w)
    PROVE  \A k \in Ids : stores'[k] \in {stores[k], NoStore}
<1>1. CASE Begin(w)
  BY <1>1 DEF Begin, BeginCreate, BeginUpdate, BeginDelete, BeginCell, BeginImport,
              tables
<1>2. CASE Refuse(w) \/ ReadStep(w) \/ PluckCell(w)
  BY <1>2 DEF Refuse, ReadStep, Read, PluckCell, tables
<1>3. CASE SyncCell(w) \/ StoreStep(w)
  BY <1>3 DEF SyncCell, StoreStep, StoreData
<1>4. CASE DeleteStore(w)
  BY <1>4 DEF DeleteStore, TypeOK
<1> QED
  BY <1>1, <1>2, <1>3, <1>4, Kinds

\* What a solo save has validated stays valid until it is written.
LEMMA ValidatedStep ==
    ASSUME TypeOK, Lonely, NEW w \in Workers,
           \A v \in Workers : Located(v) /\ Validated(v),
           Begin(w) \/ Step(w), NEW v \in Workers
    PROVE  Validated(v)'
<1>1. CASE v # w
  <2> SUFFICES ASSUME v \in clean', pc[v] \in {"tokopedia", "insert", "save"}
               PROVE  Validated(v)'
    BY <1>1, Bystander DEF Validated
  <2>1. v \in clean /\ pc'[v] = pc[v] /\ job'[v] = job[v]
    BY <1>1, Bystander
  <2>2. job[v].op \in SavingOps
    BY DEF Located, SaveSteps
  <2>3. job[w].op \notin SavingOps
    BY <1>1, <2>1, <2>2 DEF Lonely, Conflict
  <2>4. ~InsertStore(w) /\ ~SaveStore(w)
    BY <2>3 DEF InsertStore, SaveStore, At, Located, SaveSteps
  <2>5. \A k \in Ids : stores'[k] \in {stores[k], NoStore}
    BY <2>4, CodesShrink
  <2>6. ASSUME NEW column, NEW code, CodeTaken(column, code, job[v].id)'
        PROVE  CodeTaken(column, code, job[v].id)
    BY <2>1, <2>5, <2>6 DEF CodeTaken, Present
  <2> QED
    BY <2>1, <2>6 DEF Validated
<1> SUFFICES ASSUME v = w PROVE Validated(w)'
  BY <1>1
<1>2. ASSUME pc'[w] \notin {"tokopedia", "insert", "save"} PROVE Validated(w)'
  BY <1>2 DEF Validated
<1>3. ASSUME Leave(w) PROVE Validated(w)'
  BY <1>2, <1>3, Ended
<1>4. CASE Begin(w)
  BY <1>2, <1>4, Starts
<1>5. CASE Refuse(w) \/ InsertStore(w) \/ SaveStore(w) \/ DeleteStore(w) \/ SyncCell(w)
  BY <1>3, <1>5 DEF Refuse, InsertStore, SaveStore, Saved, DeleteStore, SyncCell
<1>6. ASSUME NEW column, NEW step, CheckCode(w, column, step),
             <<column, step>> \in {<<"shopee", "tokopedia">>, <<"tokopedia", "insert">>,
                                  <<"tokopedia", "save">>}
      PROVE  Validated(w)'
  <2>1. CASE Refuse(w)
    BY <1>5, <2>1
  <2>2. CASE /\ Read(w, step)
             /\ job[w].form[column] # None =>
                  ~CodeTaken(column, job[w].form[column], job[w].id)
    <3>1. pc[w] = column /\ pc'[w] = step /\ job' = job /\ stores' = stores
          /\ clean' = clean
      BY <1>6, <2>2, Reads DEF CheckCode, At, tables, history
    <3>2. \A c, code, x : CodeTaken(c, code, x)' <=> CodeTaken(c, code, x)
      BY <3>1 DEF CodeTaken, Present
    <3> QED
      BY <1>6, <2>2, <3>1, <3>2 DEF Validated
  <2> QED
    BY <1>6, <2>1, <2>2 DEF CheckCode
<1>7. ASSUME FindStore(w) \/ CheckIds(w) PROVE Validated(w)'
  <2>1. CASE Refuse(w)
    BY <1>5, <2>1
  <2>2. CASE FindStore(w) /\ Read(w, AfterFind[job[w].op])
    BY <1>2, <2>2, Reads DEF FindStore, At, Located, AfterFind
  <2>3. CASE Read(w, "pluck")
    BY <1>2, <2>3, Reads
  <2> QED
    BY <1>7, <2>1, <2>2, <2>3 DEF FindStore, CheckIds
<1>8. ASSUME NEW step, NEW table, NEW next \in DeleteSteps, CheckData(w, step, table, next)
      PROVE  Validated(w)'
  BY <1>2, <1>5, <1>8, Reads DEF CheckData, DeleteSteps
<1>9. CASE PluckCell(w)
  BY <1>2, <1>9 DEF PluckCell, Goto, TypeOK
<1>10. CASE StoreStep(w)
  <2>1. Leave(w) \/ pc'[w] \in {"storeSummaries", "storeMappings"}
    BY <1>10 DEF StoreStep, StoreData, Goto, TypeOK
  <2> QED
    BY <1>2, <1>3, <2>1
<1>11. CASE Step(w)
  <2>1. {"hasProducts", "hasMappings", "delete"} \subseteq DeleteSteps
    BY DEF DeleteSteps
  <2>2. CASE \/ CheckCode(w, "shopee", "tokopedia")
             \/ CheckCode(w, "tokopedia", IF job[w].op = "create" THEN "insert" ELSE "save")
    <3>1. (IF job[w].op = "create" THEN "insert" ELSE "save") \in {"insert", "save"}
      OBVIOUS
    <3> QED
      BY <1>6, <2>2, <3>1
  <2>3. CASE \/ CheckData(w, "hasSummaries", "summaries", "hasProducts")
             \/ CheckData(w, "hasProducts", "products", "hasMappings")
             \/ CheckData(w, "hasMappings", "mappings", "delete")
    BY <1>8, <2>1, <2>3
  <2> QED
    BY <1>11, <1>5, <1>7, <1>9, <1>10, <2>2, <2>3 DEF Step, StoreStep, Fails
<1> QED
  BY <1>4, <1>11

\* A cell's list changes only by an update of that cell or by a deletion.
LEMMA CellsKept ==
    ASSUME TypeOK, NEW w \in Workers, Located(w), Begin(w) \/ Step(w),
           ~SyncCell(w), ~DeleteStore(w)
    PROVE  rows' = rows
<1>1. CASE Begin(w)
  BY <1>1 DEF Begin, BeginCreate, BeginUpdate, BeginDelete, BeginCell, BeginImport,
              tables
<1>2. CASE Refuse(w) \/ ReadStep(w) \/ PluckCell(w)
  BY <1>2 DEF Refuse, ReadStep, Read, PluckCell, tables
<1>3. CASE InsertStore(w) \/ SaveStore(w) \/ StoreStep(w)
  BY <1>3 DEF InsertStore, SaveStore, Saved, StoreStep, StoreData
<1> QED
  BY <1>1, <1>2, <1>3, Kinds

\* Only PluckCell leads to the commit of a cell.
LEMMA Plucks ==
    ASSUME TypeOK, NEW w \in Workers, Located(w), Begin(w) \/ Step(w),
           pc'[w] = "sync"
    PROVE  PluckCell(w)
<1>1. ~Leave(w)
  BY Ended
<1>2. ~Begin(w)
  BY Starts
<1>3. ASSUME NEW column, NEW step \in SaveSteps, CheckCode(w, column, step)
      PROVE  FALSE
  BY <1>1, <1>3, Reads DEF CheckCode, Refuse, SaveSteps
<1>4. ASSUME NEW step, NEW table, NEW next \in DeleteSteps, CheckData(w, step, table, next)
      PROVE  FALSE
  BY <1>1, <1>4, Reads DEF CheckData, Refuse, DeleteSteps
<1>5. ~FindStore(w)
  BY <1>1, Reads DEF FindStore, Refuse, At, Located, AfterFind
<1>6. ~CheckIds(w)
  BY <1>1, Reads DEF CheckIds, Refuse
<1>7. ~StoreStep(w)
  <2>1. ASSUME StoreStep(w) PROVE Leave(w) \/ pc'[w] \in {"storeSummaries", "storeMappings"}
    BY <2>1 DEF StoreStep, StoreData, Goto, TypeOK
  <2> QED
    BY <1>1, <2>1
<1>8. ~InsertStore(w) /\ ~SaveStore(w) /\ ~DeleteStore(w) /\ ~SyncCell(w) /\ ~Fails(w)
  BY <1>1 DEF InsertStore, SaveStore, Saved, DeleteStore, SyncCell, Fails, Refuse
<1>9. /\ {"tokopedia", "insert", "save"} \subseteq SaveSteps
      /\ {"hasProducts", "hasMappings", "delete"} \subseteq DeleteSteps
  BY DEF SaveSteps, DeleteSteps
<1> QED
  BY <1>2, <1>3, <1>4, <1>5, <1>6, <1>7, <1>8, <1>9 DEF Step, StoreStep

\* The snapshot of a solo update of a cell is still the cell's list.
LEMMA SnapshotStep ==
    ASSUME TypeOK, Lonely, NEW w \in Workers,
           \A v \in Workers : Located(v) /\ Snapshot(v),
           Begin(w) \/ Step(w), NEW v \in Workers
    PROVE  Snapshot(v)'
<1> SUFFICES ASSUME v \in clean', pc'[v] = "sync"
             PROVE  job'[v].kept = InCell(job[v].cell)'
  BY DEF Snapshot
<1>1. CASE v # w
  <2>1. v \in clean /\ pc[v] = "sync" /\ job'[v] = job[v]
    BY <1>1, Bystander
  <2>2. job[v].op = "cell" /\ job[v].cell \in Cells
    BY <2>1 DEF Located, CellSteps
  <2>3. ~DeleteStore(w)
    BY <2>2 DEF DeleteStore
  <2>4. rows'[job[v].cell] = rows[job[v].cell]
    <3>1. CASE SyncCell(w)
      <4>1. job[w].op = "cell" /\ job[w].cell # job[v].cell
        BY <1>1, <2>1, <2>2, <3>1 DEF Lonely, Conflict, SyncCell, At, Located, CellSteps
      <4> QED
        BY <2>2, <3>1, <4>1 DEF SyncCell, TypeOK
    <3>2. CASE ~SyncCell(w)
      BY <2>3, <3>2, CellsKept
    <3> QED
      BY <3>1, <3>2
  <2> QED
    BY <2>1, <2>4 DEF Snapshot, InCell
<1>2. CASE v = w
  <2>1. PluckCell(w)
    BY <1>2, Plucks
  <2>2. job'[w].kept = InCell(job[w].cell) /\ job'[w].cell = job[w].cell /\ rows' = rows
    BY <2>1 DEF PluckCell, TypeOK, Jobs, tables
  <2> QED
    BY <1>2, <2>2 DEF InCell
<1> QED
  BY <1>1, <1>2

\* A solo update of a cell leaves the list it was asked for.
LEMMA SyncedList ==
    ASSUME TypeOK, NEW w \in Workers, Located(w), At(w, "sync"),
           job[w].kept = InCell(job[w].cell)
    PROVE  {k \in Ids : Synced(w)[k] > 0} = job[w].list
<1>1. job[w].cell \in Cells /\ job[w].list \subseteq Ids
  BY DEF At, Located, CellSteps, TypeOK, Jobs
<1>2. rows[job[w].cell] \in [Ids -> Nat]
  BY <1>1 DEF TypeOK
<1>3. ASSUME NEW k \in Ids
      PROVE  Synced(w)[k] > 0 <=> k \in job[w].list
  <2>1. rows[job[w].cell][k] \in Nat /\ (k \in job[w].kept <=> rows[job[w].cell][k] > 0)
    BY <1>2 DEF InCell
  <2> QED
    BY <2>1 DEF Synced
<1> QED
  BY <1>1, <1>3

\* What is recorded of a cell is its last update, less the stores deleted since.
LEMMA AskedStep ==
    ASSUME TypeOK, NEW w \in Workers, Located(w), Begin(w) \/ Step(w),
           NEW c \in Cells, asked'[c].alone
    PROVE  \/ /\ SyncCell(w) /\ c = job[w].cell
              /\ w \in clean /\ asked'[c].list = job[w].list
           \/ /\ asked[c].alone /\ DeleteStore(w)
              /\ asked'[c].list = asked[c].list \ {job[w].id}
           \/ /\ asked[c].alone /\ ~DeleteStore(w)
              /\ ~(SyncCell(w) /\ c = job[w].cell)
              /\ asked'[c].list = asked[c].list
<1>0. asked[c] \in Asked
  BY DEF TypeOK
<1>1. CASE Begin(w)
  <2>1. asked'[c] = asked[c]
    <3>1. CASE asked' = asked
      BY <3>1
    <3>2. ASSUME NEW d \in Cells, asked' = [asked EXCEPT ![d].alone = FALSE]
          PROVE  asked'[c] = asked[c]
      <4>1. CASE c = d
        <5>1. asked'[c] = [asked[c] EXCEPT !.alone = FALSE]
          BY <3>2, <4>1 DEF TypeOK
        <5>2. ~asked'[c].alone
          BY <1>0, <5>1 DEF Asked
        <5> QED
          BY <5>2
      <4>2. CASE c # d
        BY <3>2, <4>2 DEF TypeOK
      <4> QED
        BY <4>1, <4>2
    <3> QED
      BY <1>1, <3>1, <3>2 DEF Begin, BeginCreate, BeginUpdate, BeginDelete, BeginCell,
                              BeginImport
  <2>2. pc[w] = "idle"
    BY <1>1 DEF Begin, BeginCreate, BeginUpdate, BeginDelete, BeginCell, BeginImport,
                Receive, At
  <2> QED
    BY <2>1, <2>2 DEF SyncCell, DeleteStore, At
<1>2. CASE SyncCell(w)
  <2>1. job[w].cell \in Cells /\ ~DeleteStore(w)
    BY <1>2 DEF SyncCell, DeleteStore, At, Located, CellSteps
  <2>2. CASE c = job[w].cell
    <3>1. asked'[c] = [alone |-> w \in clean, list |-> job[w].list]
      BY <1>2, <2>1, <2>2 DEF SyncCell, TypeOK
    <3>2. w \in clean /\ asked'[c].list = job[w].list
      <4> SUFFICES ASSUME w \notin clean PROVE FALSE
        BY <3>1
      <4>1. (w \in clean) = FALSE
        OBVIOUS
      <4>2. asked'[c] = [alone |-> FALSE, list |-> job[w].list]
        BY <3>1, <4>1, Zenon
      <4> QED
        BY <4>2
    <3> QED
      BY <1>2, <2>2, <3>2
  <2>3. CASE c # job[w].cell
    BY <1>2, <2>1, <2>3 DEF SyncCell, TypeOK
  <2> QED
    BY <2>2, <2>3
<1>3. CASE DeleteStore(w)
  <2>1. asked'[c] = [asked[c] EXCEPT !.list = @ \ {job[w].id}]
    BY <1>3 DEF DeleteStore
  <2>2. asked'[c].list = asked[c].list \ {job[w].id} /\ asked'[c].alone = asked[c].alone
    BY <1>0, <2>1 DEF Asked
  <2> QED
    BY <1>3, <2>2
<1>4. CASE Step(w) /\ ~SyncCell(w) /\ ~DeleteStore(w)
  <2>1. CASE Refuse(w) \/ ReadStep(w) \/ PluckCell(w)
    BY <1>4, <2>1 DEF Refuse, ReadStep, Read, PluckCell, history
  <2>2. CASE InsertStore(w) \/ SaveStore(w) \/ StoreStep(w)
    BY <1>4, <2>2 DEF InsertStore, SaveStore, Saved, StoreStep, StoreData
  <2> QED
    BY <1>4, <2>1, <2>2, Kinds
<1> QED
  BY <1>1, <1>2, <1>3, <1>4

\* What solo updates of cells leave there stays until the next update.
LEMMA SettledCellsStep ==
    ASSUME TypeOK, SettledCells, NEW w \in Workers,
           \A v \in Workers : Located(v) /\ Snapshot(v), Begin(w) \/ Step(w)
    PROVE  SettledCells'
<1> SUFFICES ASSUME NEW c \in Cells, asked'[c].alone
             PROVE  InCell(c)' = asked'[c].list
  BY DEF SettledCells
<1>1. CASE SyncCell(w) /\ c = job[w].cell
  <2>1. w \in clean /\ asked'[c].list = job[w].list
    BY <1>1, AskedStep DEF SyncCell, DeleteStore, At
  <2>2. job[w].kept = InCell(job[w].cell)
    BY <1>1, <2>1 DEF SyncCell, At, Snapshot
  <2>3. rows'[c] = Synced(w)
    BY <1>1 DEF SyncCell, TypeOK
  <2> QED
    BY <1>1, <2>1, <2>2, <2>3, SyncedList DEF SyncCell, InCell
<1>2. CASE DeleteStore(w)
  <2>1. asked[c].alone /\ asked'[c].list = asked[c].list \ {job[w].id}
    BY <1>2, AskedStep DEF SyncCell, DeleteStore, At
  <2>2. rows'[c] = [rows[c] EXCEPT ![job[w].id] = 0] /\ rows[c] \in [Ids -> Nat]
    BY <1>2 DEF DeleteStore, TypeOK
  <2>3. InCell(c)' = InCell(c) \ {job[w].id}
    BY <2>2 DEF InCell
  <2> QED
    BY <2>1, <2>3 DEF SettledCells
<1>3. CASE ~DeleteStore(w) /\ ~(SyncCell(w) /\ c = job[w].cell)
  <2>1. asked[c].alone /\ asked'[c].list = asked[c].list
    BY <1>3, AskedStep
  <2>2. rows'[c] = rows[c]
    <3>1. CASE SyncCell(w)
      BY <1>3, <3>1 DEF SyncCell, TypeOK
    <3>2. CASE ~SyncCell(w)
      BY <1>3, <3>2, CellsKept
    <3> QED
      BY <3>1, <3>2
  <2> QED
    BY <2>1, <2>2 DEF SettledCells, InCell
<1> QED
  BY <1>1, <1>2, <1>3

\* A save gives a store no code that another store has, unless it was
\* overlapped by another save.
LEMMA SaveUnique ==
    ASSUME TypeOK, SoloSavesUnique, NEW w \in Workers, Located(w), Validated(w),
           InsertStore(w) \/ SaveStore(w)
    PROVE  SoloSavesUnique'
<1>1. PICK x \in Ids :
        /\ \A k \in Ids \ {x} : stores'[k] = stores[k]
        /\ \A column \in Columns : stores'[x][column] = job[w].form[column]
        /\ Saved(w, x)
        /\ x = job[w].id \/ job[w].id \notin Ids
  <2>1. job[w].form \in Stores
    BY DEF TypeOK, Jobs
  <2>2. \A column \in Columns : Defaulted(job[w].form)[column] = job[w].form[column]
    BY <2>1 DEF Defaulted, Columns, Stores
  <2>3. CASE InsertStore(w)
    <3>1. PICK k \in Ids : /\ stores' = [stores EXCEPT ![k] = Defaulted(job[w].form)]
                           /\ Saved(w, k)
      BY <2>3 DEF InsertStore
    <3>2. job[w].id = 0 /\ 0 \notin Ids
      BY <2>3, RegistryAssumption DEF InsertStore, At, Located
    <3> QED
      BY <2>2, <3>1, <3>2 DEF TypeOK
  <2>4. CASE SaveStore(w)
    <3>1. job[w].id \in Ids
      BY <2>4 DEF SaveStore, At, Located, StoreSteps
    <3> QED
      BY <2>2, <2>4, <3>1 DEF SaveStore, TypeOK
  <2> QED
    BY <2>3, <2>4
<1>2. CASE w \in clean
  <2>1. ASSUME NEW column \in Columns, job[w].form[column] # None
        PROVE  ~CodeTaken(column, job[w].form[column], job[w].id)
    BY <1>2, <2>1 DEF Validated, InsertStore, SaveStore, At, Columns
  <2>2. ASSUME NEW k \in Ids, NEW l \in Ids, NEW column \in Columns, k # l,
               Present(k)', Present(l)', stores'[k][column] # None,
               stores'[k][column] = stores'[l][column]
        PROVE  k \in raced' \/ l \in raced'
    <3>1. raced' = raced \ {x}
      BY <1>1, <1>2 DEF Saved
    <3>2. k # x /\ l # x
      <4>1. ASSUME NEW o \in Ids \ {x}, stores'[o][column] = stores'[x][column],
                   Present(o)', stores'[x][column] # None
            PROVE  FALSE
        <5>1. stores[o][column] = job[w].form[column] /\ Present(o)
          BY <1>1, <4>1 DEF Present
        <5>2. job[w].form[column] # None /\ o # job[w].id
          BY <1>1, <4>1
        <5> QED
          BY <2>1, <5>1, <5>2 DEF CodeTaken
      <4> QED
        BY <2>2, <4>1
    <3>3. k \in raced \/ l \in raced
      BY <1>1, <2>2, <3>2 DEF SoloSavesUnique, Present
    <3> QED
      BY <3>1, <3>2, <3>3
  <2> QED
    BY <2>2 DEF SoloSavesUnique
<1>3. CASE w \notin clean
  <2>1. raced' = raced \cup {x}
    BY <1>1, <1>3 DEF Saved
  <2> QED
    BY <1>1, <2>1 DEF SoloSavesUnique, Present
<1> QED
  BY <1>2, <1>3

\* The same for every step.
LEMMA SoloSavesUniqueStep ==
    ASSUME TypeOK, SoloSavesUnique, NEW w \in Workers, Located(w), Validated(w),
           Begin(w) \/ Step(w)
    PROVE  SoloSavesUnique'
<1>1. CASE InsertStore(w) \/ SaveStore(w)
  BY <1>1, SaveUnique
<1>2. CASE DeleteStore(w)
  <2>1. raced' = raced \ {job[w].id} /\ stores' = [stores EXCEPT ![job[w].id] = NoStore]
    BY <1>2 DEF DeleteStore
  <2> QED
    BY <2>1 DEF SoloSavesUnique, Present, TypeOK
<1>3. CASE ~InsertStore(w) /\ ~SaveStore(w) /\ ~DeleteStore(w)
  <2>1. stores' = stores /\ raced' = raced
    <3>1. CASE Begin(w)
      BY <3>1 DEF Begin, BeginCreate, BeginUpdate, BeginDelete, BeginCell, BeginImport,
                  tables
    <3>2. CASE Refuse(w) \/ ReadStep(w) \/ PluckCell(w)
      BY <3>2 DEF Refuse, ReadStep, Read, PluckCell, tables, history
    <3>3. CASE SyncCell(w) \/ StoreStep(w)
      BY <3>3 DEF SyncCell, StoreStep, StoreData
    <3> QED
      BY <1>3, <3>1, <3>2, <3>3, Kinds
  <2> QED
    BY <2>1 DEF SoloSavesUnique, Present
<1> QED
  BY <1>1, <1>2, <1>3

\* Only an update of a cell adds rows to it.
LEMMA DoublesBySync ==
    ASSUME TypeOK, NEW w \in Workers, Located(w), Begin(w) \/ Step(w),
           NEW c \in Cells, NEW k \in Ids, rows'[c][k] > rows[c][k]
    PROVE  SyncCell(w) /\ job[w].cell = c
<1>1. rows[c] \in [Ids -> Nat]
  BY DEF TypeOK
<1>2. CASE SyncCell(w)
  <2>1. job[w].cell \in Cells
    BY <1>2 DEF SyncCell, At, Located, CellSteps
  <2> QED
    BY <1>1, <1>2, <2>1 DEF SyncCell, TypeOK
<1>3. CASE DeleteStore(w)
  <2>1. rows'[c] = [rows[c] EXCEPT ![job[w].id] = 0]
    BY <1>3 DEF DeleteStore
  <2> QED
    BY <1>1, <2>1
<1>4. CASE ~SyncCell(w) /\ ~DeleteStore(w)
  BY <1>1, <1>4, CellsKept
<1> QED
  BY <1>2, <1>3, <1>4

\* An update that runs alone inserts only stores the cell has no row of.
LEMMA LoneSyncOnce ==
    ASSUME TypeOK, NEW w \in Workers, Located(w), Snapshot(w), SyncCell(w),
           NEW k \in Ids,
           rows'[job[w].cell][k] > 1, rows'[job[w].cell][k] > rows[job[w].cell][k]
    PROVE  w \notin clean
<1> SUFFICES ASSUME w \in clean PROVE FALSE
  OBVIOUS
<1>1. job[w].cell \in Cells
  BY DEF SyncCell, At, Located, CellSteps
<1>2. rows[job[w].cell][k] \in Nat
  BY <1>1 DEF TypeOK
<1>3. rows'[job[w].cell][k] = Synced(w)[k]
  BY <1>1 DEF SyncCell, TypeOK
<1>4. k \notin job[w].kept => rows[job[w].cell][k] = 0
  BY <1>2 DEF SyncCell, At, Snapshot, InCell
<1> QED
  BY <1>2, <1>3, <1>4 DEF Synced

-----------------------------------------------------------------------------
(* The stores a cell names.                                                *)

\* Only a deletion takes a store from the registry.
LEMMA StoresRemoved ==
    ASSUME TypeOK, NEW w \in Workers, Located(w), Begin(w) \/ Step(w),
           NEW k \in Ids, Present(k), ~Present(k)'
    PROVE  DeleteStore(w) /\ job[w].id = k
<1>1. stores'[k] # stores[k]
  BY DEF Present
<1>2. CASE InsertStore(w) \/ SaveStore(w)
  <2>1. job[w].form \in Forms /\ job[w].form \in Stores
    BY <1>2 DEF InsertStore, SaveStore, At, Located, SaveSteps, TypeOK, Jobs
  <2>2. job[w].form # NoStore
    BY <2>1, RegistryAssumption
  <2>3. Defaulted(job[w].form).must = TRUE /\ NoStore.must = FALSE
    BY <2>1 DEF Defaulted, Stores, NoStore
  <2>4. stores'[k] \in {stores[k], job[w].form, Defaulted(job[w].form)}
    BY <1>2 DEF InsertStore, SaveStore, TypeOK
  <2> QED
    BY <1>1, <2>2, <2>3, <2>4 DEF Present
<1>3. CASE DeleteStore(w)
  BY <1>1, <1>3 DEF DeleteStore, TypeOK
<1>4. CASE Begin(w)
  BY <1>1, <1>4 DEF Begin, BeginCreate, BeginUpdate, BeginDelete, BeginCell,
                    BeginImport, tables
<1>5. CASE Refuse(w) \/ ReadStep(w) \/ PluckCell(w) \/ SyncCell(w) \/ StoreStep(w)
  BY <1>1, <1>5 DEF Refuse, ReadStep, Read, PluckCell, SyncCell, StoreStep, StoreData,
                    tables
<1> QED
  BY <1>2, <1>3, <1>4, <1>5, Kinds

\* An update of a cell that nothing overlapped names stores there are, on its
\* way to the commit as well as after it.
NamesStores ==
    /\ \A w \in clean : pc[w] \in {"pluck", "sync"} =>
          \A k \in job[w].list : Present(k)
    /\ \A c \in Cells : asked[c].alone => \A k \in asked[c].list : Present(k)

\* The snapshot of a cell is taken with a list that was looked up, or is empty.
LEMMA Pluckable ==
    ASSUME TypeOK, NEW w \in Workers, Located(w), Begin(w) \/ Step(w),
           pc'[w] = "pluck"
    PROVE  \/ job'[w].list = {}
           \/ CheckIds(w) /\ job' = job /\ \A k \in job[w].list : Present(k)
<1>1. ~Leave(w)
  BY Ended
<1>2. CASE Begin(w)
  <2>1. ASSUME NEW request, NEW step, Receive(w, request, step), step # "pluck"
        PROVE  FALSE
    BY <2>1, Arrives
  <2>2. ~BeginCreate(w) /\ ~BeginUpdate(w) /\ ~BeginDelete(w) /\ ~BeginImport(w)
    BY <2>1 DEF BeginCreate, BeginUpdate, BeginDelete, BeginImport
  <2>3. PICK c \in Cells, list \in SUBSET Ids :
          Receive(w, [NoJob EXCEPT !.op = "cell", !.cell = c, !.list = list],
                  IF list = {} THEN "pluck" ELSE "exists")
    BY <1>2, <2>2 DEF Begin, BeginCell
  <2>4. list = {}
    BY <2>1, <2>3
  <2>5. job'[w] = [NoJob EXCEPT !.op = "cell", !.cell = c, !.list = list]
    BY <2>3, Arrives
  <2> QED
    BY <2>4, <2>5 DEF NoJob
<1>3. ASSUME NEW column, NEW step \in SaveSteps, CheckCode(w, column, step)
      PROVE  FALSE
  BY <1>1, <1>3, Reads DEF CheckCode, Refuse, SaveSteps
<1>4. ASSUME NEW step, NEW table, NEW next \in DeleteSteps, CheckData(w, step, table, next)
      PROVE  FALSE
  BY <1>1, <1>4, Reads DEF CheckData, Refuse, DeleteSteps
<1>5. ~FindStore(w)
  BY <1>1, Reads DEF FindStore, Refuse, At, Located, AfterFind
<1>6. ASSUME CheckIds(w)
      PROVE  job' = job /\ \A k \in job[w].list : Present(k)
  BY <1>1, <1>6, Reads DEF CheckIds, Refuse
<1>7. ~StoreStep(w)
  <2>1. ASSUME StoreStep(w) PROVE Leave(w) \/ pc'[w] \in {"storeSummaries", "storeMappings"}
    BY <2>1 DEF StoreStep, StoreData, Goto, TypeOK
  <2> QED
    BY <1>1, <2>1
<1>8. /\ ~InsertStore(w) /\ ~SaveStore(w) /\ ~DeleteStore(w) /\ ~SyncCell(w)
      /\ ~Fails(w) /\ ~PluckCell(w)
  BY <1>1 DEF InsertStore, SaveStore, Saved, DeleteStore, SyncCell, Fails, Refuse,
              PluckCell, Goto, TypeOK
<1>9. /\ {"tokopedia", "insert", "save"} \subseteq SaveSteps
      /\ {"hasProducts", "hasMappings", "delete"} \subseteq DeleteSteps
  BY DEF SaveSteps, DeleteSteps
<1> QED
  BY <1>2, <1>3, <1>4, <1>5, <1>6, <1>7, <1>8, <1>9 DEF Step, StoreStep

\* A deletion ends the solo of every update of a cell, and is taken off the
\* lists; no other request takes a store away.
LEMMA NamesStoresStep ==
    ASSUME TypeOK, NamesStores, NEW w \in Workers, \A v \in Workers : Located(v),
           Begin(w) \/ Step(w)
    PROVE  NamesStores'
<1>1. ASSUME NEW k \in Ids, Present(k), ~DeleteStore(w) \/ k # job[w].id
      PROVE  Present(k)'
  BY <1>1, StoresRemoved
<1>2. ASSUME NEW v \in clean', pc'[v] \in {"pluck", "sync"}, NEW k \in job'[v].list
      PROVE  Present(k)'
  <2>1. v \in Workers /\ v \in clean \cup {w}
    BY Bystander DEF TypeOK
  <2>2. CASE v # w
    <3>1. v \in clean /\ pc'[v] = pc[v] /\ job'[v] = job[v] /\ k \in Ids
      BY <2>1, <2>2, Bystander DEF TypeOK, Jobs
    <3>2. job[v].op = "cell"
      BY <1>2, <2>1, <3>1 DEF Located, CellSteps
    <3>3. ~DeleteStore(w)
      BY <3>2 DEF DeleteStore
    <3> QED
      BY <1>1, <1>2, <3>1, <3>3 DEF NamesStores
  <2>3. CASE v = w /\ pc'[w] = "sync"
    <3>1. PluckCell(w)
      BY <2>3, Plucks
    <3>2. /\ pc[w] = "pluck" /\ clean' = clean /\ stores' = stores
          /\ job'[w].list = job[w].list
      BY <3>1 DEF PluckCell, At, TypeOK, Jobs, tables, history
    <3> QED
      BY <1>2, <2>3, <3>2 DEF NamesStores, Present
  <2>4. CASE v = w /\ pc'[w] = "pluck"
    <3>1. CheckIds(w) /\ job' = job /\ \A l \in job[w].list : Present(l)
      BY <1>2, <2>4, Pluckable
    <3>2. ~DeleteStore(w) /\ k \in Ids
      BY <1>2, <2>4, <3>1 DEF CheckIds, DeleteStore, At, TypeOK, Jobs
    <3> QED
      BY <1>1, <1>2, <2>4, <3>1, <3>2
  <2> QED
    BY <1>2, <2>2, <2>3, <2>4
<1>3. ASSUME NEW c \in Cells, asked'[c].alone, NEW k \in asked'[c].list
      PROVE  Present(k)'
  <2>1. CASE SyncCell(w) /\ w \in clean /\ asked'[c].list = job[w].list
    <3>1. pc[w] = "sync" /\ stores' = stores
      BY <2>1 DEF SyncCell, At
    <3> QED
      BY <1>3, <2>1, <3>1 DEF NamesStores, Present
  <2>2. CASE asked[c].alone /\ asked'[c].list \subseteq asked[c].list
             /\ (DeleteStore(w) => job[w].id \notin asked'[c].list)
    <3>1. k \in Ids /\ Present(k)
      BY <1>3, <2>2 DEF NamesStores, TypeOK, Asked
    <3> QED
      BY <1>1, <1>3, <2>2, <3>1
  <2> QED
    BY <1>3, <2>1, <2>2, AskedStep
<1> QED
  BY <1>2, <1>3 DEF NamesStores

-----------------------------------------------------------------------------
(* The inductive invariant and what follows from it.                       *)

\* It holds before the first request.
LEMMA InitIInv == Init => IInv
<1> SUFFICES ASSUME Init PROVE IInv
  OBVIOUS
<1>1. TypeOK
  <2>1. stores \in [Ids -> Forms \cup {Defaulted(f) : f \in Forms} \cup {NoStore}]
    BY RegistryAssumption DEF Init
  <2>2. \A c \in Cells : asked[c] \in Asked
    BY DEF Init, Asked
  <2> QED
    BY <2>1, <2>2, NoJobType DEF Init, TypeOK, Steps
<1>2. ASSUME NEW w \in Workers PROVE Located(w) /\ Checked(w)
  <2>1. pc[w] = "idle" /\ job[w] = NoJob /\ job[w].op = "none"
    BY DEF Init, NoJob
  <2> QED
    BY <2>1 DEF Located, Checked, StoreSteps, SaveSteps, SavingOps, CellSteps, DeleteSteps
<1>3. /\ \A w \in Workers : Validated(w) /\ Snapshot(w)
      /\ Lonely
  BY DEF Init, Validated, Snapshot, Lonely
<1>4. SettledCells
  BY DEF Init, SettledCells, InCell
<1>5. SoloSavesUnique
  BY RegistryAssumption DEF Init, SoloSavesUnique, Present
<1> QED
  BY <1>1, <1>2, <1>3, <1>4, <1>5 DEF IInv

\* Every step keeps it.
LEMMA IInvStep == IInv /\ [Next]_vars => IInv'
<1> SUFFICES ASSUME IInv, [Next]_vars PROVE IInv'
  OBVIOUS
<1>1. TypeOK /\ Lonely /\ SoloSavesUnique /\ SettledCells
  BY DEF IInv
<1>2. \A v \in Workers : Located(v) /\ Checked(v) /\ Validated(v) /\ Snapshot(v)
  BY DEF IInv
<1>3. TypeOK'
  BY <1>1, <1>2, TypeStep
<1>4. ASSUME NEW w \in Workers, Begin(w) \/ Step(w) PROVE IInv'
  <2>1. ASSUME NEW v \in Workers
        PROVE  (Located(v) /\ Checked(v) /\ Validated(v) /\ Snapshot(v))'
    BY <1>1, <1>2, <1>4, LocatedStep, CheckedStep, ValidatedStep, SnapshotStep
  <2>2. Lonely'
    BY <1>1, <1>2, <1>4, LonelyStep
  <2>3. SoloSavesUnique'
    BY <1>1, <1>2, <1>4, SoloSavesUniqueStep
  <2>4. SettledCells'
    BY <1>1, <1>2, <1>4, SettledCellsStep
  <2> QED
    BY <1>3, <2>1, <2>2, <2>3, <2>4 DEF IInv
<1>5. CASE UNCHANGED vars
  <2>1. /\ stores' = stores /\ used' = used /\ rows' = rows /\ data' = data
        /\ pc' = pc /\ job' = job /\ clean' = clean /\ raced' = raced
        /\ asked' = asked
    BY <1>5 DEF vars, tables, history
  <2>2. ASSUME NEW v \in Workers
        PROVE  (Located(v) /\ Checked(v) /\ Validated(v) /\ Snapshot(v))'
    BY <1>2, <2>1 DEF Located, Checked, Validated, Snapshot, CodeTaken, Present, InCell
  <2>3. Lonely' /\ SoloSavesUnique' /\ SettledCells'
    BY <1>1, <2>1 DEF Lonely, Conflict, SoloSavesUnique, SettledCells, Present, InCell
  <2> QED
    BY <1>3, <2>2, <2>3 DEF IInv
<1> QED
  BY <1>4, <1>5 DEF Next, Finished

\* It holds in every reachable state.
LEMMA Inductive == Spec => []IInv
BY InitIInv, IInvStep, PTL DEF Spec

\* The tables, the locals of the requests and the histories always have their
\* types, and no store has a key that has not been handed out.
THEOREM TypeCorrect == Spec => []TypeOK
<1>1. IInv => TypeOK
  BY DEF IInv
<1> QED
  BY <1>1, Inductive, PTL

\* KompetitorService.Delete removes only stores that had no scraping data when
\* it was called, whatever imports, updates and other deletions run beside it.
THEOREM DataProtected == Spec => DataProtectsStore
<1> DEFINE Removal ==
      \A k \in Ids : Present(k) /\ ~Present(k)' =>
         \E w \in Workers : At(w, "delete") /\ job[w].id = k /\ job[w].seen = {}
<1>1. ASSUME IInv, Next PROVE Removal
  <2> SUFFICES ASSUME NEW k \in Ids, Present(k), ~Present(k)'
               PROVE  \E w \in Workers : At(w, "delete") /\ job[w].id = k
                                            /\ job[w].seen = {}
    OBVIOUS
  <2>1. TypeOK /\ \A w \in Workers : Located(w) /\ Checked(w)
    BY <1>1 DEF IInv
  <2>2. stores'[k] # stores[k]
    BY DEF Present
  <2>3. PICK w \in Workers : Begin(w) \/ Step(w)
    BY <1>1, <2>2 DEF Next, Finished, vars, tables
  <2>4. DeleteStore(w) /\ job[w].id = k
    BY <2>1, <2>3, StoresRemoved
  <2>5. job[w].seen = {}
    BY <2>1, <2>4 DEF DeleteStore, At, Checked
  <2> QED
    BY <2>4, <2>5 DEF DeleteStore
<1>2. IInv /\ [Next]_vars => [Removal]_vars
  BY <1>1
<1> QED
  BY <1>2, Inductive, PTL DEF Spec, DataProtectsStore

\* A create or update that overlaps no other one gives no store a code that
\* another store has (validateKompetitor is enough for it).
THEOREM SoloSavesAreUnique == Spec => []SoloSavesUnique
<1>1. IInv => SoloSavesUnique
  BY DEF IInv
<1> QED
  BY <1>1, Inductive, PTL

\* A MappingCellUpdate that overlaps no other one of its cell leaves exactly
\* the list it was asked for, less the stores deleted since.
THEOREM SettledCellsHold == Spec => []SettledCells
<1>1. IInv => SettledCells
  BY DEF IInv
<1> QED
  BY <1>1, Inductive, PTL

\* SyncCell makes MappingCounts count a store of a cell twice only when another
\* update of the cell or a deletion overlapped it, with and without a unique key,
\* in the cells of a kategori and the universal ones.
THEOREM LoneUpdatesDoubleNoStore == Spec => OnlyOverlapsDouble
<1> DEFINE Doubles(c, k) == rows'[c][k] > 1 /\ rows'[c][k] > rows[c][k]
           Overlapped(c) == \E w \in Workers \ clean :
                              At(w, "sync") /\ pc'[w] = "idle" /\ job[w].cell = c
           Doubling == \A c \in Cells, k \in Ids : Doubles(c, k) => Overlapped(c)
<1>1. ASSUME IInv, Next PROVE Doubling
  <2> SUFFICES ASSUME NEW c \in Cells, NEW k \in Ids, Doubles(c, k)
               PROVE  Overlapped(c)
    OBVIOUS
  <2>1. TypeOK /\ \A w \in Workers : Located(w) /\ Snapshot(w)
    BY <1>1 DEF IInv
  <2>2. rows[c][k] \in Nat /\ rows'[c] # rows[c]
    BY <2>1 DEF TypeOK
  <2>3. PICK w \in Workers : Begin(w) \/ Step(w)
    BY <1>1, <2>2 DEF Next, Finished, vars, tables
  <2>4. SyncCell(w) /\ job[w].cell = c
    BY <2>1, <2>2, <2>3, DoublesBySync
  <2>5. w \notin clean
    BY <2>1, <2>2, <2>4, LoneSyncOnce
  <2>6. pc'[w] = "idle"
    BY <2>1, <2>4 DEF SyncCell, Leave, Goto, TypeOK
  <2> QED
    BY <2>4, <2>5, <2>6 DEF SyncCell
<1>2. IInv /\ [Next]_vars => [Doubling]_vars
  BY <1>1
<1> QED
  BY <1>2, Inductive, PTL DEF Spec, OnlyOverlapsDouble

\* Although the table has no foreign key: the list of a cell that an update of
\* its own left names only stores of the registry, through all the deletions,
\* creates and saves that follow.
THEOREM SettledCellsNameTheRegistry == Spec => []SettledCellsNameStores
<1>1. Init => NamesStores
  BY DEF Init, NamesStores
<1>2. IInv /\ NamesStores /\ [Next]_vars => NamesStores'
  <2> SUFFICES ASSUME IInv, NamesStores, [Next]_vars PROVE NamesStores'
    OBVIOUS
  <2>1. CASE UNCHANGED vars
    BY <2>1 DEF vars, tables, history, NamesStores, Present
  <2>2. TypeOK /\ \A v \in Workers : Located(v)
    BY DEF IInv
  <2> QED
    BY <2>1, <2>2, NamesStoresStep DEF Next, Finished
<1>3. IInv /\ NamesStores => SettledCellsNameStores
  BY DEF IInv, NamesStores, SettledCells, SettledCellsNameStores
<1> QED
  BY <1>1, <1>2, <1>3, Inductive, PTL DEF Spec
=============================================================================
