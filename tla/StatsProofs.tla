---------------------------- MODULE StatsProofs -----------------------------
(***************************************************************************)
(* Proofs about Stats, for any numbers of workers, processes, readers,     *)
(* stores, batches, items and days.                                        *)
(*                                                                         *)
(* Both periods are resolved from one index, so what they say of each      *)
(* other is a fact about lists of batches (the first section).  What the   *)
(* later statements find in the batches they resolved to rests on what     *)
(* IngestProofs shows of the imports: rows, summaries and acknowledgements *)
(* only grow.  So do the stores that are gone, and a store with rows is    *)
(* never one of them: whoever deletes it begins before it has rows, or is  *)
(* refused when its rows are counted.                                      *)
(***************************************************************************)
EXTENDS Stats, SettledProofs, FiniteSetTheorems, WellFoundedInduction

-----------------------------------------------------------------------------
(* Lists of batches.                                                       *)

\* Among some places of a list one is the first.
LEMMA LeastPlace ==
    ASSUME NEW T \in SUBSET Nat, T # {}
    PROVE  \E n \in T : \A o \in T : n <= o
<1>1. OpToRel(<, Nat) = {ss \in Nat \X Nat : ss[1] < ss[2]}
  BY DEF OpToRel
<1> DEFINE R == {ss \in Nat \X Nat : ss[1] < ss[2]}
<1>2. IsWellFoundedOn(R, Nat)
  BY <1>1, NatLessThanWellFounded
<1>3. PICK n \in T : \A o \in T : <<o, n>> \notin R
  <2> HIDE DEF R
  <2> QED
    BY <1>2, WFMin
<1>4. \A o \in T : ~(o < n)
  BY <1>3
<1> QED
  BY <1>4

\* firstWithin returns the first batch of the list that is one of the set, or
\* none if no batch is.
LEMMA FirstOfList ==
    ASSUME NEW m \in Nat, NEW B, NEW list \in [1..m -> B], NEW S
    PROVE  \/ /\ \A n \in 1..m : list[n] \notin S
              /\ FirstOf(list, S) = None
           \/ \E n \in 1..m : /\ FirstOf(list, S) = list[n]
                              /\ list[n] \in S
                              /\ \A o \in 1..(n - 1) : list[o] \notin S
<1> DEFINE T == {n \in 1..m : list[n] \in S}
<1>1. CASE T = {}
  BY <1>1 DEF FirstOf
<1>2. CASE T # {}
  <2>0. T \in SUBSET Nat
    OBVIOUS
  <2>1. PICK n \in T : \A o \in T : n <= o
    <3> HIDE DEF T
    <3> QED
      BY <1>2, <2>0, LeastPlace
  <2>2. n \in 1..m /\ n \in Nat
    OBVIOUS
  <2>3. ASSUME NEW o \in 1..(n - 1)
        PROVE  list[o] \notin S
    <3>1. o \in 1..m /\ ~(n <= o)
      BY <2>2
    <3>2. o \notin T
      BY <2>1, <3>1
    <3> QED
      BY <3>1, <3>2
  <2> DEFINE P(x) == list[x] \in S /\ \A o \in 1..(x - 1) : list[o] \notin S
             c == CHOOSE x \in DOMAIN list : P(x)
  <2>4. n \in DOMAIN list /\ P(n)
    BY <2>3
  <2>5. c \in DOMAIN list /\ P(c)
    BY <2>4
  <2>6. FirstOf(list, S) = list[c]
    BY <2>4 DEF FirstOf
  <2> QED
    BY <2>5, <2>6
<1> QED
  BY <1>1, <1>2

\* A list that is newest first has each batch of the set once.
LEMMA NewestFirstList ==
    ASSUME NEW S \in SUBSET BatchIds, NEW list, NewestFirst(list, S)
    PROVE  /\ Cardinality(S) \in Nat
           /\ list \in [1..Cardinality(S) -> S]
           /\ Len(list) = Cardinality(S)
           /\ \A m, n \in 1..Cardinality(S) : m # n => list[m] # list[n]
<1>1. IsFiniteSet(S) /\ Cardinality(S) \in Nat
  BY StatsAssumption, FS_Subset, FS_CardinalityType
<1> DEFINE I == 1..Cardinality(S)
<1>2. list \in [I -> S] /\ list \in Surjection(I, S)
  BY DEF NewestFirst, Surjection
<1>3. IsFiniteSet(I) /\ Cardinality(I) = Cardinality(S)
  BY <1>1, FS_Interval
<1>4. list \in Injection(I, S)
  BY <1>2, <1>3, FS_Surjection
<1>5. Len(list) = Cardinality(S)
  BY <1>1, <1>2
<1> QED
  BY <1>1, <1>2, <1>4, <1>5 DEF Injection, IsInjective

\* ForPeriod picks a batch of the period that none of the period is newer than.
LEMMA ForPeriodList ==
    ASSUME executed \in [BatchIds -> Days],
           NEW S \in SUBSET BatchIds, NEW list, NewestFirst(list, S),
           NEW start \in Days \cup {None}, NEW end \in Days \cup {None}
    PROVE  LET b == ForPeriod(list, start, end) IN
           /\ b \in S \cup {None}
           /\ b \in Within(start, end) \cup {None}
           /\ \A o \in S : o \in Within(start, end) =>
                              b # None /\ executed[o] <= executed[b]
<1> DEFINE b == ForPeriod(list, start, end)
<1> HIDE DEF b
<1>1. /\ Cardinality(S) \in Nat /\ list \in [1..Cardinality(S) -> S]
      /\ None \notin BatchIds /\ Days \subseteq Nat
  BY NewestFirstList, IngestAssumption, DatedAssumption
<1> DEFINE m == Cardinality(S)
           W == Within(start, end)
<1>2. \/ (\A n \in 1..m : list[n] \notin W) /\ b = None
      \/ \E n \in 1..m : /\ b = list[n] /\ list[n] \in W
                         /\ \A o \in 1..(n - 1) : list[o] \notin W
  <2> HIDE DEF W, m
  <2>1. b = FirstOf(list, W)
    BY DEF b, ForPeriod, W
  <2>2. m \in Nat /\ list \in [1..m -> S]
    BY <1>1 DEF m
  <2>3. \/ (\A n \in 1..m : list[n] \notin W) /\ FirstOf(list, W) = None
        \/ \E n \in 1..m : /\ FirstOf(list, W) = list[n] /\ list[n] \in W
                           /\ \A o \in 1..(n - 1) : list[o] \notin W
    BY <2>2, FirstOfList, Zenon
  <2> QED
    BY <2>1, <2>3
<1>3. b \in S \cup {None} /\ b \in W \cup {None}
  BY <1>1, <1>2
<1>4. ASSUME NEW o \in S, o \in W
      PROVE  b # None /\ executed[o] <= executed[b]
  <2>1. PICK i \in 1..m : list[i] = o
    BY <1>1 DEF NewestFirst
  <2>2. PICK n \in 1..m : /\ b = list[n] /\ list[n] \in W
                          /\ \A x \in 1..(n - 1) : list[x] \notin W
    BY <1>2, <1>4, <2>1
  <2>3. n = i \/ n < i
    <3>1. i \notin 1..(n - 1)
      BY <1>4, <2>1, <2>2
    <3> QED
      BY <1>1, <3>1
  <2>4. n < i => executed[list[i]] <= executed[list[n]]
    BY <1>1 DEF NewestFirst
  <2>5. b \in BatchIds /\ o \in BatchIds
    BY <1>1, <2>2
  <2>6. executed[b] \in Nat /\ executed[o] \in Nat
    BY <1>1, <2>5
  <2>7. executed[o] <= executed[b]
    BY <2>1, <2>2, <2>3, <2>4, <2>6
  <2> QED
    BY <1>1, <2>5, <2>7
<1> QED
  BY <1>3, <1>4 DEF b

\* BeforePeriod picks another batch than ForPeriod, no newer and from before the
\* first day, unless the period has an end only.
LEMMA BeforePeriodList ==
    ASSUME executed \in [BatchIds -> Days],
           NEW S \in SUBSET BatchIds, NEW list, NewestFirst(list, S),
           NEW start \in Days \cup {None}, NEW end \in Days \cup {None},
           NEW b, b = ForPeriod(list, start, end),
           NEW p, p = BeforePeriod(list, start, end)
    PROVE  /\ p \in S \cup {None}
           /\ p # None /\ (start # None \/ end = None) =>
                /\ b \notin {None, p}
                /\ executed[p] <= executed[b]
                /\ start # None => executed[p] < start
<1>1. /\ Cardinality(S) \in Nat /\ list \in [1..Cardinality(S) -> S]
      /\ Len(list) = Cardinality(S)
      /\ \A m, n \in 1..Cardinality(S) : m # n => list[m] # list[n]
      /\ None \notin BatchIds /\ Days \subseteq Nat
  BY NewestFirstList, IngestAssumption, DatedAssumption
<1>2. /\ b \in Within(start, end) \cup {None}
      /\ \A o \in S : o \in Within(start, end) =>
                         b # None /\ executed[o] <= executed[b]
  BY ForPeriodList
<1> DEFINE m == Cardinality(S)
<1>3. CASE start = None
  <2>1. CASE m > 1
    <3>1. p = list[2] /\ 1 \in 1..m /\ 2 \in 1..m
      BY <1>1, <1>3, <2>1 DEF BeforePeriod
    <3>2. p \in S /\ list[1] \in S /\ p # list[1]
      BY <1>1, <3>1
    <3>3. ASSUME end = None
          PROVE  b = list[1]
      <4>1. list[1] \in Within(start, end)
        BY <1>3, <3>2, <3>3 DEF Within
      <4>2. PICK n \in 1..m : /\ b = list[n]
                              /\ \A o \in 1..(n - 1) : list[o] \notin Within(start, end)
        BY <1>1, <3>1, <4>1, FirstOfList DEF ForPeriod
      <4>3. 1 \notin 1..(n - 1)
        BY <4>1, <4>2
      <4> QED
        BY <1>1, <4>2, <4>3
    <3>4. executed[list[2]] <= executed[list[1]]
      BY <1>1, <3>1 DEF NewestFirst
    <3> QED
      BY <1>1, <1>3, <3>1, <3>2, <3>3, <3>4
  <2>2. CASE ~(m > 1)
    BY <1>1, <1>3, <2>2 DEF BeforePeriod
  <2> QED
    BY <2>1, <2>2
<1>4. CASE start # None
  <2> DEFINE B == {o \in BatchIds : executed[o] < start}
  <2>1. CASE b = None
    BY <1>4, <2>1 DEF BeforePeriod
  <2>2. CASE b # None
    <3>1. p = FirstOf(list, B)
      BY <1>4, <2>2 DEF BeforePeriod
    <3>2. p \in (S \cap B) \cup {None}
      <4> HIDE DEF B, m
      <4>1. m \in Nat /\ list \in [1..m -> S]
        BY <1>1 DEF m
      <4>2. \/ FirstOf(list, B) = None
            \/ \E n \in 1..m : FirstOf(list, B) = list[n] /\ list[n] \in B
        BY <4>1, FirstOfList, Zenon
      <4> QED
        BY <3>1, <4>1, <4>2
    <3>3. b \in BatchIds /\ start <= executed[b] /\ executed[b] \in Nat /\ start \in Nat
      BY <1>1, <1>2, <1>4, <2>2 DEF Within
    <3>4. p # None => executed[p] \in Nat /\ executed[p] < start
      BY <1>1, <3>2
    <3>5. p # None => p # b /\ executed[p] <= executed[b]
      BY <3>3, <3>4
    <3> QED
      BY <2>2, <3>2, <3>4, <3>5
  <2> QED
    BY <2>1, <2>2
<1> QED
  BY <1>3, <1>4

-----------------------------------------------------------------------------
(* The pipeline below the requests.                                        *)

\* What is acknowledged stays acknowledged.
LEMMA AckedGrows ==
    ASSUME [Next]_vars
    PROVE  acked \subseteq acked'
BY Writers DEF AnswerOk

-----------------------------------------------------------------------------
(* The requests.                                                           *)

Tabling == {"count", "page", "names", "matches", "stock"}
Counted == {"page", "names", "matches", "stock", "show"}

\* What the request of r may rely on at its statement.
ReaderInv(r) ==
    LET s == stats[r] IN
    /\ s.start # None /\ s.end # None => s.start <= s.end
    /\ \A k \in Kompetitors :
         /\ s.known[k] \subseteq Readable(k)
         /\ \A b \in s.answered[k] : <<b, k>> \in acked
         /\ s.current[k] # None => s.current[k] \in Readable(k)
    /\ rpc[r] \in Tabling => s.kind = "table"
    /\ rpc[r] \in {"current", "previous"} => s.kind = "metrics"
    /\ rpc[r] \in Counted /\ s.kind = "table" =>
         ((s.total = 0) <=> \A k \in s.stores : s.current[k] = None)

\* A store that had rows and was not being deleted when the request came has its
\* rows still, so no deletion of it gets past counting them.
StayInv(r) ==
    \A k \in stats[r].staying :
        /\ stats[r].known[k] # {}
        /\ k \in registered /\ removal[k] \notin {"mappings", "delete"}

\* The stores of a page: of those of the period at least the registered ones.
PageShows(s, page) ==
    \A k \in Kompetitors :
        /\ page[k].titles # {} => k \in s.stores /\ s.current[k] # None
        /\ k \in s.stores \cap registered /\ s.current[k] # None =>
             page[k].titles # {}

\* What its answer will show.
AnswerInv(r) ==
    LET s == stats[r] IN
    /\ Resolved(r) => \A k \in Kompetitors :
         /\ s.current[k] \in Within(s.start, s.end) \cup {None}
         /\ \A b \in s.known[k] : b \in Within(s.start, s.end) =>
              s.current[k] # None /\ executed[b] <= executed[s.current[k]]
         /\ s.previous[k] # None /\ (s.start # None \/ s.end = None) =>
              /\ s.current[k] \notin {None, s.previous[k]}
              /\ executed[s.previous[k]] <= executed[s.current[k]]
              /\ s.start # None => executed[s.previous[k]] < s.start
    /\ rpc[r] \in {"previous", "show"} /\ s.kind = "metrics" =>
         \A k \in s.stores : s.current[k] \in s.answered[k] =>
           s.rows[k] # <<>> /\ (UniqueKeys => Len(s.rows[k]) = 1)
    /\ Paged(r) => PageShows(s, s.page)

StatsInv ==
    /\ IInv /\ OneSummary
    /\ executed \in [BatchIds -> Days]
    /\ rpc \in [Readers -> StatsSteps] /\ stats \in [Readers -> Locals]
    /\ asked \in Nat
    /\ registered \subseteq Kompetitors /\ removal \in [Kompetitors -> RemovalSteps]
    /\ \A r \in Readers : ReaderInv(r) /\ AnswerInv(r) /\ StayInv(r)

\* A request that a step leaves alone keeps what it relies on.
LEMMA RequestKept ==
    ASSUME Grows, acked \subseteq acked', registered' \subseteq registered,
           NEW r \in Readers, ReaderInv(r), AnswerInv(r),
           executed' = executed, rpc'[r] = rpc[r], stats'[r] = stats[r]
    PROVE  ReaderInv(r)' /\ AnswerInv(r)'
<1>1. \A k \in Kompetitors : Readable(k) \subseteq Readable(k)'
  BY DEF Grows, Readable, Completed
<1>2. ReaderInv(r)'
  BY <1>1 DEF ReaderInv
<1>3. AnswerInv(r)'
  BY DEF AnswerInv, Resolved, Paged, PageShows, Within
<1> QED
  BY <1>2, <1>3

\* So does one that ends.
LEMMA RequestEnds ==
    ASSUME NEW r \in Readers, rpc'[r] = "idle", stats'[r] = NoStats
    PROVE  ReaderInv(r)' /\ AnswerInv(r)' /\ StayInv(r)'
BY DEF ReaderInv, AnswerInv, StayInv, Resolved, Paged, Tabling, Counted, NoStats,
       NoPairs

\* The locals of no request.
LEMMA NoStatsType == NoStats \in Locals
<1>1. NoPairs \in Pairs
  BY DEF NoPairs, Pairs
<1>2. NoBlock \in Blocks
  BY DEF NoBlock, Blocks
<1>3. NoRows \in Loads
  BY DEF NoRows, Loads
<1> QED
  BY <1>1, <1>2, <1>3 DEF NoStats, Locals

\* A local of a request that is replaced by another one of its type.
LEMMA LocalUpdates ==
    ASSUME NEW s \in Locals
    PROVE  /\ \A c, p \in Pairs :
                [s EXCEPT !.current = c, !.previous = p] \in Locals
           /\ \A x \in Blocks : /\ [s EXCEPT !.rows = x] \in Locals
                                /\ [s EXCEPT !.previousRows = x] \in Locals
           /\ \A x \in Nat : [s EXCEPT !.total = x] \in Locals
           /\ \A x \in [Kompetitors -> Loads] : [s EXCEPT !.page = x] \in Locals
           /\ \A x \in [Kompetitors -> SUBSET Titles] :
                [s EXCEPT !.prices = x] \in Locals
           /\ \A x \in SUBSET Items : [s EXCEPT !.stocked = x] \in Locals
BY DEF Locals

\* What the summary rows and the product rows of some batches are.
LEMMA RowsType ==
    ASSUME TypeOK, NEW pairs \in Pairs, NEW stores \in SUBSET Kompetitors
    PROVE  /\ Summaries(pairs, stores) \in Blocks
           /\ RowsOf(pairs, stores) \in [Kompetitors -> Loads]
           /\ \A k \in Kompetitors :
                RowsOf(pairs, stores)[k].titles \in SUBSET Titles
<1>1. \A k \in Kompetitors :
        pairs[k] # None => /\ summaries[pairs[k]][k] \in Seq(Nat)
                           /\ products[pairs[k]][k] \in Loads
  BY DEF TypeOK, Pairs
<1>2. Summaries(pairs, stores) \in Blocks
  BY <1>1 DEF Summaries, Blocks
<1>3. RowsOf(pairs, stores) \in [Kompetitors -> Loads]
  BY <1>1 DEF RowsOf, NoRows, Loads
<1> QED
  BY <1>2, <1>3 DEF Loads, Titles

\* The rows of a filter's stores are those of the stores it has a batch for.
LEMMA RowsFound ==
    ASSUME NEW pairs \in Pairs, NEW stores \in SUBSET Kompetitors,
           \A k \in Kompetitors : pairs[k] # None => HasRows(pairs[k], k)
    PROVE  \A k \in Kompetitors : RowsOf(pairs, stores)[k].titles # {}
                                    <=> k \in stores /\ pairs[k] # None
BY DEF RowsOf, NoRows, HasRows

\* The COUNT is a number, and 0 just if there is no row.
LEMMA CountType ==
    ASSUME NEW found \in [Kompetitors -> Loads],
           NEW rows, rows = UNION {{k} \X found[k].titles : k \in Kompetitors}
    PROVE  /\ Cardinality(rows) \in Nat
           /\ Cardinality(rows) = 0 <=> \A k \in Kompetitors : found[k].titles = {}
<1> DEFINE All == Kompetitors \X (Items \cup {OtherTitle})
<1>1. IsFiniteSet(All)
  <2>1. IsFiniteSet({OtherTitle})
    BY FS_Singleton
  <2>2. IsFiniteSet(Items \cup {OtherTitle})
    BY <2>1, StatsAssumption, FS_Union
  <2> QED
    BY <2>2, StatsAssumption, FS_Product
<1>2. \A k \in Kompetitors : found[k].titles \subseteq Items \cup {OtherTitle}
  BY DEF Loads
<1>3. rows \subseteq All
  BY <1>2
<1>4. IsFiniteSet(rows)
  BY <1>1, <1>3, FS_Subset
<1>5. rows = {} <=> \A k \in Kompetitors : found[k].titles = {}
  <2>1. ASSUME NEW k \in Kompetitors, NEW t \in found[k].titles
        PROVE  <<k, t>> \in rows
    OBVIOUS
  <2> QED
    BY <2>1
<1> QED
  BY <1>4, <1>5, FS_CardinalityType, FS_EmptySet

\* A request that has resolved its batches keeps what it knows of them when it
\* goes on, if what the statement read is what the next ones rely on.
LEMMA RequestGoesOn ==
    ASSUME UNCHANGED <<vars, registry, executed>>, NEW r \in Readers,
           ReaderInv(r), AnswerInv(r), StayInv(r), Resolved(r),
           NEW s, s = stats[r], NEW t, t = stats'[r],
           t.start = s.start, t.end = s.end, t.stores = s.stores, t.kind = s.kind,
           t.known = s.known, t.answered = s.answered, t.staying = s.staying,
           t.current = s.current, t.previous = s.previous,
           rpc'[r] \in Tabling => s.kind = "table",
           rpc'[r] \in {"current", "previous"} => s.kind = "metrics",
           rpc'[r] \in Counted /\ s.kind = "table" =>
             ((t.total = 0) <=> \A k \in s.stores : s.current[k] = None),
           rpc'[r] \in {"previous", "show"} /\ s.kind = "metrics" =>
             \A k \in s.stores : s.current[k] \in s.answered[k] =>
               t.rows[k] # <<>> /\ (UniqueKeys => Len(t.rows[k]) = 1),
           rpc'[r] \in {"names", "matches", "stock", "show"} /\ s.kind = "table" =>
             PageShows(s, t.page)
    PROVE  ReaderInv(r)' /\ AnswerInv(r)' /\ StayInv(r)'
<1>1. \A k \in Kompetitors : Readable(k)' = Readable(k)
  BY DEF Readable, Completed, HasRows, vars, tables
<1>2. /\ acked' = acked /\ executed' = executed
      /\ registered' = registered /\ removal' = removal
  BY DEF vars, history, registry
<1>3. ReaderInv(r)'
  BY <1>1, <1>2 DEF ReaderInv
<1>4. AnswerInv(r)'
  BY <1>1, <1>2 DEF AnswerInv, Resolved, Paged, PageShows, Within
<1>5. StayInv(r)'
  BY <1>2 DEF StayInv
<1> QED
  BY <1>3, <1>4, <1>5

\* What a step of a request makes of it.
Moves(r) ==
    /\ UNCHANGED <<executed, registry>> /\ asked' \in Nat
    /\ \E step \in StatsSteps : rpc' = [rpc EXCEPT ![r] = step]
    /\ \E s \in Locals : stats' = [stats EXCEPT ![r] = s]
    /\ ReaderInv(r)' /\ AnswerInv(r)' /\ StayInv(r)'

\* What the program counter and the locals of a request are, before and after.
LEMMA Locally ==
    ASSUME StatsInv, NEW r \in Readers
    PROVE  /\ rpc[r] \in StatsSteps /\ stats[r] \in Locals
           /\ \A step : Turn(r, step) =>
                rpc' = [rpc EXCEPT ![r] = step] /\ rpc'[r] = step
           /\ \A s : Learn(r, s) =>
                stats' = [stats EXCEPT ![r] = s] /\ stats'[r] = s
           /\ stats' = stats => stats' = [stats EXCEPT ![r] = stats[r]]
BY DEF StatsInv, Turn, Learn

\* The period, the filter and what is known when the request comes.
LEMMA AskStep ==
    ASSUME StatsInv, NEW r \in Readers, AskStats(r)
    PROVE  Moves(r)
<1> DEFINE staying == {k \in registered : removal[k] = "idle" /\ Readable(k) # {}}
<1> PICK start \in Days \cup {None}, end \in Days \cup {None},
         kind \in {"metrics", "table"},
         stores \in {{k} : k \in Kompetitors} \cup {Kompetitors} :
        /\ ValidPeriod(start, end)
        /\ Learn(r, [NoStats EXCEPT
                       !.start = start, !.end = end, !.stores = stores,
                       !.kind = kind, !.staying = staying,
                       !.known = [k \in Kompetitors |-> Readable(k)],
                       !.answered = [k \in Kompetitors |->
                                       {b \in BatchIds : <<b, k>> \in acked}]])
        /\ Turn(r, "index")
        /\ asked' = asked + 1
        /\ UNCHANGED <<vars, registry, executed>>
  BY DEF AskStats
<1> DEFINE q == [NoStats EXCEPT
                   !.start = start, !.end = end, !.stores = stores,
                   !.kind = kind, !.staying = staying,
                   !.known = [k \in Kompetitors |-> Readable(k)],
                   !.answered = [k \in Kompetitors |->
                                   {b \in BatchIds : <<b, k>> \in acked}]]
<1>1. /\ q.start = start /\ q.end = end
      /\ q.known = [k \in Kompetitors |-> Readable(k)]
      /\ q.answered = [k \in Kompetitors |-> {b \in BatchIds : <<b, k>> \in acked}]
      /\ q.current = NoPairs /\ q.staying = staying
  BY DEF NoStats
<1>2. q \in Locals
  <2>1. \A k \in Kompetitors : Readable(k) \in SUBSET BatchIds
    BY DEF Readable, Completed
  <2>2. stores \in SUBSET Kompetitors /\ staying \in SUBSET Kompetitors
    BY DEF StatsInv
  <2>3. /\ [k \in Kompetitors |-> Readable(k)] \in [Kompetitors -> SUBSET BatchIds]
        /\ [k \in Kompetitors |-> {b \in BatchIds : <<b, k>> \in acked}]
             \in [Kompetitors -> SUBSET BatchIds]
    BY <2>1
  <2> QED
    BY <2>2, <2>3, NoStatsType DEF Locals
<1> HIDE DEF q
<1>3. stats' = [stats EXCEPT ![r] = q] /\ stats'[r] = q
  BY Locally DEF q
<1>4. rpc' = [rpc EXCEPT ![r] = "index"] /\ rpc'[r] = "index"
  BY Locally
<1>5. asked' \in Nat
  BY DEF StatsInv
<1>6. acked' = acked /\ \A k \in Kompetitors : Readable(k)' = Readable(k)
  BY DEF Readable, Completed, HasRows, vars, tables, history
<1>7. ReaderInv(r)'
  BY <1>1, <1>3, <1>4, <1>6 DEF ReaderInv, ValidPeriod, Tabling, Counted, NoPairs
<1>8. AnswerInv(r)'
  BY <1>4 DEF AnswerInv, Resolved, Paged
<1>9. StayInv(r)'
  BY <1>1, <1>3 DEF StayInv, StatsInv, registry
<1> QED
  BY <1>2, <1>3, <1>4, <1>5, <1>7, <1>8, <1>9 DEF Moves, StatsSteps

\* Both periods, from the one index.
LEMMA IndexStep ==
    ASSUME StatsInv, NEW r \in Readers, ReadIndex(r)
    PROVE  Moves(r)
<1> DEFINE s == stats[r]
<1>i. PICK index \in [Kompetitors -> UNION {[1..n -> BatchIds] :
                                            n \in 0..Cardinality(BatchIds)}] :
        LET next == [s EXCEPT
               !.current  = [k \in Kompetitors |->
                               ForPeriod(index[k], s.start, s.end)],
               !.previous = [k \in Kompetitors |->
                               BeforePeriod(index[k], s.start, s.end)]] IN
        /\ \A k \in Kompetitors : NewestFirst(index[k], Readable(k))
        /\ Learn(r, next)
        /\ Turn(r, IF s.kind = "table" THEN "count"
                   ELSE IF ~Empty(next.current) THEN "current"
                   ELSE IF ~Empty(next.previous) THEN "previous" ELSE "show")
  BY DEF ReadIndex
<1> DEFINE current  == [k \in Kompetitors |-> ForPeriod(index[k], s.start, s.end)]
           previous == [k \in Kompetitors |-> BeforePeriod(index[k], s.start, s.end)]
           q == [s EXCEPT !.current = current, !.previous = previous]
           step == IF s.kind = "table" THEN "count"
                   ELSE IF ~Empty(q.current) THEN "current"
                   ELSE IF ~Empty(q.previous) THEN "previous" ELSE "show"
<1>0. /\ rpc[r] = "index" /\ UNCHANGED <<vars, registry, executed, asked>>
      /\ Learn(r, q) /\ Turn(r, step)
  BY <1>i DEF ReadIndex, Reading
<1>1. /\ s \in Locals /\ ReaderInv(r) /\ executed \in [BatchIds -> Days]
      /\ asked \in Nat /\ None \notin BatchIds
  BY Locally, IngestAssumption DEF StatsInv
<1>2. \A k \in Kompetitors : Readable(k) \in SUBSET BatchIds
  BY DEF Readable, Completed
<1>3. s.start \in Days \cup {None} /\ s.end \in Days \cup {None}
  BY <1>1 DEF Locals
<1>4. ASSUME NEW k \in Kompetitors
      PROVE  /\ current[k] \in Readable(k) \cup {None}
             /\ current[k] \in Within(s.start, s.end) \cup {None}
             /\ \A o \in Readable(k) : o \in Within(s.start, s.end) =>
                  current[k] # None /\ executed[o] <= executed[current[k]]
             /\ previous[k] \in Readable(k) \cup {None}
             /\ previous[k] # None /\ (s.start # None \/ s.end = None) =>
                  /\ current[k] \notin {None, previous[k]}
                  /\ executed[previous[k]] <= executed[current[k]]
                  /\ s.start # None => executed[previous[k]] < s.start
  <2> HIDE DEF s, current, previous
  <2>1. PICK S, list, start, end, b, p :
          /\ S = Readable(k) /\ list = index[k] /\ start = s.start /\ end = s.end
          /\ b = current[k] /\ p = previous[k]
    OBVIOUS
  <2>2. b = ForPeriod(list, start, end) /\ p = BeforePeriod(list, start, end)
    BY <2>1 DEF current, previous
  <2>3. S \in SUBSET BatchIds /\ NewestFirst(list, S)
    BY <1>i, <1>2, <2>1
  <2>4. executed \in [BatchIds -> Days]
        /\ start \in Days \cup {None} /\ end \in Days \cup {None}
    BY <1>1, <1>3, <2>1
  <2>5. /\ b \in S \cup {None}
        /\ b \in Within(start, end) \cup {None}
        /\ \A o \in S : o \in Within(start, end) =>
             b # None /\ executed[o] <= executed[b]
    BY <2>2, <2>3, <2>4, ForPeriodList
  <2>6. /\ p \in S \cup {None}
        /\ p # None /\ (start # None \/ end = None) =>
             /\ b \notin {None, p}
             /\ executed[p] <= executed[b]
             /\ start # None => executed[p] < start
    BY <2>2, <2>3, <2>4, BeforePeriodList
  <2> QED
    BY <2>1, <2>5, <2>6
<1>5. current \in Pairs /\ previous \in Pairs
  <2>1. current \in [Kompetitors -> BatchIds \cup {None}]
    BY <1>2, <1>4
  <2>2. previous \in [Kompetitors -> BatchIds \cup {None}]
    BY <1>2, <1>4
  <2> QED
    BY <2>1, <2>2 DEF Pairs
<1>6. /\ q \in Locals /\ q.current = current /\ q.previous = previous
      /\ q.start = s.start /\ q.end = s.end /\ q.kind = s.kind
      /\ q.known = s.known /\ q.answered = s.answered /\ q.stores = s.stores
      /\ q.staying = s.staying
  <2> HIDE DEF current, previous
  <2> QED
    BY <1>1, <1>5, LocalUpdates DEF Locals
<1> HIDE DEF q, step, current, previous
<1>7. stats' = [stats EXCEPT ![r] = q] /\ stats'[r] = q
  BY <1>0, Locally
<1>8. /\ rpc' = [rpc EXCEPT ![r] = step] /\ rpc'[r] = step
      /\ s.kind = "table" => step = "count"
      /\ s.kind # "table" => step \in {"current", "previous", "show"}
      /\ step \in {"previous", "show"} => Empty(current)
      /\ s.kind \in {"table", "metrics"}
  BY <1>0, <1>1, <1>6, Locally DEF step, Locals
<1>9. acked' = acked /\ \A k \in Kompetitors : Readable(k)' = Readable(k)
  BY <1>0 DEF Readable, Completed, HasRows, vars, tables, history
<1>10. ReaderInv(r)'
  BY <1>1, <1>4, <1>6, <1>7, <1>8, <1>9 DEF ReaderInv, Tabling, Counted
<1>11. AnswerInv(r)'
  <2>1. \A k \in Kompetitors : s.known[k] \subseteq Readable(k)
    BY <1>1 DEF ReaderInv
  <2>2. \A k \in s.stores : step \in {"previous", "show"} =>
                              current[k] \notin s.answered[k]
    BY <1>1, <1>8 DEF Empty, Locals
  <2>3. ~Paged(r)'
    BY <1>6, <1>7, <1>8 DEF Paged
  <2> QED
    BY <1>0, <1>4, <1>6, <1>7, <1>8, <2>1, <2>2, <2>3 DEF AnswerInv, Within
<1>12. StayInv(r)'
  BY <1>0, <1>6, <1>7 DEF StayInv, StatsInv, registry
<1> QED
  BY <1>0, <1>1, <1>6, <1>7, <1>8, <1>10, <1>11, <1>12 DEF Moves, StatsSteps

\* What a statement of a resolved request finds: the batches that were picked
\* still have their stores' rows, and the acknowledged ones their summaries.
LEMMA Found ==
    ASSUME StatsInv, NEW r \in Readers, NEW s, s = stats[r]
    PROVE  /\ s.current \in Pairs /\ s.previous \in Pairs
           /\ s.stores \in SUBSET Kompetitors
           /\ \A k \in Kompetitors :
                s.current[k] # None => HasRows(s.current[k], k)
           /\ \A k \in s.stores : s.current[k] \in s.answered[k] =>
                /\ Summaries(s.current, s.stores)[k] # <<>>
                /\ UniqueKeys => Len(Summaries(s.current, s.stores)[k]) = 1
<1>1. /\ s \in Locals /\ ReaderInv(r) /\ IInv /\ OneSummary /\ None \notin BatchIds
  BY Locally, IngestAssumption DEF StatsInv
<1>2. /\ s.current \in Pairs /\ s.previous \in Pairs
      /\ s.stores \in SUBSET Kompetitors
      /\ s.answered \in [Kompetitors -> SUBSET BatchIds]
  BY <1>1 DEF Locals
<1>3. \A k \in Kompetitors : s.current[k] # None => HasRows(s.current[k], k)
  BY <1>1 DEF ReaderInv, Readable
<1>4. ASSUME NEW k \in s.stores, s.current[k] \in s.answered[k]
      PROVE  /\ Summaries(s.current, s.stores)[k] # <<>>
             /\ UniqueKeys => Len(Summaries(s.current, s.stores)[k]) = 1
  <2>1. k \in Kompetitors /\ s.current[k] \in BatchIds
    BY <1>2, <1>4
  <2>2. Summaries(s.current, s.stores)[k] = summaries[s.current[k]][k]
    BY <1>1, <1>4, <2>1 DEF Summaries
  <2>3. <<s.current[k], k>> \in acked
    BY <1>1, <1>4, <2>1 DEF ReaderInv
  <2>4. summaries[s.current[k]][k] # <<>> /\ summaries[s.current[k]][k] \in Seq(Nat)
    BY <1>1, <2>1, <2>3 DEF IInv, AckedDurable, TypeOK
  <2>5. UniqueKeys => Len(summaries[s.current[k]][k]) <= 1
    BY <1>1, <2>1 DEF OneSummary
  <2>6. ASSUME NEW t \in Seq(Nat), t # <<>>, UniqueKeys => Len(t) <= 1
        PROVE  UniqueKeys => Len(t) = 1
    <3>1. Len(t) \in Nat /\ Len(t) # 0
      BY <2>6, EmptySeq
    <3>2. \A n \in Nat : n # 0 /\ n <= 1 => n = 1
      OBVIOUS
    <3> QED
      BY <2>6, <3>1, <3>2, Zenon
  <2> QED
    BY <2>2, <2>4, <2>5, <2>6
<1> QED
  BY <1>2, <1>3, <1>4

\* The metrics of either period.
LEMMA MetricsStep ==
    ASSUME StatsInv, NEW r \in Readers, ReadCurrent(r) \/ ReadPrevious(r)
    PROVE  Moves(r)
<1> DEFINE s == stats[r]
           rows == Summaries(s.current, s.stores)
           previousRows == Summaries(s.previous, s.stores)
<1>1. /\ s \in Locals /\ rpc[r] \in StatsSteps
      /\ ReaderInv(r) /\ AnswerInv(r) /\ StayInv(r)
      /\ UNCHANGED <<vars, registry, executed, asked>> /\ asked \in Nat /\ TypeOK
  BY Locally DEF ReadCurrent, ReadPrevious, StatsInv, IInv
<1>2. /\ s.current \in Pairs /\ s.previous \in Pairs
      /\ s.stores \in SUBSET Kompetitors
      /\ \A k \in s.stores : s.current[k] \in s.answered[k] =>
           rows[k] # <<>> /\ (UniqueKeys => Len(rows[k]) = 1)
  BY Found
<1>3. rows \in Blocks /\ previousRows \in Blocks
  BY <1>1, <1>2, RowsType
<1>4. CASE ReadCurrent(r)
  <2> DEFINE q == [s EXCEPT !.rows = rows]
             step == IF Empty(s.previous) THEN "show" ELSE "previous"
  <2>1. rpc[r] = "current" /\ Learn(r, q) /\ Turn(r, step)
    BY <1>4 DEF ReadCurrent, Reading
  <2>2. q \in Locals /\ q.rows = rows
    <3> HIDE DEF rows
    <3> QED
      BY <1>1, <1>3, LocalUpdates DEF Locals
  <2>3. /\ q.start = s.start /\ q.end = s.end /\ q.stores = s.stores
        /\ q.kind = s.kind /\ q.known = s.known /\ q.answered = s.answered
        /\ q.staying = s.staying
        /\ q.current = s.current /\ q.previous = s.previous
    OBVIOUS
  <2>4. step \in {"show", "previous"}
    OBVIOUS
  <2> HIDE DEF q, step, rows
  <2>5. stats' = [stats EXCEPT ![r] = q] /\ stats'[r] = q
    BY <2>1, Locally
  <2>6. rpc' = [rpc EXCEPT ![r] = step] /\ rpc'[r] = step
    BY <2>1, Locally
  <2>7. s.kind = "metrics" /\ Resolved(r)
    BY <1>1, <2>1 DEF ReaderInv, Resolved
  <2>8. ReaderInv(r)' /\ AnswerInv(r)' /\ StayInv(r)'
    BY <1>1, <1>2, <2>2, <2>3, <2>4, <2>5, <2>6, <2>7, RequestGoesOn
    DEF Tabling, Counted
  <2> QED
    BY <1>1, <2>2, <2>4, <2>5, <2>6, <2>8 DEF Moves, StatsSteps
<1>5. CASE ReadPrevious(r)
  <2> DEFINE q == [s EXCEPT !.previousRows = previousRows]
  <2>1. rpc[r] = "previous" /\ Learn(r, q) /\ Turn(r, "show")
    BY <1>5 DEF ReadPrevious, Reading
  <2>2. q \in Locals
    <3> HIDE DEF previousRows
    <3> QED
      BY <1>1, <1>3, LocalUpdates
  <2>3. /\ q.start = s.start /\ q.end = s.end /\ q.stores = s.stores
        /\ q.kind = s.kind /\ q.known = s.known /\ q.answered = s.answered
        /\ q.staying = s.staying
        /\ q.current = s.current /\ q.previous = s.previous /\ q.rows = s.rows
    OBVIOUS
  <2> HIDE DEF q
  <2>4. stats' = [stats EXCEPT ![r] = q] /\ stats'[r] = q
    BY <2>1, Locally
  <2>5. rpc' = [rpc EXCEPT ![r] = "show"] /\ rpc'[r] = "show"
    BY <2>1, Locally
  <2>6. s.kind = "metrics" /\ Resolved(r)
    BY <1>1, <2>1 DEF ReaderInv, Resolved
  <2>7. \A k \in s.stores : s.current[k] \in s.answered[k] =>
           q.rows[k] # <<>> /\ (UniqueKeys => Len(q.rows[k]) = 1)
    BY <1>1, <2>1, <2>3, <2>6 DEF AnswerInv
  <2>8. ReaderInv(r)' /\ AnswerInv(r)' /\ StayInv(r)'
    BY <1>1, <2>3, <2>4, <2>5, <2>6, <2>7, RequestGoesOn DEF Tabling, Counted
  <2> QED
    BY <1>1, <2>2, <2>4, <2>5, <2>8 DEF Moves, StatsSteps
<1> QED
  BY <1>4, <1>5

\* The table: the count finds rows of every store with a batch, since the batches
\* that were picked never lose their rows, the page of those that are registered;
\* the columns beside the rows follow.
LEMMA TableStep ==
    ASSUME StatsInv, NEW r \in Readers,
           \/ CountRows(r) \/ ReadPage(r) \/ ReadPrices(r)
           \/ ReadMatches(r) \/ ReadStock(r)
    PROVE  Moves(r)
<1> DEFINE s == stats[r]
           found == RowsOf(s.current, s.stores)
           page  == RowsOf(s.current, s.stores \cap registered)
<1>1. /\ s \in Locals /\ rpc[r] \in StatsSteps
      /\ ReaderInv(r) /\ AnswerInv(r) /\ StayInv(r)
      /\ UNCHANGED <<vars, registry, executed, asked>> /\ asked \in Nat /\ TypeOK
      /\ rpc[r] \in Tabling
  BY Locally DEF CountRows, ReadPage, ReadPrices, ReadMatches, ReadStock, StatsInv,
                 IInv, Tabling, Reading
<1>2. /\ s.current \in Pairs /\ s.previous \in Pairs
      /\ s.stores \in SUBSET Kompetitors
      /\ \A k \in Kompetitors : s.current[k] # None => HasRows(s.current[k], k)
  BY Found
<1>3. /\ found \in [Kompetitors -> Loads]
      /\ \A k \in Kompetitors :
           found[k].titles # {} <=> k \in s.stores /\ s.current[k] # None
      /\ page \in [Kompetitors -> Loads] /\ PageShows(s, page)
  BY <1>1, <1>2, RowsType, RowsFound DEF PageShows
<1>4. s.kind = "table" /\ s.kind # "metrics" /\ Resolved(r)
  BY <1>1 DEF ReaderInv, Resolved, Tabling
<1>5. ASSUME NEW q \in Locals, stats' = [stats EXCEPT ![r] = q], stats'[r] = q,
             NEW step \in Counted, Turn(r, step),
             q.start = s.start, q.end = s.end, q.stores = s.stores,
             q.kind = s.kind, q.known = s.known, q.answered = s.answered,
             q.staying = s.staying,
             q.current = s.current, q.previous = s.previous,
             (q.total = 0) <=> \A k \in s.stores : s.current[k] = None,
             step # "page" => PageShows(s, q.page)
      PROVE  Moves(r)
  <2>1. rpc' = [rpc EXCEPT ![r] = step] /\ rpc'[r] = step
    BY <1>5, Locally
  <2>2. ReaderInv(r)' /\ AnswerInv(r)' /\ StayInv(r)'
    BY <1>1, <1>4, <1>5, <2>1, RequestGoesOn DEF Tabling, Counted
  <2>3. step \in StatsSteps
    BY DEF Counted, StatsSteps
  <2> QED
    BY <1>1, <1>5, <2>1, <2>2, <2>3 DEF Moves
<1>6. CASE CountRows(r)
  <2> DEFINE total == Cardinality(UNION {{k} \X found[k].titles : k \in Kompetitors})
             q == [s EXCEPT !.total = total]
  <2>1. Learn(r, q) /\ Turn(r, "page")
    BY <1>6 DEF CountRows
  <2>2. total \in Nat /\ (total = 0 <=> \A k \in Kompetitors : found[k].titles = {})
    <3> HIDE DEF found
    <3> QED
      BY <1>3, CountType
  <2>3. total = 0 <=> \A k \in s.stores : s.current[k] = None
    BY <1>2, <1>3, <2>2
  <2> HIDE DEF total
  <2>4. q \in Locals /\ q.total = total
    BY <1>1, <2>2, LocalUpdates DEF Locals
  <2>5. /\ q.start = s.start /\ q.end = s.end /\ q.stores = s.stores
        /\ q.kind = s.kind /\ q.known = s.known /\ q.answered = s.answered
        /\ q.staying = s.staying
        /\ q.current = s.current /\ q.previous = s.previous
    OBVIOUS
  <2> HIDE DEF q
  <2>6. stats' = [stats EXCEPT ![r] = q] /\ stats'[r] = q
    BY <2>1, Locally
  <2> QED
    BY <1>5, <2>1, <2>3, <2>4, <2>5, <2>6 DEF Counted
<1>7. CASE ReadPage(r)
  <2> DEFINE q == [s EXCEPT !.page = page]
             step == IF Compared(page, s.previous) # {} THEN "names"
                     ELSE AfterPrices(page)
  <2>1. rpc[r] = "page" /\ Learn(r, q) /\ Turn(r, step)
    BY <1>7 DEF ReadPage, Reading
  <2> HIDE DEF page
  <2>2. q \in Locals /\ q.page = page
    BY <1>1, <1>3, LocalUpdates DEF Locals
  <2>3. /\ q.start = s.start /\ q.end = s.end /\ q.stores = s.stores
        /\ q.kind = s.kind /\ q.known = s.known /\ q.answered = s.answered
        /\ q.staying = s.staying
        /\ q.current = s.current /\ q.previous = s.previous /\ q.total = s.total
    OBVIOUS
  <2>4. step \in Counted
    BY DEF AfterPrices, Counted
  <2> HIDE DEF q, step
  <2>5. stats' = [stats EXCEPT ![r] = q] /\ stats'[r] = q
    BY <2>1, Locally
  <2>6. (q.total = 0) <=> \A k \in s.stores : s.current[k] = None
    BY <1>1, <1>4, <2>1, <2>3 DEF ReaderInv, Counted
  <2> QED
    BY <1>3, <1>5, <2>1, <2>2, <2>3, <2>4, <2>5, <2>6
<1>8. ASSUME rpc[r] \in {"names", "matches", "stock"}
      PROVE  /\ (s.total = 0) <=> \A k \in s.stores : s.current[k] = None
             /\ PageShows(s, s.page)
  BY <1>1, <1>4, <1>8 DEF ReaderInv, AnswerInv, Paged, Counted
<1>9. CASE ReadPrices(r)
  <2> DEFINE old == RowsOf(s.previous, Compared(s.page, s.previous))
             prices == [k \in Kompetitors |-> s.page[k].titles \cap old[k].titles]
             q == [s EXCEPT !.prices = prices]
             step == AfterPrices(s.page)
  <2>1. rpc[r] = "names" /\ Learn(r, q) /\ Turn(r, step)
    BY <1>9 DEF ReadPrices, Reading
  <2>2. prices \in [Kompetitors -> SUBSET Titles]
    BY <1>1 DEF Locals, Loads, Titles
  <2> HIDE DEF prices
  <2>3. q \in Locals
    BY <1>1, <2>2, LocalUpdates
  <2>4. /\ q.start = s.start /\ q.end = s.end /\ q.stores = s.stores
        /\ q.kind = s.kind /\ q.known = s.known /\ q.answered = s.answered
        /\ q.staying = s.staying
        /\ q.current = s.current /\ q.previous = s.previous
        /\ q.total = s.total /\ q.page = s.page
    OBVIOUS
  <2>5. step \in Counted /\ step # "page"
    BY DEF AfterPrices, Counted
  <2> HIDE DEF q, step
  <2>6. stats' = [stats EXCEPT ![r] = q] /\ stats'[r] = q
    BY <2>1, Locally
  <2> QED
    BY <1>5, <1>8, <2>1, <2>3, <2>4, <2>5, <2>6
<1>10. CASE ReadMatches(r)
  <2> DEFINE items == Matched(s.current[OwnStore], s.page[OwnStore])
             q == [s EXCEPT !.stocked = items]
             step == IF items = {} THEN "show" ELSE "stock"
  <2>1. rpc[r] = "matches" /\ Learn(r, q) /\ Turn(r, step)
    BY <1>10 DEF ReadMatches, Reading
  <2>2. items \in SUBSET Items
    BY DEF Matched
  <2> HIDE DEF items
  <2>3. q \in Locals
    BY <1>1, <2>2, LocalUpdates
  <2>4. /\ q.start = s.start /\ q.end = s.end /\ q.stores = s.stores
        /\ q.kind = s.kind /\ q.known = s.known /\ q.answered = s.answered
        /\ q.staying = s.staying
        /\ q.current = s.current /\ q.previous = s.previous
        /\ q.total = s.total /\ q.page = s.page
    OBVIOUS
  <2>5. step \in Counted /\ step # "page"
    BY DEF Counted
  <2> HIDE DEF q, step
  <2>6. stats' = [stats EXCEPT ![r] = q] /\ stats'[r] = q
    BY <2>1, Locally
  <2> QED
    BY <1>5, <1>8, <2>1, <2>3, <2>4, <2>5, <2>6
<1>11. CASE ReadStock(r)
  <2>1. rpc[r] = "stock" /\ Turn(r, "show") /\ stats' = stats
    BY <1>11 DEF ReadStock, Reading
  <2>2. stats' = [stats EXCEPT ![r] = s] /\ stats'[r] = s
    BY <2>1, Locally
  <2> HIDE DEF s
  <2>3. (s.total = 0) <=> \A k \in s.stores : s.current[k] = None
    BY <1>8, <2>1
  <2> QED
    BY <1>1, <1>5, <1>8, <2>1, <2>2, <2>3 DEF Counted
<1> QED
  BY <1>6, <1>7, <1>9, <1>10, <1>11

-----------------------------------------------------------------------------
(* The theorems.                                                           *)

LEMMA InitStatsInv == StatsInit => StatsInv
<1> SUFFICES ASSUME StatsInit PROVE StatsInv
  OBVIOUS
<1>1. IInv
  BY InitIInv DEF StatsInit
<1>2. OneSummary
  <2>1. \A b \in BatchIds, k \in Kompetitors : summaries[b][k] = <<>>
    BY DEF StatsInit, Init
  <2> QED
    BY <2>1, EmptySeq DEF OneSummary
<1>3. \A r \in Readers : ReaderInv(r) /\ AnswerInv(r) /\ StayInv(r)
  BY DEF StatsInit, ReaderInv, AnswerInv, StayInv, Resolved, Paged, Tabling,
         Counted, NoStats, NoPairs
<1> QED
  BY <1>1, <1>2, <1>3, NoStatsType
     DEF StatsInit, DatedInit, StatsInv, StatsSteps, RemovalSteps

\* A step of a deletion is none of an import's, but what the imports have secured
\* it leaves as it is.
LEMMA RemovalKeepsPipeline ==
    ASSUME IInv, OneSummary, NEW k \in Kompetitors, Removal(k)
    PROVE  /\ IInv' /\ Grows /\ OneSummary' /\ acked' = acked
           /\ UNCHANGED reader /\ registered' \subseteq registered
<1>1. CASE DropStore(k)
  <2>1. [i \in Items |-> cells[i] \ {k}] \in [Items -> SUBSET Kompetitors]
    BY DEF IInv, TypeOK
  <2>2. IInv' /\ Grows
    BY <1>1, <2>1, CellsKeepIInv DEF DropStore
  <2> QED
    BY <1>1, <2>2 DEF DropStore, CellsBecome, OneSummary
<1>2. CASE UNCHANGED <<vars, reader, registered>>
  BY <1>2, IInvStep, GrowsStep, OneSummaryStep DEF vars, history
<1> QED
  BY <1>1, <1>2 DEF Removal, BeginRemoval, CountData, RemovalFails

\* It neither begins at a store that is gone nor gets past the rows of one that
\* has some.
LEMMA RemovalKeepsStaying ==
    ASSUME StatsInv, NEW k \in Kompetitors, Removal(k), NEW r \in Readers
    PROVE  StayInv(r)'
<1>1. stats' = stats
  BY RemovalKeepsPipeline DEF StatsInv, reader
<1>2. ASSUME NEW o \in stats[r].staying
      PROVE  o \in registered' /\ removal'[o] \notin {"mappings", "delete"}
  <2>1. /\ o \in registered /\ removal[o] \notin {"mappings", "delete"}
        /\ o \in Kompetitors
    BY <1>2 DEF StatsInv, StayInv
  <2>2. Scraped(o).products
    <3>1. PICK b \in stats[r].known[o] : b \in Readable(o)
      BY <1>2, <2>1 DEF StatsInv, StayInv, ReaderInv
    <3> QED
      BY <3>1 DEF Readable, Completed, Scraped
  <2>3. CASE o # k
    BY <2>1, <2>3 DEF Removal, BeginRemoval, CountData, DropStore, RemovalFails,
                      Removes, StatsInv
  <2>4. CASE o = k
    BY <2>1, <2>2, <2>4 DEF Removal, BeginRemoval, CountData, DropStore,
                            RemovalFails, Removes, StatsInv
  <2> QED
    BY <2>3, <2>4
<1> QED
  BY <1>1, <1>2 DEF StatsInv, StayInv

\* A step of a request changes that request alone; an import changes none, and a
\* deletion none either.
LEMMA StatsInvStep == StatsInv /\ [StatsNext]_statsVars => StatsInv'
<1> SUFFICES ASSUME StatsInv, [StatsNext]_statsVars PROVE StatsInv'
  OBVIOUS
<1>1. ASSUME NEW r \in Readers, AskStats(r) \/ Answer(r)
      PROVE  UNCHANGED vars /\ Moves(r)
  <2>1. CASE AskStats(r)
    BY <2>1, AskStep DEF AskStats
  <2>2. CASE ReadIndex(r)
    BY <2>2, IndexStep DEF ReadIndex
  <2>3. CASE ReadCurrent(r) \/ ReadPrevious(r)
    BY <2>3, MetricsStep DEF ReadCurrent, ReadPrevious
  <2>4. CASE \/ CountRows(r) \/ ReadPage(r) \/ ReadPrices(r)
             \/ ReadMatches(r) \/ ReadStock(r)
    BY <2>4, TableStep DEF CountRows, ReadPage, ReadPrices, ReadMatches, ReadStock
  <2>5. CASE ShowStats(r) \/ StatsFail(r)
    <3>1. /\ Learn(r, NoStats) /\ Turn(r, "idle")
          /\ UNCHANGED <<vars, registry, executed, asked>>
      BY <2>5 DEF ShowStats, StatsFail
    <3>2. /\ stats' = [stats EXCEPT ![r] = NoStats] /\ stats'[r] = NoStats
          /\ rpc' = [rpc EXCEPT ![r] = "idle"] /\ rpc'[r] = "idle"
      BY <3>1, Locally
    <3> QED
      BY <3>1, <3>2, RequestEnds, NoStatsType DEF Moves, StatsInv, StatsSteps
  <2> QED
    BY <1>1, <2>1, <2>2, <2>3, <2>4, <2>5 DEF Answer
<1>2. ASSUME [Next]_vars
      PROVE  IInv' /\ Grows /\ OneSummary' /\ acked \subseteq acked'
  BY <1>2, IInvStep, GrowsStep, OneSummaryStep, AckedGrows DEF StatsInv
<1>3. ASSUME IInv', Grows, OneSummary', acked \subseteq acked',
             registered' \subseteq registered,
             removal' \in [Kompetitors -> RemovalSteps], UNCHANGED reader,
             \A r \in Readers : StayInv(r)'
      PROVE  StatsInv'
  <2>1. \A o \in Readers : ReaderInv(o)' /\ AnswerInv(o)'
    BY <1>3, RequestKept DEF StatsInv, reader
  <2> QED
    BY <1>3, <2>1 DEF StatsInv, reader
<1>4. ASSUME NEW r \in Readers, UNCHANGED vars, Moves(r)
      PROVE  StatsInv'
  <2>1. PICK step \in StatsSteps, s \in Locals :
          rpc' = [rpc EXCEPT ![r] = step] /\ stats' = [stats EXCEPT ![r] = s]
    BY <1>4 DEF Moves
  <2>2. \A o \in Readers \ {r} : rpc'[o] = rpc[o] /\ stats'[o] = stats[o]
    BY <2>1 DEF StatsInv
  <2>3. /\ executed' = executed /\ asked' \in Nat
        /\ registered' = registered /\ removal' = removal
        /\ ReaderInv(r)' /\ AnswerInv(r)' /\ StayInv(r)'
    BY <1>4 DEF Moves, registry
  <2>4. IInv' /\ Grows /\ OneSummary' /\ acked \subseteq acked'
    BY <1>2, <1>4
  <2>5. ASSUME NEW o \in Readers \ {r}
        PROVE  ReaderInv(o)' /\ AnswerInv(o)' /\ StayInv(o)'
    <3>1. ReaderInv(o)' /\ AnswerInv(o)'
      BY <2>2, <2>3, <2>4, RequestKept DEF StatsInv
    <3>2. StayInv(o)'
      BY <2>2, <2>3 DEF StatsInv, StayInv
    <3> QED
      BY <3>1, <3>2
  <2> QED
    BY <2>1, <2>3, <2>4, <2>5 DEF StatsInv
<1>5. CASE Imports \/ UNCHANGED statsVars
  <2>1. [Next]_vars /\ UNCHANGED <<reader, registry>>
    BY <1>5 DEF Imports, statsVars
  <2>2. \A r \in Readers : StayInv(r)'
    BY <2>1 DEF StatsInv, StayInv, reader, registry
  <2> QED
    BY <1>2, <1>3, <2>1, <2>2 DEF StatsInv, registry
<1>6. ASSUME NEW k \in Removable, Removal(k)
      PROVE  StatsInv'
  <2>1. k \in Kompetitors
    BY StatsAssumption
  <2>2. removal' \in [Kompetitors -> RemovalSteps]
    BY <1>6, <2>1 DEF Removal, BeginRemoval, CountData, DropStore, RemovalFails,
                      Removes, RemovalSteps, StatsInv
  <2> QED
    BY <1>3, <1>6, <2>1, <2>2, RemovalKeepsPipeline, RemovalKeepsStaying
       DEF StatsInv
<1> QED
  BY <1>1, <1>4, <1>5, <1>6 DEF StatsNext

LEMMA StatsInductive == StatsSpec => []StatsInv
BY InitStatsInv, StatsInvStep, PTL DEF StatsSpec

\* Whatever is imported, fails or crashes between the statements of a request, its
\* locals keep their types, and no period that ends before it starts is answered.
THEOREM StatsTypeCorrect == StatsSpec => []StatsTypeOK
<1>1. StatsInv => StatsTypeOK
  BY DEF StatsInv, StatsTypeOK, ReaderInv
<1> QED
  BY <1>1, StatsInductive, PTL

\* Of each store the panel uses a batch of the period, and no batch of the period
\* that had the store's rows when the request came is newer.
THEOREM NewestBatchUsed == StatsSpec => []NewestOfPeriod
<1>1. StatsInv => NewestOfPeriod
  BY DEF StatsInv, NewestOfPeriod, AnswerInv, ReaderInv, Readable, Completed, Within
<1> QED
  BY <1>1, StatsInductive, PTL

\* The trend of a period with a first day, and of "latest data", compares a store
\* of the period with an older batch of the same store.
THEOREM TrendsCompareLikeWithLike == StatsSpec => []ComparesLikeWithLike
<1>1. StatsInv => ComparesLikeWithLike
  BY DEF StatsInv, ComparesLikeWithLike, AnswerInv
<1> QED
  BY <1>1, StatsInductive, PTL

\* An import that was answered before the metrics were asked for is counted in
\* them, and with unique keys once.
THEOREM AcknowledgedIsCounted == StatsSpec => []AckedCounted
<1>1. StatsInv => AckedCounted
  BY DEF StatsInv, AckedCounted, AnswerInv
<1> QED
  BY <1>1, StatsInductive, PTL

\* The statements of one table agree, whatever is imported and deleted between
\* them: the page has no store but those of the filter with a batch of the period,
\* every such store that is registered still, every store that had rows in the
\* period and was not being deleted when the table was asked for, and no store at
\* all beside a count of 0.
THEOREM TablesAgree == StatsSpec => []TableComplete
<1>1. ASSUME StatsInv, NEW r \in Readers, Paged(r)
      PROVE  LET s == stats[r] IN
             /\ \A k \in Kompetitors :
                  s.page[k].titles # {} => k \in s.stores /\ s.current[k] # None
             /\ \A k \in s.stores \cap registered :
                  s.current[k] # None => s.page[k].titles # {}
             /\ \A k \in s.stores \cap s.staying :
                  s.known[k] \cap Within(s.start, s.end) # {} =>
                    s.page[k].titles # {}
             /\ s.total = 0 => \A k \in Kompetitors : s.page[k].titles = {}
  <2> DEFINE s == stats[r]
  <2>1. s.stores \in SUBSET Kompetitors
    BY <1>1 DEF StatsInv, Locals
  <2>2. /\ \A k \in Kompetitors :
             s.page[k].titles # {} => k \in s.stores /\ s.current[k] # None
        /\ \A k \in s.stores \cap registered :
             s.current[k] # None => s.page[k].titles # {}
    BY <1>1, <2>1 DEF StatsInv, AnswerInv, PageShows
  <2>3. ASSUME NEW k \in s.stores \cap s.staying,
               s.known[k] \cap Within(s.start, s.end) # {}
        PROVE  s.page[k].titles # {}
    <3>1. k \in registered
      BY <1>1 DEF StatsInv, StayInv
    <3>2. s.current[k] # None
      BY <1>1, <2>1, <2>3 DEF StatsInv, AnswerInv, Resolved, Paged
    <3> QED
      BY <2>2, <3>1, <3>2
  <2>4. (s.total = 0) <=> \A k \in s.stores : s.current[k] = None
    BY <1>1 DEF StatsInv, ReaderInv, Paged, Counted
  <2> QED
    BY <2>2, <2>3, <2>4
<1>2. StatsInv => TableComplete
  BY <1>1 DEF TableComplete
<1> QED
  BY <1>2, StatsInductive, PTL

\* An import goes on whatever the panel reads, and a deletion that changes cells
\* leaves nothing settled, so the batches an import settles are as SettledProofs
\* shows them.
LEMMA StatsKeepsSettled == StatsSpec => []SettledInv
<1>1. StatsInit => SettledInv
  BY InitSettledInv DEF StatsInit
<1>2. SettledInv /\ [StatsNext]_statsVars => SettledInv'
  <2> SUFFICES ASSUME SettledInv, [StatsNext]_statsVars PROVE SettledInv'
    OBVIOUS
  <2>1. CASE [Next]_vars
    BY <2>1, SettledInvStep
  <2>2. ASSUME NEW k \in Removable, Removal(k)
        PROVE  SettledInv'
    <3>1. IInv' /\ OneSummary'
      BY <2>2, RemovalKeepsPipeline, StatsAssumption DEF SettledInv
    <3>2. CASE DropStore(k)
      BY <3>1, <3>2, SettledWhenCellsChange DEF DropStore
    <3>3. CASE UNCHANGED vars
      BY <2>1, <3>3
    <3> QED
      BY <2>2, <3>2, <3>3 DEF Removal, BeginRemoval, CountData, RemovalFails
  <2>3. ASSUME NEW r \in Readers, AskStats(r) \/ Answer(r)
        PROVE  UNCHANGED vars
    BY <2>3 DEF AskStats, Answer, ReadIndex, ReadCurrent, ReadPrevious, CountRows,
       ReadPage, ReadPrices, ReadMatches, ReadStock, ShowStats, StatsFail
  <2> QED
    BY <2>1, <2>2, <2>3 DEF StatsNext, Imports, statsVars
<1> QED
  BY <1>1, <1>2, SettledInvStep, PTL DEF StatsSpec

\* The stock column shows of a settled batch the items whose cell, or whose
\* universal cell, has our store, and that are among the rows beside it.
THEOREM StockIsOfTheRows == StatsSpec => StockOfSettled
<1> DEFINE Right(r) ==
         LET s == stats[r]
             b == s.current[OwnStore] IN
         /\ Reading(r, "matches") /\ rpc'[r] \in {"stock", "show"}
         /\ b \in settled /\ s.page[OwnStore] = products[b][OwnStore]
         /\ Mappable # {}
         => stats'[r].stocked = {i \in Mappable \cap s.page[OwnStore].titles :
                                   OwnStore \in Allowed[i]}
<1>1. ASSUME StatsInv, SettledInv, StatsNext, NEW r \in Readers,
             rpc[r] = "matches", rpc'[r] \in {"stock", "show"},
             NEW b, b = stats[r].current[OwnStore], b \in settled,
             NEW load, load = stats[r].page[OwnStore],
             load = products[b][OwnStore], Mappable # {}
      PROVE  stats'[r].stocked = {i \in Mappable \cap load.titles :
                                    OwnStore \in Allowed[i]}
  <2>1. ReadMatches(r)
    <3>1. PICK o \in Readers : AskStats(o) \/ Answer(o)
      BY <1>1, StatsAssumption, RemovalKeepsPipeline
         DEF StatsNext, Imports, StatsInv, reader
    <3>2. \E step : Turn(o, step)
      BY <3>1, Zenon DEF AskStats, Answer, ReadIndex, ReadCurrent, ReadPrevious,
         CountRows, ReadPage, ReadPrices, ReadMatches, ReadStock, ShowStats, StatsFail
    <3>3. o = r
      BY <1>1, <3>2 DEF Turn, StatsInv
    <3>4. CASE AskStats(r) \/ ReadIndex(r) \/ ReadCurrent(r) \/ ReadPrevious(r)
               \/ CountRows(r) \/ ReadPage(r) \/ ReadPrices(r) \/ ReadStock(r)
               \/ ShowStats(r)
      BY <1>1, <3>4 DEF AskStats, ReadIndex, ReadCurrent, ReadPrevious, CountRows,
         ReadPage, ReadPrices, ReadStock, ShowStats, Reading
    <3>5. ~StatsFail(r)
      BY <1>1, Locally DEF StatsFail
    <3> QED
      BY <3>1, <3>3, <3>4, <3>5 DEF Answer
  <2>2. stats'[r].stocked = Matched(b, load)
    <3>1. stats'[r] = [stats[r] EXCEPT !.stocked = Matched(b, load)]
      BY <1>1, <2>1, Locally DEF ReadMatches
    <3> QED
      BY <1>1, <3>1, Locally DEF Locals
  <2>3. mappings[b] = ComputeMatches(Mappable, products[b], Allowed, Items)
    <3>1. b \in BatchIds /\ Held(b)
      BY <1>1 DEF SettledInv, IInv, TypeOK
    <3> QED
      BY <1>1, <3>1 DEF Held, Remapped
  <2>4. Mappable \subseteq Items /\ \A i \in Items : Allowed[i] \subseteq Kompetitors
    BY <1>1, IngestAssumption DEF SettledInv, IInv, TypeOK, Mappable, Allowed
  <2>5. ASSUME NEW i \in Items
        PROVE  [item |-> i, kompetitor |-> OwnStore, product |-> load.version]
                   \in mappings[b]
               <=> i \in Mappable /\ OwnStore \in Allowed[i] /\ i \in load.titles
    <3> DEFINE Matching == {q \in (Mappable \cap Items) \X Kompetitors :
                            /\ q[2] \in Allowed[q[1]]
                            /\ q[1] \in products[b][q[2]].titles}
               m(p) == [item |-> p[1], kompetitor |-> p[2],
                        product |-> products[b][p[2]].version]
               x == [item |-> i, kompetitor |-> OwnStore, product |-> load.version]
    <3>1. mappings[b] = {m(p) : p \in Matching}
      BY <2>3, Zenon DEF ComputeMatches
    <3>2. x \in mappings[b] => <<i, OwnStore>> \in Matching
      <4>1. ASSUME NEW p \in Matching, x = m(p) PROVE <<i, OwnStore>> \in Matching
        <5>1. p[1] = i /\ p[2] = OwnStore
          BY <4>1
        <5> QED
          BY <5>1
      <4> QED
        BY <3>1, <4>1
    <3>3. <<i, OwnStore>> \in Matching => x \in mappings[b]
      <4>1. m(<<i, OwnStore>>) = x
        BY <1>1
      <4> QED
        BY <3>1, <4>1
    <3>4. <<i, OwnStore>> \in Matching
            <=> i \in Mappable /\ OwnStore \in Allowed[i] /\ i \in load.titles
      BY <1>1, <2>4
    <3> QED
      BY <3>2, <3>3, <3>4
  <2> QED
    BY <2>2, <2>4, <2>5 DEF Matched
<1>2. StatsInv /\ SettledInv /\ [StatsNext]_statsVars =>
        [\A r \in Readers : Right(r)]_statsVars
  BY <1>1 DEF Reading
<1> QED
  BY <1>2, StatsInductive, StatsKeepsSettled, PTL DEF StatsSpec, StockOfSettled
=============================================================================
