------------------------------ MODULE Reading -------------------------------
(***************************************************************************)
(* What a page shows of the batches of Scraping, as if it looked twice: it *)
(* picks a batch for each store at one moment and reads their files at a   *)
(* later one, while imports go on.                                         *)
(***************************************************************************)
EXTENDS Scraping

CONSTANTS Pages, NoBatch

VARIABLES
    day,    \* the day of a batch, which never changes
    view    \* per page: what it may not miss, what it picked, what it shows

readingVars == <<vars, day, view>>

Readable(s) == {b \in Batches : status[b] = "completed" /\ files[b][s] # 0}

\* What a page knows and shows: before it looks, after its first look, after its
\* second.
View(at, known, from, shows) ==
    [at |-> at, known |-> known, from |-> from, shows |-> shows]
Nowhere == [s \in Stores |-> NoBatch]
Nothing == [s \in Stores |-> 0]
NoView               == View("none", [s \in Stores |-> {}], Nowhere, Nothing)
Asked(known)         == View("asked", known, Nowhere, Nothing)
Picked(known, from)  == View("picked", known, from, Nothing)

ReadingInit == Init /\ day \in [Batches -> Nat] /\ view = [p \in Pages |-> NoView]

Ask(p) ==
    /\ view[p] = NoView
    /\ view' = [view EXCEPT ![p] = Asked([s \in Stores |-> Readable(s)])]

\* Of each store a batch that can be read now, and no older than any that could
\* when the page was asked for; none only if there was none.
Picks(known, from) ==
    \A s \in Stores :
        /\ from[s] # NoBatch => from[s] \in Readable(s)
        /\ \A b \in known[s] : from[s] # NoBatch /\ day[b] <= day[from[s]]

Pick(p) ==
    \E from \in [Stores -> Batches \cup {NoBatch}] :
        LET known == view[p].known IN
        /\ view[p] = Asked(known) /\ Picks(known, from)
        /\ view' = [view EXCEPT ![p] = Picked(known, from)]

\* The files of some of the stores, all of one moment.
Show(p) ==
    LET known == view[p].known
        from  == view[p].from IN
    \E some \in SUBSET {s \in Stores : from[s] # NoBatch} :
        /\ view[p] = Picked(known, from)
        /\ view' = [view EXCEPT ![p] = View("shown", known, from,
                       [s \in Stores |-> IF s \in some THEN files[from[s]][s] ELSE 0])]

\* Pages are answered, fail, or die with their process.
Drop(some) == view' = [p \in Pages |-> IF p \in some THEN NoView ELSE view[p]]

Look == (\E p \in Pages : Ask(p) \/ Pick(p) \/ Show(p))
          \/ \E some \in SUBSET Pages : Drop(some)

ReadingNext ==
    /\ \/ Look /\ UNCHANGED vars
       \/ Next /\ UNCHANGED view
    /\ UNCHANGED day

ReadingSpec == ReadingInit /\ [][ReadingNext]_readingVars
=============================================================================
