------------------------------- MODULE Dated --------------------------------
(***************************************************************************)
(* The dates of the batches of Ingest, which the panels order them by.     *)
(***************************************************************************)
EXTENDS Ingest

CONSTANT Days       \* dates of scraping

ASSUME DatedAssumption == Days \subseteq Nat /\ Days # {}

VARIABLE executed   \* executed_at of a batch: the date of the request that
                    \* creates it, which no later request changes

DatedInit == executed \in [BatchIds -> Days]

Completed == {b \in BatchIds : batches[b].status = "completed"}
\* The completed batches in which a store has rows.
Readable(k) == {b \in Completed : HasRows(b, k)}
\* Of some batches, those of the last day.
Newest(S) == {b \in S : \A o \in S : executed[o] <= executed[b]}
=============================================================================
