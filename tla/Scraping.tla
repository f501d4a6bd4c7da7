------------------------------ MODULE Scraping ------------------------------
(***************************************************************************)
(* What a scraping batch promises to the panels that read it, whatever the *)
(* requests, failures, collisions and crashes behind it: the import        *)
(* pipeline without its statements.  A batch is opened once and completed  *)
(* once; a store's file is replaced by a later one, never taken away; a    *)
(* summary is only ever replaced by that of another file of the store; and *)
(* an import is acknowledged when the panels can already read it.          *)
(***************************************************************************)
EXTENDS Naturals

CONSTANTS Batches, Stores

VARIABLES
    status,     \* of a batch
    files,      \* how many files of a store a batch has stored
    shown,      \* which of them the summaries of a store describe
    acked       \* the imports answered "ok"

vars == <<status, files, shown, acked>>

Init ==
    /\ status = [b \in Batches |-> "absent"]
    /\ files  = [b \in Batches |-> [s \in Stores |-> 0]]
    /\ shown  = [b \in Batches |-> [s \in Stores |-> {}]]
    /\ acked  = {}

Open(b) ==
    /\ status[b] = "absent"
    /\ status' = [status EXCEPT ![b] = "running"]
    /\ UNCHANGED <<files, shown, acked>>

Store(b, s) ==
    /\ status[b] # "absent"
    /\ files' = [files EXCEPT ![b][s] = @ + 1]
    /\ UNCHANGED <<status, shown, acked>>

\* Every store keeps a summary it had or gets another; none is left without.
Summarise(b) ==
    /\ \A s \in Stores :
          /\ shown'[b][s] \subseteq shown[b][s] \cup 1..files[b][s]
          /\ shown[b][s] # {} => shown'[b][s] # {}
    /\ shown' = [shown EXCEPT ![b] = [s \in Stores |-> shown'[b][s]]]
    /\ UNCHANGED <<status, files, acked>>

\* The panels find a batch once some store of it is summarised.
Complete(b) ==
    /\ status[b] = "running"
    /\ \E s \in Stores : shown[b][s] # {}
    /\ status' = [status EXCEPT ![b] = "completed"]
    /\ UNCHANGED <<files, shown, acked>>

Acknowledge(b, s) ==
    /\ status[b] = "completed"
    /\ shown[b][s] # {}
    /\ acked' = acked \cup {<<b, s>>}
    /\ UNCHANGED <<status, files, shown>>

Next ==
    \E b \in Batches :
        \/ Open(b) \/ Summarise(b) \/ Complete(b)
        \/ \E s \in Stores : Store(b, s) \/ Acknowledge(b, s)

Spec == Init /\ [][Next]_vars
=============================================================================
