------------------------------ MODULE Serving -------------------------------
(***************************************************************************)
(* What the clients of a process may rely on, whatever its handlers, the   *)
(* database and the operating system do: a process that takes no request   *)
(* once it is stopping, and answers that say what was stored.  A process   *)
(* is all its clients know of: listeners, goroutines and calls of the      *)
(* repositories are left out.                                              *)
(***************************************************************************)
CONSTANTS
    Clients,    \* what may be asked at the same time
    Operations, \* what may be asked for
    Effects,    \* what may be stored
    Due,        \* what an operation has stored when it is done
    Plain       \* operations that need no database

VARIABLES
    process,    \* "down", "up" or "stopping"
    ended,      \* how it ended last
    equipped,   \* whether it has a database
    client      \* per client: what it waits for, or was told

vars == <<process, ended, equipped, client>>

Away == [at |-> "away", op |-> "", stored |-> {}, told |-> ""]

\* A client that waits for op, and what was stored for it so far.
Waits(op, stored) == [at |-> "waiting", op |-> op, stored |-> stored, told |-> ""]

Waiting(c) == client[c].at = "waiting"

Init ==
    /\ process = "down" /\ ended = "none" /\ equipped = FALSE
    /\ client = [c \in Clients |-> Away]

Start ==
    /\ process = "down" /\ process' = "up" /\ ended' = "none"
    /\ equipped' \in BOOLEAN
    /\ UNCHANGED client

Stop ==
    /\ process = "up" /\ process' = "stopping"
    /\ UNCHANGED <<ended, equipped, client>>

\* Whatever its clients were waiting for, they wait in vain; but a process that
\* says all is well was stopped, and nobody was waiting.
End(how) ==
    /\ process # "down" /\ process' = "down"
    /\ how = "ok" => process = "stopping" /\ \A c \in Clients : ~Waiting(c)
    /\ ended' = how /\ equipped' = FALSE
    /\ client' = [c \in Clients |-> Away]

\* Only a process that is not being stopped takes a request.
Ask(c, op) ==
    /\ process = "up" /\ client[c] = Away
    /\ client' = [client EXCEPT ![c] = Waits(op, {})]
    /\ UNCHANGED <<process, ended, equipped>>

\* Something is stored for good, while the client waits.
Store(c, effect) ==
    /\ Waiting(c) /\ equipped
    /\ client' = [client EXCEPT ![c] = Waits(@.op, @.stored \cup {effect})]
    /\ UNCHANGED <<process, ended, equipped>>

\* What may be stored when the client is told: one more effect at most.
Grown(c) == {client[c].stored} \cup {client[c].stored \cup {effect} : effect \in Effects}

Tell(c, told, stored) ==
    /\ Waiting(c)
    /\ stored # client[c].stored => equipped
    /\ told = "refused" => stored = {}
    /\ told = "done" => /\ Due[client[c].op] \subseteq stored
                        /\ equipped \/ client[c].op \in Plain
    /\ told = "unavailable" => ~equipped /\ stored = {}
    /\ client' = [client EXCEPT ![c] = [at |-> "told", op |-> @.op,
                                        stored |-> stored, told |-> told]]
    /\ UNCHANGED <<process, ended, equipped>>

Leave(c) ==
    /\ client[c].at = "told"
    /\ client' = [client EXCEPT ![c] = Away]
    /\ UNCHANGED <<process, ended, equipped>>

Next ==
    \/ Start \/ Stop \/ \E how \in {"ok", "error", "killed"} : End(how)
    \/ \E c \in Clients :
         \/ \E op \in Operations : Ask(c, op)
         \/ \E effect \in Effects : Store(c, effect)
         \/ \E told \in {"done", "refused", "unavailable", "broken"} :
              \E stored \in Grown(c) : Tell(c, told, stored)
         \/ Leave(c)

Spec == Init /\ [][Next]_vars
=============================================================================
