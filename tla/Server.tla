------------------------------- MODULE Server -------------------------------
(***************************************************************************)
(* The life of one process, the REST API (cmd/api) or the gRPC server      *)
(* (cmd/grpc): it starts with or without a database, listens, serves       *)
(* requests that ask the repositories call by call, and stops on a signal  *)
(* while requests are in flight.  It may be started again after any end.   *)
(* Two processes share nothing but the database, which is reachable or not.*)
(***************************************************************************)
EXTENDS Transports

CONSTANTS
    Requests,   \* the requests that may be in flight together
    Asks,       \* bound: the operations each of them may ask for
    Drivers     \* values of DB_DRIVER: "" for none, "mysql", or another

ASSUME ServerAssumption == Asks \in [Requests -> SUBSET HttpRoutes]

VARIABLES
    transport,  \* "http" or "grpc": which command this is
    main,       \* the main goroutine
    serve,      \* the goroutine that serves
    exit,       \* how the process ended last
    handle,     \* whether the container has a *gorm.DB
    database,   \* whether MySQL can be reached now
    req         \* the requests

vars == <<transport, main, serve, exit, handle, database, req>>

\* "listen" is gRPC's: there main listens before it starts the goroutine.
MainStates  == {"down", "listen", "notify", "wait", "quit", "stop"}
ServeStates == {"none", "start", "open", "closed"}
Exits       == {"none", "ok", "error", "killed"}

Idle == [at |-> "idle", op |-> "", todo |-> <<>>, wrote |-> {}, status |-> ""]

At(r, where) == req[r].at = where
InFlight(r)  == At(r, "running") \/ At(r, "hung")
Status(op, code) == IF transport = "http" THEN HttpStatus(op, code)
                                          ELSE GrpcStatus(code)

-----------------------------------------------------------------------------
(* The process.                                                            *)

\* The process ends, and with it whatever was in flight.
Exit(how) ==
    /\ main' = "down" /\ serve' = "none" /\ exit' = how
    /\ handle' = FALSE /\ req' = [r \in Requests |-> Idle]
    /\ UNCHANGED <<transport, database>>

Moves(from, to) == main = from /\ main' = to
ProcessUnchanged == UNCHANGED <<transport, main, serve, exit, handle, database>>

\* Connect: a driver that is missing, unknown or fails to connect leaves the
\* process without a database for all its life.
Connect(driver) == driver = "mysql" /\ database

\* Boot or BootGRPC, up to the start of the serving goroutine.
Boot ==
    \E driver \in Drivers :
        /\ Moves("down", IF transport = "grpc" THEN "listen" ELSE "notify")
        /\ serve' = IF transport = "grpc" THEN "none" ELSE "start"
        /\ handle' = Connect(driver)
        /\ exit' = "none"
        /\ UNCHANGED <<transport, database, req>>

\* net.Listen of the gRPC server; its error is main's.
Listen ==
    /\ Moves("listen", "notify") /\ serve' = "start"
    /\ UNCHANGED <<transport, exit, handle, database, req>>
ListenFails == main = "listen" /\ Exit("error")

\* ListenAndServe, or Serve, before a signal was handled.
Serve ==
    /\ serve = "start" /\ main # "stop"
    /\ serve' = "open"
    /\ UNCHANGED <<transport, main, exit, handle, database, req>>

\* After Shutdown, ListenAndServe returns ErrServerClosed and all is well; Serve
\* returns ErrServerStopped, which is taken for a failure.
ServeTooLate ==
    /\ serve = "start" /\ main = "stop"
    /\ IF transport = "grpc" THEN Exit("error")
       ELSE /\ serve' = "closed"
            /\ UNCHANGED <<transport, main, exit, handle, database, req>>

\* The port is taken, or the listener breaks: os.Exit(1) from the goroutine.
ServeFails ==
    /\ serve = "open" \/ (serve = "start" /\ transport = "http")
    /\ main # "stop"
    /\ Exit("error")

Notify ==
    /\ Moves("notify", "wait")
    /\ UNCHANGED <<transport, serve, exit, handle, database, req>>

\* SIGINT or SIGTERM.  It kills a process that has not asked for it yet, and is
\* swallowed by one that is stopping.
Signal ==
    \/ main \in {"listen", "notify"} /\ Exit("killed")
    \/ /\ Moves("wait", "quit")
       /\ UNCHANGED <<transport, serve, exit, handle, database, req>>

\* MUTANT: the listener stays open.
BeginStopOpen ==
    /\ Moves("quit", "stop")
    /\ UNCHANGED <<transport, serve, exit, handle, database, req>>

\* Shutdown or GracefulStop: first the listener is closed.
BeginStop ==
    /\ Moves("quit", "stop")
    /\ serve' = IF serve = "open" THEN "closed" ELSE serve
    /\ UNCHANGED <<transport, exit, handle, database, req>>

\* MUTANT: Close instead of Shutdown, Stop instead of GracefulStop.
StopAtOnce == main = "stop" /\ Exit("ok")

\* Nothing is in flight any more.
Stopped ==
    /\ main = "stop" /\ \A r \in Requests : ~InFlight(r)
    /\ Exit("ok")

\* MUTANT: a context without a timeout.
GraceOverNever == FALSE /\ Exit("error")

\* The ten seconds of the HTTP server are over; Run returns the error.
GraceOver ==
    /\ transport = "http" /\ main = "stop"
    /\ \E r \in Requests : InFlight(r)
    /\ Exit("error")

\* Anything else that ends a process.
Crash == main # "down" /\ Exit("killed")

\* MySQL goes away and comes back.
Toggle == database' = ~database /\ UNCHANGED <<transport, main, serve, exit, handle, req>>

-----------------------------------------------------------------------------
(* A request.                                                              *)

Answer(r, code) ==
    req' = [req EXCEPT ![r] = [@ EXCEPT !.at = "answered", !.todo = <<>>,
                                        !.status = Status(req[r].op, code)]]

Sends == IF transport = "http" THEN Sent({Absent, Given, Garbled}, Bodies)
                               ELSE Sent({Absent, Given}, Bodies)
Handler(op, in) == IF transport = "http" THEN HttpHandler(op, in)
                                         ELSE GrpcHandler(op, in)

\* A request comes in and is decoded.
Accept(r) ==
    \E op \in Asks[r] \cap (IF transport = "http" THEN HttpRoutes ELSE GrpcMethods) :
        /\ serve = "open" /\ At(r, "idle")
        /\ \E in \in IF op \in Unhandled THEN {Plain} ELSE Sends[op] :
              req' = [req EXCEPT ![r] = [Idle EXCEPT !.at = "running", !.op = op,
                                                     !.todo = Handler(op, in)]]
        /\ ProcessUnchanged

Running(r) == At(r, "running")
Next1(r)   == req[r].todo[1]
Calling(r) == Running(r) /\ req[r].todo # <<>> /\ Next1(r).call # NoCall

\* What the call committed.
Wrote(r) == req[r].wrote \cup ({Next1(r).call} \cap Writes)

\* The call answers, and the use case goes on.
Goes(r) ==
    /\ Calling(r) /\ handle /\ database
    /\ req' = [req EXCEPT ![r] = [@ EXCEPT !.todo = Tail(req[r].todo), !.wrote = Wrote(r)]]
    /\ ProcessUnchanged

\* What was read makes the call needless.
Skips(r) ==
    /\ Calling(r) /\ Next1(r).skip
    /\ req' = [req EXCEPT ![r] = [@ EXCEPT !.todo = Tail(req[r].todo)]]
    /\ ProcessUnchanged

\* The input, or the answer of the call, is refused.
Refuses(r) ==
    /\ Running(r) /\ req[r].todo # <<>> /\ Next1(r).refusal # Never
    /\ Next1(r).call # NoCall => handle /\ database
    /\ Answer(r, Next1(r).refusal)
    /\ ProcessUnchanged

\* MUTANT: an error is logged, and the use case goes on.
FailsAndGoesOn(r) ==
    /\ Calling(r)
    /\ req' = [req EXCEPT ![r] = [@ EXCEPT !.todo = Tail(req[r].todo)]]
    /\ ProcessUnchanged

\* A repository of a process without a database answers Unavailable, any other
\* error is internal.
Fails(r) ==
    /\ Calling(r)
    /\ Answer(r, IF Next1(r).swallow THEN OK
                 ELSE IF handle THEN Internal ELSE Unavailable)
    /\ ProcessUnchanged

\* The connection breaks when the call has committed already.
FailsLate(r) ==
    /\ Calling(r) /\ handle /\ Next1(r).call \in Writes
    /\ req' = [req EXCEPT ![r] = [@ EXCEPT !.at = "answered", !.todo = <<>>,
                                           !.wrote = Wrote(r),
                                           !.status = Status(req[r].op,
                                               IF Next1(r).swallow THEN OK ELSE Internal)]]
    /\ ProcessUnchanged

\* The database does not answer, and no call has a deadline.
Hangs(r) ==
    /\ Calling(r) /\ handle
    /\ req' = [req EXCEPT ![r] = [@ EXCEPT !.at = "hung"]]
    /\ ProcessUnchanged
Resumes(r) ==
    /\ At(r, "hung")
    /\ req' = [req EXCEPT ![r] = [@ EXCEPT !.at = "running"]]
    /\ ProcessUnchanged

\* Recovery turns a panic of a handler into an internal error.
Panics(r) ==
    /\ Running(r) /\ req[r].op \notin Unhandled
    /\ Answer(r, Internal)
    /\ ProcessUnchanged

Finishes(r) ==
    /\ Running(r) /\ req[r].todo = <<>>
    /\ Answer(r, OK)
    /\ ProcessUnchanged

\* The client has its answer.
Forget(r) ==
    /\ At(r, "answered")
    /\ req' = [req EXCEPT ![r] = Idle]
    /\ ProcessUnchanged

-----------------------------------------------------------------------------
Init ==
    /\ transport \in {"http", "grpc"}
    /\ main = "down" /\ serve = "none" /\ exit = "none"
    /\ handle = FALSE /\ database \in BOOLEAN
    /\ req = [r \in Requests |-> Idle]

ProcessStep ==
    \/ Boot \/ Listen \/ ListenFails \/ Serve \/ ServeTooLate \/ ServeFails
    \/ Notify \/ Signal \/ BeginStop \/ Stopped \/ GraceOver \/ Crash \/ Toggle

\* A handler that is not waiting for the database takes its next step.
Proceeds(r) == \/ Goes(r) \/ Skips(r) \/ Refuses(r) \/ Fails(r) \/ FailsLate(r)
               \/ Panics(r) \/ Finishes(r)

RequestStep(r) == Accept(r) \/ Proceeds(r) \/ Hangs(r) \/ Resumes(r) \/ Forget(r)

Next == ProcessStep \/ \E r \in Requests : RequestStep(r)

Spec == Init /\ [][Next]_vars

\* Goroutines and timers run; nothing makes a client, a signal, a failure or
\* the database act.
Fairness == /\ WF_vars(BeginStop) /\ WF_vars(Stopped) /\ WF_vars(GraceOver)
            /\ \A r \in Requests : WF_vars(Proceeds(r))

FairSpec == Spec /\ Fairness

-----------------------------------------------------------------------------
(* Properties.                                                             *)

TypeOK ==
    /\ transport \in {"http", "grpc"}
    /\ main \in MainStates /\ serve \in ServeStates /\ exit \in Exits
    /\ handle \in BOOLEAN /\ database \in BOOLEAN
    /\ \A r \in Requests :
         /\ req[r].at \in {"idle", "running", "hung", "answered"}
         /\ req[r].wrote \subseteq Writes
         /\ At(r, "answered") => req[r].status \in Statuses

\* A client that is refused (404, 422) has changed nothing, wherever in the use
\* case the refusal came.
RefusedWroteNothing ==
    \A r \in Requests : req[r].status \in Refused => req[r].wrote = {}

\* A client that is answered with success has everything it asked for in the
\* database: an error on the way is never lost, except after MarkStatus.
Promised(op) ==
    CASE op = "CreateKompetitor"  -> {"Create"}
      [] op = "UpdateKompetitor"  -> {"Update"}
      [] op = "DeleteKompetitor"  -> {"Delete"}
      [] op = "MappingCellUpdate" -> {"SyncCell"}
      [] op = "ImportProducts"    -> {"FirstOrCreateBatch", "ReplaceProducts",
                                      "ComputeSummaries", "MarkStatus"}
      [] OTHER                    -> {}
DoneWroteAll ==
    \A r \in Requests : req[r].status \in Done => Promised(req[r].op) \subseteq req[r].wrote

\* A process that ends with the exit code 0 has answered every request it took.
CleanExitAnswersAll ==
    [][main # "down" /\ exit' = "ok" => \A r \in Requests : ~InFlight(r)]_vars

\* Once it has a signal, the REST process ends, whatever its requests wait for:
\* "allowing in-flight requests up to 10s to complete".
HttpStops == main = "quit" /\ transport = "http" ~> main = "down"

\* The gRPC process ends too if no call waits for the database forever: no new
\* request keeps it from ending.
GrpcStops == <>[](\A r \in Requests : ~At(r, "hung"))
                => (main = "quit" ~> main = "down")

\* A process that is stopping works off what it has: it takes no request, and
\* what is left to do of a request never grows.
StoppingDrains ==
    [][main = "stop" /\ main' = "stop" =>
          \A r \in Requests : InFlight(r)' =>
              InFlight(r) /\ Len(req'[r].todo) <= Len(req[r].todo)]_vars

Told(status) ==
    IF status \in Done THEN "done" ELSE IF status \in Refused THEN "refused"
    ELSE IF status \in NoDb THEN "unavailable" ELSE "broken"

\* A request as its client sees it.
Seen(q) ==
    [at     |-> IF q.at = "idle" THEN "away"
                ELSE IF q.at = "answered" THEN "told" ELSE "waiting",
     op     |-> q.op,
     stored |-> q.wrote,
     told   |-> IF q.at = "answered" THEN Told(q.status) ELSE ""]

\* What the clients see of a process.
Promise == INSTANCE Serving WITH
    Clients    <- Requests,
    Operations <- HttpRoutes,
    Effects    <- Writes,
    Due        <- [op \in HttpRoutes |-> Promised(op)],
    Plain      <- Unhandled,
    process    <- IF main = "down" THEN "down"
                  ELSE IF main = "stop" THEN "stopping" ELSE "up",
    ended      <- exit,
    equipped   <- handle,
    client     <- [r \in Requests |-> Seen(req[r])]

\* Over either transport, and whatever fails, a process is one its clients can
\* rely on: what it says agrees with what it stored and with how it ends.
ImplementsServing == Promise!Spec
=============================================================================
