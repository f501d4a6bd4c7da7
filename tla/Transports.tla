----------------------------- MODULE Transports -----------------------------
(***************************************************************************)
(* The two ways to a use case: the routes and controllers of the REST API, *)
(* which the Laravel portal calls, and the gRPC methods for other          *)
(* services.  A handler decodes the request, makes one call of the service *)
(* and turns its error into a status.                                      *)
(***************************************************************************)
EXTENDS UseCases

-----------------------------------------------------------------------------
(* HTTP.                                                                   *)

\* /health and the CORS preflight are answered without a use case.
Unhandled == {"Health", "Preflight"}

HttpRoutes == Operations \cup Unhandled

\* pathID refuses an id it cannot read; a query's id just reads as absent.
PathId(in)  == in.id = Given
QueryId(id) == IF id = Garbled THEN Absent ELSE id

\* Store ignores an id in its body.
HttpSave(op, in) ==
    IF in.body = "garbled" \/ (op = "UpdateKompetitor" /\ ~PathId(in)) THEN Refuse
    ELSE Handled(op, IF op = "CreateKompetitor" THEN [in EXCEPT !.id = Absent] ELSE in)

HttpDelete(op, in) == IF PathId(in) THEN Handled(op, in) ELSE Refuse

\* A garbled kategori asks for the universal cell.
HttpCell(op, in) ==
    Handled(op, [in EXCEPT !.id = QueryId(@), !.kategori = QueryId(@)])

HttpBody(op, in) == IF in.body = "garbled" THEN Refuse ELSE Handled(op, in)

HttpHandler(op, in) ==
    CASE op \in Unhandled                                  -> <<>>
      [] op \in {"CreateKompetitor", "UpdateKompetitor"}   -> HttpSave(op, in)
      [] op = "DeleteKompetitor"                           -> HttpDelete(op, in)
      [] op = "MappingCell"                                -> HttpCell(op, in)
      [] op \in {"MappingCellUpdate", "ImportProducts"}    -> HttpBody(op, in)
      [] OTHER                                             -> Handled(op, in)

\* MUTANT: the code of the error is sent as it is.
HttpStatusRaw(op, code) == code

HttpStatus(op, code) ==
    CASE code = OK -> IF op = "CreateKompetitor" THEN "201"
                      ELSE IF op = "Preflight" THEN "204" ELSE "200"
      [] code = InvalidInput -> "422"
      [] code = NotFound     -> "404"
      [] code = Unavailable  -> "503"
      [] OTHER               -> "500"

-----------------------------------------------------------------------------
(* gRPC.                                                                   *)

GrpcMethods == Operations

\* Bytes that are no message do not reach the interceptors.
Undecoded == <<[Must(NoCall) EXCEPT !.refusal = Internal]>>

\* An unset id is handed over as 0; CreateKompetitor hands over its id too.
GrpcHandler(op, in) ==
    IF in.body = "garbled" THEN Undecoded ELSE Handled(op, in)

GrpcStatus(code) ==
    CASE code = OK           -> "OK"
      [] code = NotFound     -> "NotFound"
      [] code = InvalidInput -> "InvalidArgument"
      [] code = Unavailable  -> "Unavailable"
      [] OTHER               -> "Internal"

-----------------------------------------------------------------------------
\* What the statuses tell a client.
Done     == {"200", "201", "204", "OK"}
Refused  == {"404", "422", "NotFound", "InvalidArgument"}
NoDb     == {"503", "Unavailable"}
Broken   == {"500", "Internal"}
Statuses == Done \cup Refused \cup NoDb \cup Broken
=============================================================================
