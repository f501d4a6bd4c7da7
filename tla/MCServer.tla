------------------------------ MODULE MCServer ------------------------------
(* Instances of Server for TLC.                                            *)
EXTENDS Server, TLC

CONSTANTS r1, r2

\* One request may ask for anything; the other is short, or reads and writes.
AnyAndShort == (r1 :> HttpRoutes) @@ (r2 :> {"Health", "MappingCellUpdate"})
=============================================================================
