------------------------------ MODULE MCIngest ------------------------------
(* Instances of Ingest for TLC.                                            *)
EXTENDS Ingest, TLC

\* "OtherTitle", "BlankTitle" and "None" are model values of the cfg files.
CONSTANTS w1, w2, p1, p2, k1, k2, i1, c1

OneProcess   == (w1 :> p1) @@ (w2 :> p1)
TwoProcesses == (w1 :> p1) @@ (w2 :> p2)
NoUniversal == (i1 :> {})
UniversalK2 == (i1 :> {k2})

Files == {{BlankTitle}, {BlankTitle, i1}, {OtherTitle}}

Symmetry == Permutations({k1, k2}) \cup Permutations({w1, w2})
=============================================================================
