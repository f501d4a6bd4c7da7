------------------------------ MODULE MCPanel -------------------------------
(* Instances of Panel for TLC.                                             *)
EXTENDS Panel, TLC

\* "OtherTitle", "BlankTitle" and "None" are model values of the cfg files.
CONSTANTS w1, p1, p2, r1, k1, k2, i1, c1, c2

OneWorker   == w1 :> p1
SameProcess == r1 :> p1
UniversalK1 == i1 :> {k1}
OneItem     == {{i1}, {OtherTitle}, {BlankTitle}}
=============================================================================
