------------------------------ MODULE MCStats -------------------------------
(* Instances of Stats for TLC.                                             *)
EXTENDS Stats, TLC

\* "OtherTitle", "BlankTitle" and "None" are model values of the cfg files.
CONSTANTS w1, p1, r1, k1, k2, c1, c2, i1

OneWorker    == w1 :> p1
NoItems      == <<>>
NotCovered   == i1 :> {}
BlankOrOther == {{BlankTitle}, {OtherTitle}}
OtherOrItem  == {{OtherTitle}, {OtherTitle, i1}}

CodeSymmetry == Permutations({c1, c2})
=============================================================================
