----------------------------- MODULE MCRegistry -----------------------------
(* Instances of Registry for TLC.                                          *)
EXTENDS Registry, TLC

CONSTANTS w1, w2, a, b

Form(shopee, tokopedia, must) ==
    [shopee |-> shopee, tokopedia |-> tokopedia, must |-> must]

\* Every pair of forms shares a code but the first and the last.
ThreeForms == {Form(a, None, TRUE), Form(a, b, FALSE), Form(None, b, TRUE)}
FirstStore == (1 :> Form(a, None, TRUE)) @@ (2 :> NoStore)
ThirdStore == FirstStore @@ (3 :> NoStore)

Symmetry == Permutations({w1, w2})
=============================================================================
