----------------------------- MODULE MCMargins ------------------------------
(* Instances of Margins, and with it of Matrix and Matching, for TLC.      *)
EXTENDS Margins, TLC

\* "None" is a model value of the cfg file.
CONSTANTS g1, b1, b2, k1, k2, i1, i2, i3, f1

\* An item with a cell of its own, one without kategori, one without brand.
ItemKategori == (i1 :> g1) @@ (i2 :> None) @@ (i3 :> g1)
ItemBrand    == (i1 :> b1) @@ (i2 :> b1) @@ (i3 :> None)
ThreeRows    == <<k1, k2, k1>>

\* Below the threshold, between, the score 1, and 1 with a rounding error:
\* a tie, a better product first or last.
TwoScores  == {<<0, 2>>, <<2, 2>>, <<2, 3>>, <<4, 3>>}
SameScores == {[i \in Items |-> <<s[1], 2, s[2]>>] : s \in TwoScores}

\* Two rows that differ in price only, one above the cap of free shipping and one
\* below it, by less than a fee's two rates; and a row without hpp and free
\* shipping.  One id names a row of both fee tables.  With one of the rates
\* more is taken of a further rupiah than there is.
RowOrder     == (i1 :> 1) @@ (i2 :> 2) @@ (i3 :> 3)
ShopeePrice  == (i1 :> 1010000) @@ (i2 :> 980000) @@ (i3 :> 100000)
HppOfRows    == (i1 :> <<500000, 500001>>) @@ (i2 :> <<500000>>) @@ (i3 :> <<>>)
FeeCategory  == [i \in Items |-> f1]
FreeShipping == (i1 :> f1) @@ (i2 :> f1) @@ (i3 :> None)
RatesAtFirst == (<<"shopee", f1>> :> 900) @@ (<<"ongkir", f1>> :> 40)
=============================================================================
