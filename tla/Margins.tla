------------------------------ MODULE Margins -------------------------------
(***************************************************************************)
(* The Shopee margin column of a page of Our Product.  The rows of a page  *)
(* are built one after the other; the marketplace fees of a row are read   *)
(* when its fee category is met first and kept for the rest of the request *)
(* (feeCache), while the Laravel application edits them.                   *)
(*                                                                         *)
(* Amounts are whole rupiah and rates are per mille: the arithmetic is the *)
(* code's without its rounding errors.  A margin is in thousandths of a    *)
(* rupiah, and in tenths of a percent of hpp in the answer.                *)
(***************************************************************************)
EXTENDS Matrix, Integers

CONSTANTS
    HargaId,        \* the harga row of each of our items: the primary key,
    Shopee,         \* harga.shopee,
    HppRows,        \* its hpp rows,
    FeeOf,          \* kategori_shopee_id, or None,
    OngkirOf,       \* kategori_free_ongkir_id, or None
    Rates,          \* bound: the rates a fee may be given,
    FirstRates      \* and those they have at first

\* A row of one of the two fee tables.
Fees == {"shopee", "ongkir"} \X
        (({FeeOf[i] : i \in Items} \cup {OngkirOf[i] : i \in Items}) \ {None})

ASSUME MarginsAssumption ==
    /\ HargaId \in [Items -> Nat]
    /\ Shopee \in [Items -> Nat] /\ HppRows \in [Items -> Seq(Nat)]
    /\ Rates \subseteq Nat /\ FirstRates \in [Fees -> Rates]

VARIABLES
    rates,      \* the fee tables; a row that is not there reads 0
    feeCache,   \* feeCache of the request
    margins,    \* MarginShopee of the rows built so far, in tenths of a percent
    heldRates   \* history: the rates a fee has had during the request

feeVars == <<rates, feeCache, margins, heldRates>>

NotRead  == -1
Unpriced == <<>>
NoFees    == [f \in Fees |-> NotRead]
NoMargins == [i \in Items |-> Unpriced]

-----------------------------------------------------------------------------
(* MarginCalculator.                                                       *)

AtMost(cap, x)     == IF x <= cap THEN x ELSE cap
RoundHalfAway(a, b) == IF a >= 0 THEN (2 * a + b) \div (2 * b)
                                 ELSE -((b - 2 * a) \div (2 * b))

\* AVG(hpp), truncated; 0 without rows.
AverageHpp(i) ==
    LET sum[n \in 0..Len(HppRows[i])] ==
            IF n = 0 THEN 0 ELSE sum[n - 1] + HppRows[i][n] IN
    IF HppRows[i] = <<>> THEN 0 ELSE sum[Len(HppRows[i])] \div Len(HppRows[i])

\* ShopeeMarginNilai, with the "biasa" cap; 0 without a fee category or a price.
Nilai(i, hpp, fee, ongkir) ==
    LET harga == Shopee[i] IN
    IF FeeOf[i] = None \/ harga = 0 THEN 0
    ELSE 1000 * (harga - hpp) - harga * fee - AtMost(40000000, harga * ongkir)
           - 5 * harga - AtMost(50000000, 18 * harga)
           - AtMost(60000000, 45 * harga) - harga

\* MarginPersen of the row; an hpp of 0 counts as 1.
Margin(i, fee, ongkir) ==
    LET hpp == AverageHpp(i) IN
    RoundHalfAway(Nilai(i, hpp, fee, ongkir), IF hpp = 0 THEN 1 ELSE hpp)

-----------------------------------------------------------------------------
(* The rows of a page.                                                     *)

FeesOf(i)   == {<<"shopee", FeeOf[i]>>, <<"ongkir", OngkirOf[i]>>} \cap Fees
Rate(k, id) == IF id = None THEN 0 ELSE feeCache[<<k, id>>]

\* The next row: with a price, and without a margin yet.
RowsLeft    == {i \in asked.items : Shopee[i] # 0 /\ margins[i] = Unpriced}
Building(i) == /\ At("answered") /\ i \in RowsLeft
               /\ \A j \in RowsLeft : HargaId[i] <= HargaId[j]
Missing(i)  == {f \in FeesOf(i) : feeCache[f] = NotRead}

\* The request is over, and its feeCache with it.
ForgetPage == feeCache' = NoFees /\ margins' = NoMargins

\* MUTANT: one map for both tables.
LookUpFeeOneMap(i) ==
    \E f \in Missing(i) :
        /\ Building(i)
        /\ f[1] = "ongkir" => <<"shopee", FeeOf[i]>> \notin Missing(i)
        /\ feeCache' = [g \in Fees |-> IF g[2] = f[2] THEN rates[f] ELSE feeCache[g]]
        /\ UNCHANGED <<vars, matrixVars, rates, margins, heldRates>>

\* feeCache.lookup, a statement: the shopee fee comes first.
LookUpFee(i) ==
    \E f \in Missing(i) :
        /\ Building(i)
        /\ f[1] = "ongkir" => <<"shopee", FeeOf[i]>> \notin Missing(i)
        /\ feeCache' = [feeCache EXCEPT ![f] = rates[f]]
        /\ UNCHANGED <<vars, matrixVars, rates, margins, heldRates>>

\* feeCache.lookup fails, and the page with it.
LookUpFails(i) ==
    /\ Building(i) /\ Missing(i) # {}
    /\ Reset /\ ForgetPage
    /\ UNCHANGED <<matrixVars, rates, heldRates>>

\* MUTANT: every row has a feeCache of its own.
PriceRowFreshCache(i) ==
    /\ Building(i) /\ Missing(i) = {}
    /\ margins' = [margins EXCEPT ![i] =
          <<Margin(i, Rate("shopee", FeeOf[i]), Rate("ongkir", OngkirOf[i]))>>]
    /\ feeCache' = NoFees
    /\ UNCHANGED <<vars, matrixVars, rates, heldRates>>

\* The row has its fees.
PriceRow(i) ==
    /\ Building(i) /\ Missing(i) = {}
    /\ margins' = [margins EXCEPT ![i] =
          <<Margin(i, Rate("shopee", FeeOf[i]), Rate("ongkir", OngkirOf[i]))>>]
    /\ UNCHANGED <<vars, matrixVars, rates, feeCache, heldRates>>

\* The Laravel application gives a fee another rate.
EditRate(f) ==
    \E rate \in Rates \ {rates[f]} :
        /\ edits < MaxEdits
        /\ edits' = edits + 1
        /\ rates' = [rates EXCEPT ![f] = rate]
        /\ heldRates' = [heldRates EXCEPT ![f] = @ \cup {rate}]
        /\ UNCHANGED <<cells, request, requests, held, matrixVars, feeCache, margins>>

\* Everything else goes on as before; a page is answered when its rows are built.
Elsewhere ==
    /\ MatrixNext
    /\ At("answered") /\ step' = "idle" => RowsLeft = {}
    /\ IF At("idle") /\ step' # "idle"
       THEN heldRates' = [f \in Fees |-> {rates[f]}]
       ELSE UNCHANGED heldRates
    /\ IF ~At("idle") /\ step' = "idle" THEN ForgetPage
                                        ELSE UNCHANGED <<feeCache, margins>>
    /\ UNCHANGED rates

-----------------------------------------------------------------------------
MarginsInit ==
    /\ MatrixInit
    /\ rates = FirstRates
    /\ feeCache = NoFees /\ margins = NoMargins
    /\ heldRates = [f \in Fees |-> {rates[f]}]

MarginsNext ==
    \/ Elsewhere
    \/ \E i \in Items : LookUpFee(i) \/ LookUpFails(i) \/ PriceRow(i)
    \/ \E f \in Fees : EditRate(f)

MarginsSpec == MarginsInit /\ [][MarginsNext]_<<vars, matrixVars, feeVars>>

-----------------------------------------------------------------------------
(* Properties.                                                             *)

MarginsTypeOK ==
    /\ rates \in [Fees -> Rates]
    /\ feeCache \in [Fees -> Rates \cup {NotRead}]
    /\ margins \in [Items -> Seq(Int)]
    /\ heldRates \in [Fees -> SUBSET Rates]

\* The locals of a page, a cell or the matrix keep their types while it is read,
\* and no cell that a loop of a page needs is left unread.
PagesTypeOK == TypeOK /\ MatrixTypeOK /\ MarginsTypeOK

\* The margin of a row is that of rates its own two fees had during the request,
\* whichever rows before it looked fees up and whatever was edited since.
MarginsOfHeldRates ==
    \A i \in Items : margins[i] # Unpriced =>
        \E fee    \in IF FeeOf[i] = None THEN {0} ELSE heldRates[<<"shopee", FeeOf[i]>>],
           ongkir \in IF OngkirOf[i] = None THEN {0}
                                            ELSE heldRates[<<"ongkir", OngkirOf[i]>>] :
            margins[i] = <<Margin(i, fee, ongkir)>>

\* No more is taken of a further rupiah than there is: the formula takes
\* 0.5%, 1.8%, 4.5% and 0.1%, and the two fees of the row what their rates say.
LeavesAShare(i) ==
    Rate("shopee", FeeOf[i]) + Rate("ongkir", OngkirOf[i]) + 5 + 18 + 45 + 1 <= 1000

\* The rows of a page can be compared: of two rows with the same fee categories
\* and the same hpp the dearer has no lower margin, although a fee may have been
\* edited between the two, unless fees and formula together take more of a
\* further rupiah than there is.
DearerRowEarnsMore ==
    \A i, j \in Items :
        /\ margins[i] # Unpriced /\ margins[j] # Unpriced
        /\ FeeOf[i] = FeeOf[j] /\ OngkirOf[i] = OngkirOf[j]
        /\ AverageHpp(i) = AverageHpp(j) /\ Shopee[i] >= Shopee[j]
        /\ LeavesAShare(i)
        => margins[i][1] >= margins[j][1]
=============================================================================
