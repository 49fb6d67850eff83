--------------------------- MODULE MCAnnualClosing ---------------------------
(***************************************************************************)
(* Small instances of AnnualClosing and AnnualReport.  Two or three years, *)
(* one account with an opening position of a few units, and a handful of   *)
(* drafts: sales at a loss and at a gain, a purchase that changes the      *)
(* average cost, a dividend that the losses are set against.               *)
(***************************************************************************)
EXTENDS AnnualReport

CONSTANT a1

Draft(type, trade, receipt, qty, brl) ==
  [type |-> type, account |-> a1, trade |-> trade, receipt |-> receipt,
   qty |-> qty, brl |-> brl, taxFactsValid |-> TRUE]

(* Opening: three units that cost a third of 29 each. *)
MCOpenings == {[account |-> a1, date |-> 99, qty |-> 3, cost |-> 29]}
MCShare == [a \in {a1} |-> 100]
MCAccounts == {a1}

LossIn(y) == Draft("SELL", 100*y + 5, 100*y + 5, 1, 4)
GainIn(y) == Draft("SELL", 100*y + 7, 100*y + 7, 1, 13)
CheapBuyIn(y) == Draft("BUY", 100*y + 3, 100*y + 3, 1, 1)

(* A dividend traded in year 1 and received in year 2, and one that declares
   withheld tax and names no country. *)
LateDividend == Draft("DIVIDEND", 109, 201, 1, 4)
BadDividend == [LateDividend EXCEPT !.taxFactsValid = FALSE]

(* Losses in year 1 against a dividend of 2 in year 2 and a gain in year 3.
   Sales of four units, out of five that cost 58, round the average cost; a
   purchase of the same date can be corrected after them. *)
SaleOfFour == Draft("SELL", 105, 105, 4, 40)
BuyOfFour == Draft("BUY", 105, 105, 4, 44)
FiveUnits == {[account |-> a1, date |-> 99, qty |-> 5, cost |-> 58]}

LedgerDrafts == {SaleOfFour, BuyOfFour, LateDividend, BadDividend, GainIn(3)}

(* Trades that change the result of the same year and of a later one. *)
CostDrafts == {CheapBuyIn(1), LossIn(1), GainIn(2)}
HalfShare == [a \in {a1} |-> 50]

NoOpenings == {}

(* An opening that replaces the units of the first one, after years 1 and 2
   may be closed and before the sales of year 3: it leaves one unit for two of
   them, and the sales of year 1 at another cost. *)
Reopenings == {[account |-> a1, date |-> 301, qty |-> 1, cost |-> 9]}
==============================================================================
