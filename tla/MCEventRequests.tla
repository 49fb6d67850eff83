--------------------------- MODULE MCEventRequests ---------------------------
(***************************************************************************)
(* Two threads over one account with an opening position of two units: a   *)
(* sale at a loss in year 1, a sale at a gain in year 2 and a purchase in  *)
(* year 1 that changes the result of both, also with refused tax facts.    *)
(***************************************************************************)
EXTENDS EventRequests, TLC

CONSTANT a1

Draft(type, trade, brl) ==
  [type |-> type, account |-> a1, trade |-> trade, receipt |-> trade,
   qty |-> 1, brl |-> brl, taxFactsValid |-> TRUE]

MCOpenings == {[account |-> a1, date |-> 99, qty |-> 2, cost |-> 20]}
MCShare == [a \in {a1} |-> 100]

LossSale == Draft("SELL", 105, 4)
GainSale == Draft("SELL", 207, 13)
CheapBuy == Draft("BUY", 103, 1)

RefusedBuy == [CheapBuy EXCEPT !.taxFactsValid = FALSE]

RequestDrafts == {LossSale, GainSale, CheapBuy, RefusedBuy}
Reopenings == {[account |-> a1, date |-> 299, qty |-> 1, cost |-> 2]}

WorkerSymmetry == Permutations(Workers)
==============================================================================
