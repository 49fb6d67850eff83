------------------------------ MODULE MCCapitals ------------------------------
(***************************************************************************)
(* Three base dates: 31/12 of one year, 30/06 and 31/12 of the next.  Two  *)
(* joint accounts, of which the taxpayer has a half; the first one opens   *)
(* with a unit, gets a dividend, and sends cash and units to the other.    *)
(***************************************************************************)
EXTENDS Capitals

CONSTANTS a1, a2

MCAccounts == {a1, a2}
MCOpening == [a \in MCAccounts |-> IF a = a1 THEN 1 ELSE 0]
MCShare == [a \in MCAccounts |-> 50]
MCYearOfBase == [b \in 1..3 |-> IF b = 1 THEN 1 ELSE 2]
NoFiles == [f \in {} |-> <<>>]

Draft(kind, account, base, cash) ==
  [kind |-> kind, account |-> account, trade |-> base, receipt |-> base,
   qty |-> 1, cash |-> cash, declared |-> TRUE]

MCDrafts == {Draft("DIVIDEND", a1, 1, 3), Draft("BUY", a2, 2, -1)}

(* Cash of 1, and a unit that cost 1. *)
MCTransfers ==
  {[from |-> a1, to |-> a2, trade |-> b, qty |-> q, cash |-> 1] : b \in {1, 3}, q \in {0, 1}}

MCValuations ==
  {[account |-> a1, base |-> 1, value |-> 5, confirmed |-> TRUE]} \cup
  {[account |-> a2, base |-> 3, value |-> 5, confirmed |-> c] : c \in BOOLEAN}
===============================================================================
