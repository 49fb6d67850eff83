---------------------------- MODULE MCReconciliation ----------------------------
(***************************************************************************)
(* Two years, two accounts, the first of which opens with one unit.  One   *)
(* statement has a dividend and a line of an unknown kind in year 1; the   *)
(* other buys one unit and sells two in year 2, which fails in an account  *)
(* that has no other unit.                                                 *)
(***************************************************************************)
EXTENDS Reconciliation

CONSTANTS a1, a2, dividend, trades

MCAccounts == {a1, a2}
MCOpening == [a \in MCAccounts |-> IF a = a1 THEN 1 ELSE 0]

Line(kind, trade, qty, cash) == [kind |-> kind, trade |-> trade, qty |-> qty, cash |-> cash]

MCFiles ==
  [f \in {dividend, trades} |->
     IF f = dividend
     THEN <<Line("DIVIDEND", 1, 1, 1), Line("OTHER", 1, 0, 0)>>
     ELSE <<Line("BUY", 2, 1, -1), Line("SELL", 2, 2, 2)>>]

Draft(kind, account, trade, receipt, cash) ==
  [kind |-> kind, account |-> account, trade |-> trade, receipt |-> receipt,
   qty |-> 1, cash |-> cash, declared |-> TRUE]

(* The dividend declared by hand, in year 1 or in year 2. *)
MCDrafts == {Draft("DIVIDEND", a1, 1, 1, 1), Draft("DIVIDEND", a1, 2, 2, 1)}

(* The unit that is there at first, in either year, and cash in year 2. *)
MCTransfers == {[from |-> a1, to |-> a2, trade |-> y, qty |-> 1, cash |-> 0] : y \in Years}
               \cup {[from |-> a1, to |-> a2, trade |-> 2, qty |-> 0, cash |-> 1]}

Document(account, year, cash, qty) ==
  [account |-> account, year |-> year, cash |-> cash, qty |-> qty]

MCDocuments == {Document(a1, 1, 1, 1), Document(a1, 1, 0, 1), Document(a1, 1, 0, Unlisted),
                Document(a2, 1, 0, 1), Document(a1, 2, 1, 0)}
================================================================================
