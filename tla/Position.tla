------------------------------- MODULE Position -------------------------------
(***************************************************************************)
(* Custody and cost of a brokerage account, after ledger/position.py.      *)
(*                                                                         *)
(* `events' is the table of financial events in id order: events[i] is the *)
(* event of id i.  An account holds one asset here, every query of         *)
(* PositionService being by account and asset.  Quantities are units and   *)
(* amounts are cents of BRL.  A date is the number 100*year + day, and     *)
(* year 1 is the first year after the opening balance (2026).              *)
(***************************************************************************)
EXTENDS Iteration, Sequences, FiniteSets

YearOf(date) == date \div 100

(* 31/12/2025: the opening custody counts from this date on. *)
OPENING_DATE == 99

(* The fiscal year of a fact: an income belongs to the year it is received
   in, everything else to the year of the trade. *)
ano_fiscal_de(ev) ==
  YearOf(IF ev.type = "DIVIDEND" THEN ev.receipt ELSE ev.trade)

(* What an account holds: units and their total cost. *)
Books == [qty: Int, cost: Int]

(* The latest opening position of the account dated up to `until'; nothing
   before the opening date. *)
OpeningBooks(openings, account, until) ==
  LET dated == {o \in openings : o.account = account /\ o.date <= until}
  IN  IF until < OPENING_DATE \/ dated = {}
      THEN [qty |-> 0, cost |-> 0]
      ELSE LET o == CHOOSE o \in dated : \A p \in dated : p.date <= o.date
           IN  [qty |-> o.qty, cost |-> o.cost]

(* Events are applied by trade date, then by id. *)
Precedes(events, i, j) ==
  \/ events[i].trade < events[j].trade
  \/ events[i].trade = events[j].trade /\ i < j

Nth(events, ids, k) ==
  CHOOSE i \in ids : Cardinality({j \in ids : Precedes(events, j, i)}) = k - 1

(* The cost that leaves the books with qty units, at the average cost. *)
CostSold(books, qty) ==
  IF books.qty = 0 THEN 0 ELSE Quantized(books.cost * qty, books.qty)

Booked(books, ev) ==
  IF ev.type = "BUY"
  THEN [qty |-> books.qty + ev.qty, cost |-> books.cost + ev.brl]
  ELSE [qty |-> books.qty - ev.qty, cost |-> books.cost - CostSold(books, ev.qty)]

(* The books after the events `ids', starting from the books `opening'. *)
Walk(events, opening, ids) ==
  LET n == Cardinality(ids)
  IN  Iterate([k \in Nat |-> [books \in Books |->
                 IF k \in 1..n THEN Booked(books, events[Nth(events, ids, k)])
                               ELSE books]],
              opening, n)

(* The events of an account that move its custody. *)
Trades(events, account) ==
  {i \in DOMAIN events : /\ events[i].active
                         /\ events[i].account = account
                         /\ events[i].type \in {"BUY", "SELL"}}

(* A date after every date in use, for the queries that have no limit. *)
Forever == 100 * 100

(* Units held now, whatever the dates of the events. *)
position(events, openings, account) ==
  Walk(events, OpeningBooks(openings, account, Forever), Trades(events, account)).qty

(* Units held at the date of the sale i, the sale itself left out. *)
custody_before(events, openings, i) ==
  Walk(events, OpeningBooks(openings, events[i].account, events[i].trade),
       {j \in Trades(events, events[i].account) :
          j # i /\ events[j].trade <= events[i].trade}).qty

(* The result in BRL of the sale i: its proceeds less the cost of the units
   sold, from the opening position of the latest date. *)
realized(events, openings, i) ==
  LET account == events[i].account
      before  == Walk(events, OpeningBooks(openings, account, Forever),
                      {j \in Trades(events, account) : Precedes(events, j, i)})
  IN  events[i].brl - CostSold(before, events[i].qty)
===============================================================================
