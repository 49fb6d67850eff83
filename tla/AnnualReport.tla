----------------------------- MODULE AnnualReport -----------------------------
(***************************************************************************)
(* What is shown of a year once it is closed: the assets of the report     *)
(* (fiscal/report.py) and the memória de cálculo (fiscal/memoria.py).      *)
(* Both are computed again whenever they are asked for, from the same      *)
(* events as the tax, each with a walk of its own: there is no state here  *)
(* but that of AnnualClosing.                                              *)
(***************************************************************************)
EXTENDS AnnualClosing

Yearend(year) == 100 * year + 99

-------------------------------------------------------------------------------
(* The assets: PositionService.position, which does not round the cost that
   leaves the books.  The cost is the fraction cost/per. *)

ExactBooks == [qty: Int, cost: Int, per: Int]

ExactlyBooked(books, ev) ==
  IF ev.type = "BUY"
  THEN [books EXCEPT !.qty = @ + ev.qty, !.cost = @ + ev.brl * books.per]
  ELSE IF books.qty = 0
  THEN [books EXCEPT !.qty = -ev.qty]
  ELSE [qty  |-> books.qty - ev.qty,
        cost |-> books.cost * (books.qty - ev.qty),
        per  |-> books.per * books.qty]

ExactWalk(opening, ids) ==
  LET n == Cardinality(ids)
  IN  Iterate([k \in Nat |-> [books \in ExactBooks |->
                 IF k \in 1..n THEN ExactlyBooked(books, events[Nth(events, ids, k)])
                               ELSE books]],
              [qty |-> opening.qty, cost |-> opening.cost, per |-> 1], n)

TradesUpTo(year, account) ==
  {i \in Trades(events, account) : YearOf(events[i].trade) <= year}

(* Mutant: what the account holds today. *)
bens_de_hoje(year, account) ==
  ExactWalk(OpeningBooks(openings, account, Forever), Trades(events, account))

(* What the account held on 31/12 of the year. *)
bens(year, account) ==
  ExactWalk(OpeningBooks(openings, account, Yearend(year)), TradesUpTo(year, account))

-------------------------------------------------------------------------------
(* The memória: the opening position and the events of the year, in the
   order of their dates; a cost that was built up in other years is not in
   it. *)

(* The opening with the lowest id: those there at first come first. *)
PrimeiraAbertura(account) ==
  LET own == {o \in openings : o.account = account}
  IN  IF own = {} THEN [qty |-> 0, cost |-> 0]
      ELSE LET o == CHOOSE o \in own : o \in Openings0 \/ own \cap Openings0 = {}
           IN  [qty |-> o.qty, cost |-> o.cost]

(* What the row of the sale i shows as its result. *)
gain_brl(year, i) ==
  LET account == events[i].account
      before  == Walk(events, PrimeiraAbertura(account),
                      {j \in Trades(events, account) :
                         YearOf(events[j].trade) = year /\ Precedes(events, j, i)})
  IN  events[i].brl - CostSold(before, events[i].qty)

-------------------------------------------------------------------------------
Abs(n) == Larger(n, -n)

SalesUpTo(year, account) ==
  {i \in TradesUpTo(year, account) : events[i].type = "SELL"}

(* What is left of the opening and the purchases once the cost that each
   result was computed with is taken off. *)
CostLeft(year, account) ==
  LET bought == TradesUpTo(year, account) \ SalesUpTo(year, account)
  IN  OpeningBooks(openings, account, Forever).cost
      + Total([i \in bought |-> events[i].brl], Len(events))
      - Total([i \in SalesUpTo(year, account) |->
                 events[i].brl - realized(events, openings, i)], Len(events))

(* The openings of an account are dated up to the year, and up to each of its
   sales until then. *)
OpeningsComeFirst(year, account) ==
  \A o \in openings : o.account = account =>
    /\ o.date <= Yearend(year)
    /\ \A i \in SalesUpTo(year, account) : o.date <= events[i].trade

(* Its purchases of a date were recorded before its sales of that date. *)
PurchasesComeFirst(year, account) ==
  \A i \in SalesUpTo(year, account), j \in TradesUpTo(year, account) \ SalesUpTo(year, account) :
    events[i].trade = events[j].trade => j < i

(* The report of a closed year shows assets at the cost that its results and
   those of the years before it left in the books, although the tax and the
   report walk the events separately and round differently: they are no more
   than half a cent apart for each sale.  That holds of the accounts whose
   openings and purchases come before the sales they cover: a later opening
   is the opening of the results and not of the assets, and the substitute of
   a corrected purchase comes after a sale of its date. *)
AssetsExplained ==
  \A y \in Closed, a \in Accounts :
    AllClosedUpTo(y) /\ OpeningsComeFirst(y, a) /\ PurchasesComeFirst(y, a) =>
      LET shown == bens(y, a)
      IN  2 * Abs(shown.cost - CostLeft(y, a) * shown.per)
            <= Cardinality(SalesUpTo(y, a)) * Abs(shown.per)

(* The memória of a closed year shows for each sale the result that the year
   was closed with.  It fails: a sale of units bought in an earlier year
   shows another cost than the one it was taxed with. *)
MemoriaShowsResults ==
  \A y \in Closed :
    AllClosedUpTo(y) =>
      \A i \in Sales(y) : gain_brl(y, i) = realized(events, openings, i)
===============================================================================
