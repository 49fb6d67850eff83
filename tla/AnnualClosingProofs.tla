-------------------------- MODULE AnnualClosingProofs --------------------------
(***************************************************************************)
(* For any years, accounts, drafts and bounds, in three parts.             *)
(*                                                                         *)
(* 1. The tables of the closing keep their types, no loss is spent twice   *)
(* or lost, and every compensation belongs to a closed year.  The three    *)
(* hold together: that a compensation goes back into its column needs the  *)
(* conservation of losses, and the conservation needs that an open year    *)
(* has none.                                                               *)
(*                                                                         *)
(* 2. With them, the closing implements module SealedYears: a closed year  *)
(* keeps its facts, its snapshot, what it consumed and what its losses     *)
(* amount to until it is reopened, from the latest year back.              *)
(*                                                                         *)
(* 3. The losses that the closed years deducted are those the ledger gave  *)
(* them, oldest first; what the last of them carries forward is the        *)
(* balance of the ledger; their sales stay covered; and, openings apart,   *)
(* they recompute to their snapshots.  What the report shows of them is    *)
(* explained by their results, as long as openings and purchases come      *)
(* before the sales that they cover.                                       *)
(*                                                                         *)
(* ClosedLedger is the inductive invariant of the third part.  A handler   *)
(* of the ledger (LedgerStep) touches no trade up to a closed year,        *)
(* closing or reopening a year (SparesEarlierYears) touches nothing of the *)
(* years before, and a closing establishes for its year what the invariant *)
(* says (CloseConsumes): the loop of apply_compensation, summed over the   *)
(* open records, takes min(income, balance).                               *)
(***************************************************************************)
EXTENDS AnnualReport, IterationProofs, SequenceTheorems

(* The order of application is a strict total order. *)
LEMMA PrecedesOrder ==
  ASSUME NEW table, NEW ids \in SUBSET Nat,
         \A i \in ids : table[i].trade \in Nat
  PROVE  /\ \A i \in ids : ~ Precedes(table, i, i)
         /\ \A h, i, j \in ids : Precedes(table, h, i) /\ Precedes(table, i, j)
                                 => Precedes(table, h, j)
         /\ \A i, j \in ids : i # j => Precedes(table, i, j) \/ Precedes(table, j, i)
<1>1. \A i \in ids : i \in Nat /\ table[i].trade \in Nat
  OBVIOUS
<1>2. \A i \in ids : ~ Precedes(table, i, i)
  BY <1>1 DEF Precedes
<1>3. ASSUME NEW h \in ids, NEW i \in ids, NEW j \in ids,
             Precedes(table, h, i), Precedes(table, i, j)
      PROVE  Precedes(table, h, j)
  BY <1>1, <1>3 DEF Precedes
<1>4. \A i, j \in ids : i # j => Precedes(table, i, j) \/ Precedes(table, j, i)
  BY <1>1 DEF Precedes
<1>. QED BY <1>2, <1>3, <1>4

(* The order of application as a set of pairs. *)
Precedence(table, ids) == {p \in ids \X ids : Precedes(table, p[1], p[2])}

LEMMA PrecedenceOrders ==
  ASSUME NEW table, NEW ids \in SUBSET Nat, IsFiniteSet(ids),
         \A i \in ids : table[i].trade \in Nat
  PROVE  /\ TotallyOrdered(Precedence(table, ids), ids)
         /\ \A i, j \in ids :
              <<i, j>> \in Precedence(table, ids) <=> Precedes(table, i, j)
         /\ \A i \in ids :
              Below(Precedence(table, ids), ids, i) = {j \in ids : Precedes(table, j, i)}
<1>1. \A i, j \in ids : <<i, j>> \in Precedence(table, ids) <=> Precedes(table, i, j)
  BY DEF Precedence
<1>2. /\ \A i \in ids : ~ Precedes(table, i, i)
      /\ \A h, i, j \in ids : Precedes(table, h, i) /\ Precedes(table, i, j)
                              => Precedes(table, h, j)
      /\ \A i, j \in ids : i # j => Precedes(table, i, j) \/ Precedes(table, j, i)
  BY PrecedesOrder
<1>3. TotallyOrdered(Precedence(table, ids), ids)
  BY <1>1, <1>2 DEF TotallyOrdered, Ordered
<1>4. \A i \in ids :
        Below(Precedence(table, ids), ids, i) = {j \in ids : Precedes(table, j, i)}
  BY <1>1 DEF Below
<1>. QED BY <1>1, <1>3, <1>4

(* The order of application is total: every finite set of events that carry
   a trade date has a k-th event for each k up to its size. *)
LEMMA NthExists ==
  ASSUME NEW table, NEW ids \in SUBSET Nat, IsFiniteSet(ids),
         \A i \in ids : table[i].trade \in Nat
  PROVE  /\ Cardinality(ids) \in Nat
         /\ \A k \in 1..Cardinality(ids) :
              /\ Nth(table, ids, k) \in ids
              /\ \A i \in ids :
                   Cardinality({j \in ids : Precedes(table, j, i)}) = k - 1
                     <=> i = Nth(table, ids, k)
<1>. DEFINE n == Cardinality(ids)
            Before(i) == {j \in ids : Precedes(table, j, i)}
            R == Precedence(table, ids)
<1>1. /\ TotallyOrdered(R, ids)
      /\ \A i \in ids : Below(R, ids, i) = Before(i)
  BY PrecedenceOrders
<1>. HIDE DEF Before, R
<1>2. /\ n \in Nat
      /\ \A i, j \in ids : Cardinality(Before(i)) = Cardinality(Before(j)) => i = j
      /\ \A k \in 1..n : \E i \in ids : Cardinality(Before(i)) = k - 1
  <2>0. TotallyOrdered(R, ids)
    BY <1>1
  <2>1. Cardinality(ids) \in Nat
    BY <2>0, RankOnce
  <2>2. \A i, j \in ids : Cardinality(Below(R, ids, i)) = Cardinality(Below(R, ids, j)) => i = j
    BY <2>0, <2>1, RankOnce
  <2>3. \A k \in 0..(Cardinality(ids) - 1) : IsRank(R, ids, k)
    BY <2>0, RankTaken
  <2>4. \A k \in 1..Cardinality(ids) : IsRank(R, ids, k - 1)
    BY <2>1, <2>3
  <2>. QED BY <1>1, <2>1, <2>2, <2>4 DEF IsRank
<1>3. ASSUME NEW k \in 1..n
      PROVE  /\ Nth(table, ids, k) \in ids
             /\ \A i \in ids : Cardinality(Before(i)) = k - 1 <=> i = Nth(table, ids, k)
  <2>1. Nth(table, ids, k) = CHOOSE h \in ids : Cardinality(Before(h)) = k - 1
    BY DEF Nth, Before
  <2>2. Nth(table, ids, k) \in ids /\ Cardinality(Before(Nth(table, ids, k))) = k - 1
    BY <1>2, <2>1
  <2>. QED BY <1>2, <2>2
<1>. QED BY <1>2, <1>3, Zenon DEF Before

-------------------------------------------------------------------------------
LEMMA CostSoldInt ==
  ASSUME NEW books \in Books, NEW qty \in Int
  PROVE  CostSold(books, qty) \in Int
<1>1. books.qty \in Int /\ books.cost * qty \in Int
  BY DEF Books
<1>2. CASE books.qty = 0
  BY <1>2 DEF CostSold
<1>3. CASE books.qty # 0
  BY <1>1, <1>3, QuantizedInt DEF CostSold
<1>. QED BY <1>2, <1>3

(* The columns of an event that the walk reads. *)
Bookable(ev) == ev.trade \in Nat /\ ev.qty \in Int /\ ev.brl \in Int

LEMMA BookedInBooks ==
  ASSUME NEW books \in Books, NEW ev, Bookable(ev)
  PROVE  Booked(books, ev) \in Books
<1>1. books.qty \in Int /\ books.cost \in Int
  BY DEF Books
<1>2. CostSold(books, ev.qty) \in Int
  BY CostSoldInt DEF Bookable
<1>3. CASE ev.type = "BUY"
  BY <1>1, <1>3 DEF Booked, Books, Bookable
<1>4. CASE ev.type # "BUY"
  BY <1>1, <1>2, <1>4 DEF Booked, Books, Bookable
<1>. QED BY <1>3, <1>4

(* PositionService: whatever the trades, the books hold whole units and
   whole cents; a walk without trades returns the opening. *)
THEOREM WalkInBooks ==
  ASSUME NEW table, NEW opening \in Books,
         NEW ids \in SUBSET Nat, IsFiniteSet(ids),
         \A i \in ids : Bookable(table[i])
  PROVE  /\ Walk(table, opening, ids) \in Books
         /\ ids = {} => Walk(table, opening, ids) = opening
<1>. DEFINE n == Cardinality(ids)
            step == [k \in Nat |-> [books \in Books |->
                       IF k \in 1..n THEN Booked(books, table[Nth(table, ids, k)])
                                     ELSE books]]
<1>1. n \in Nat /\ \A k \in 1..n : Nth(table, ids, k) \in ids
  BY NthExists DEF Bookable
<1>2. ASSUME NEW k \in Nat, NEW books \in Books
      PROVE  (IF k \in 1..n THEN Booked(books, table[Nth(table, ids, k)])
                            ELSE books) \in Books
  <2>1. CASE k \in 1..n
    BY <1>1, <2>1, BookedInBooks
  <2>2. CASE k \notin 1..n
    BY <2>2
  <2>. QED BY <2>1, <2>2
<1>3. step \in [Nat -> [Books -> Books]]
  BY <1>2
<1>4. Walk(table, opening, ids) = Iterate(step, opening, n)
  BY DEF Walk
<1>. HIDE DEF step
<1>5. Iterate(step, opening, 0) = opening /\ Iterate(step, opening, n) \in Books
  BY <1>1, <1>3, IterateRounds
<1>6. ids = {} => n = 0
  BY FS_EmptySet
<1>. QED BY <1>4, <1>5, <1>6

(* The walk reads nothing but the table of its set. *)
LEMMA WalkSame ==
  ASSUME NEW evs, NEW evs2, NEW opening, NEW ids \in SUBSET Nat, IsFiniteSet(ids),
         \A i \in ids : evs[i].trade \in Nat /\ evs2[i] = evs[i]
  PROVE  Walk(evs2, opening, ids) = Walk(evs, opening, ids)
<1>. DEFINE n == Cardinality(ids)
<1>1. /\ n \in Nat
      /\ \A k \in 1..n :
           /\ Nth(evs, ids, k) \in ids
           /\ \A i \in ids : Cardinality({j \in ids : Precedes(evs, j, i)}) = k - 1
                             <=> i = Nth(evs, ids, k)
  BY NthExists
<1>2. \A k \in 1..n :
        /\ Nth(evs2, ids, k) \in ids
        /\ \A i \in ids : Cardinality({j \in ids : Precedes(evs2, j, i)}) = k - 1
                          <=> i = Nth(evs2, ids, k)
  <2>1. \A i \in ids : evs2[i].trade \in Nat
    OBVIOUS
  <2>. QED BY <2>1, NthExists
<1>3. \A i \in ids : {j \in ids : Precedes(evs2, j, i)} = {j \in ids : Precedes(evs, j, i)}
  BY DEF Precedes
<1>4. \A k \in 1..n : Nth(evs2, ids, k) = Nth(evs, ids, k) /\ Nth(evs, ids, k) \in ids
  <2>. TAKE k \in 1..n
  <2>1. Cardinality({j \in ids : Precedes(evs2, j, Nth(evs2, ids, k))}) = k - 1
    BY <1>2
  <2>2. Cardinality({j \in ids : Precedes(evs, j, Nth(evs2, ids, k))}) = k - 1
    BY <1>2, <1>3, <2>1
  <2>. QED BY <1>1, <1>2, <2>2
<1>5. \A k \in 1..n : evs2[Nth(evs2, ids, k)] = evs[Nth(evs, ids, k)]
  BY <1>4
<1>. DEFINE step == [k \in Nat |-> [books \in Books |->
                       IF k \in 1..n THEN Booked(books, evs[Nth(evs, ids, k)]) ELSE books]]
            step2 == [k \in Nat |-> [books \in Books |->
                       IF k \in 1..n THEN Booked(books, evs2[Nth(evs2, ids, k)]) ELSE books]]
<1>6. step2 = step
  BY <1>5
<1>7. Walk(evs, opening, ids) = Iterate(step, opening, n)
  BY DEF Walk
<1>8. Walk(evs2, opening, ids) = Iterate(step2, opening, n)
  BY DEF Walk
<1>. HIDE DEF step, step2
<1>. QED BY <1>6, <1>7, <1>8

(* Among openings dated up to a limit there is a latest one. *)
LEMMA OpeningInBooks ==
  ASSUME NEW initial,
         \A o \in initial : o.date \in Nat /\ o.qty \in Int /\ o.cost \in Int,
         NEW account, NEW until \in Nat
  PROVE  OpeningBooks(initial, account, until) \in Books
<1>. DEFINE dated == {o \in initial : o.account = account /\ o.date <= until}
            ages == {until - o.date : o \in dated}
            latest == CHOOSE o \in dated : \A p \in dated : p.date <= o.date
<1>1. CASE until < OPENING_DATE \/ dated = {}
  BY <1>1 DEF OpeningBooks, Books
<1>2. CASE ~ (until < OPENING_DATE \/ dated = {})
  <2>1. ages \subseteq Nat /\ ages # {}
    BY <1>2
  <2>. HIDE DEF ages
  <2>2. PICK a \in ages : \A b \in ages : a <= b
    BY <2>1, LeastNatural
  <2>. USE DEF ages
  <2>3. PICK o \in dated : a = until - o.date
    OBVIOUS
  <2>4. \A p \in dated : p.date <= o.date
    <3>. TAKE p \in dated
    <3>1. until - p.date \in ages /\ p.date \in Nat /\ o.date \in Nat
      OBVIOUS
    <3>2. until - o.date <= until - p.date
      BY <3>1, <2>2, <2>3
    <3>. QED BY <3>1, <3>2
  <2>5. latest \in dated
    BY <2>4
  <2>6. OpeningBooks(initial, account, until) = [qty |-> latest.qty, cost |-> latest.cost]
    BY <1>2 DEF OpeningBooks
  <2>. HIDE DEF latest
  <2>. QED BY <2>5, <2>6 DEF Books
<1>. QED BY <1>1, <1>2

(* The trades of ids that come before i. *)
Earlier(table, ids, i) == {j \in ids : Precedes(table, j, i)}

Datable(table, ids) == \A i \in ids : Bookable(table[i])

(* What holds of no trades and, with the trades that come before one, of
   those and that one, holds of all. *)
HoldsInTime(table, ids, P) ==
  /\ {} \in P
  /\ \A l \in ids : Earlier(table, ids, l) \in P => Earlier(table, ids, l) \cup {l} \in P

LEMMA InductionInTime ==
  ASSUME NEW table, NEW ids \in SUBSET Nat, IsFiniteSet(ids), Datable(table, ids),
         NEW P, HoldsInTime(table, ids, P)
  PROVE  ids \in P
<1>. DEFINE R == Precedence(table, ids)
<1>1. \A i \in ids : table[i].trade \in Nat
  BY DEF Datable, Bookable
<1>2. TotallyOrdered(R, ids) /\ \A i \in ids : Below(R, ids, i) = Earlier(table, ids, i)
  BY <1>1, PrecedenceOrders DEF Earlier
<1>. HIDE DEF R
<1>3. HoldsAlong(R, ids, P)
  BY <1>2 DEF HoldsAlong, HoldsInTime
<1>. QED BY <1>2, <1>3, OrderInduction

LEMMA EarlierFinite ==
  ASSUME NEW table, NEW ids \in SUBSET Nat, IsFiniteSet(ids), Datable(table, ids),
         NEW l \in ids
  PROVE  IsFiniteSet(Earlier(table, ids, l)) /\ l \notin Earlier(table, ids, l)
<1>1. \A i \in ids : table[i].trade \in Nat
  BY DEF Datable, Bookable
<1>2. ~ Precedes(table, l, l)
  BY <1>1, PrecedesOrder
<1>3. Earlier(table, ids, l) \subseteq ids
  BY DEF Earlier
<1>4. IsFiniteSet(Earlier(table, ids, l))
  BY <1>3, FS_Subset
<1>. QED BY <1>2, <1>4 DEF Earlier

(* The last trade of a walk is its last round, and the rounds before it are
   those of the walk without it. *)
LEMMA LastRound ==
  ASSUME NEW table, NEW ids \in SUBSET Nat, IsFiniteSet(ids), Datable(table, ids),
         NEW l \in ids, NEW S, S = Earlier(table, ids, l)
  PROVE  /\ S \in SUBSET Nat /\ IsFiniteSet(S) /\ l \notin S
         /\ S \cup {l} \in SUBSET ids /\ IsFiniteSet(S \cup {l})
         /\ Cardinality(S) \in Nat /\ Cardinality(S \cup {l}) = Cardinality(S) + 1
         /\ Nth(table, S \cup {l}, Cardinality(S) + 1) = l
         /\ \A k \in 1..Cardinality(S) :
              Nth(table, S, k) \in S /\ Nth(table, S \cup {l}, k) = Nth(table, S, k)
<1>. DEFINE U == S \cup {l}
            before(V, i) == {j \in V : Precedes(table, j, i)}
<1>0. \A i \in ids : table[i].trade \in Nat
  BY DEF Datable, Bookable
<1>1. /\ \A i \in ids : ~ Precedes(table, i, i)
      /\ \A h, i, j \in ids : Precedes(table, h, i) /\ Precedes(table, i, j)
                              => Precedes(table, h, j)
  BY <1>0, PrecedesOrder
<1>2. S \subseteq ids /\ l \notin S /\ \A i \in S : Precedes(table, i, l)
  BY <1>1 DEF Earlier
<1>3. U \subseteq ids /\ IsFiniteSet(S) /\ IsFiniteSet(U)
  BY <1>2, FS_Subset
<1>4. Cardinality(S) \in Nat /\ Cardinality(U) = Cardinality(S) + 1
  BY <1>2, <1>3, FS_AddElement, FS_CardinalityType
<1>5. before(U, l) = S /\ \A i \in S : before(U, i) = before(S, i)
  BY <1>1, <1>2
<1>. HIDE DEF before
<1>6. /\ \A k \in 1..Cardinality(S) :
           /\ Nth(table, S, k) \in S
           /\ \A i \in S : Cardinality(before(S, i)) = k - 1 <=> i = Nth(table, S, k)
  <2>1. S \in SUBSET Nat /\ \A i \in S : table[i].trade \in Nat
    BY <1>0, <1>2
  <2>. QED BY <1>3, <2>1, NthExists DEF before
<1>7. /\ \A k \in 1..Cardinality(U) :
           /\ Nth(table, U, k) \in U
           /\ \A i \in U : Cardinality(before(U, i)) = k - 1 <=> i = Nth(table, U, k)
  <2>1. U \in SUBSET Nat /\ \A i \in U : table[i].trade \in Nat
    BY <1>0, <1>3
  <2>. HIDE DEF U
  <2>. QED BY <1>3, <2>1, NthExists DEF before
<1>. HIDE DEF U
<1>8. l \in U /\ S \subseteq U
  BY DEF U
<1>9. Nth(table, U, Cardinality(S) + 1) = l
  <2>1. Cardinality(S) + 1 \in 1..Cardinality(U) /\ (Cardinality(S) + 1) - 1 = Cardinality(S)
    BY <1>4
  <2>2. Cardinality(before(U, l)) = (Cardinality(S) + 1) - 1
    BY <1>5, <2>1
  <2>. QED BY <1>7, <1>8, <2>1, <2>2
<1>10. ASSUME NEW k \in 1..Cardinality(S)
       PROVE  Nth(table, S, k) \in S /\ Nth(table, U, k) = Nth(table, S, k)
  <2>1. Nth(table, S, k) \in S /\ Cardinality(before(S, Nth(table, S, k))) = k - 1
    BY <1>6
  <2>2. Cardinality(before(U, Nth(table, S, k))) = k - 1 /\ Nth(table, S, k) \in U
    BY <1>5, <1>8, <2>1
  <2>3. k \in 1..Cardinality(U)
    BY <1>4
  <2>. QED BY <1>7, <2>1, <2>2, <2>3
<1>. QED BY <1>2, <1>3, <1>4, <1>9, <1>10 DEF U


(* The books after a trade, from the books before it. *)
LEMMA WalkLast ==
  ASSUME NEW table, NEW ids \in SUBSET Nat, IsFiniteSet(ids), Datable(table, ids),
         NEW opening \in Books,
         NEW l \in ids, NEW S, S = Earlier(table, ids, l)
  PROVE  /\ Walk(table, opening, S) \in Books
         /\ Walk(table, opening, S \cup {l}) = Booked(Walk(table, opening, S), table[l])
<1>. DEFINE n == Cardinality(S)
            U == S \cup {l}
            step == [k \in Nat |-> [books \in Books |->
                       IF k \in 1..n THEN Booked(books, table[Nth(table, S, k)])
                                     ELSE books]]
            step2 == [k \in Nat |-> [books \in Books |->
                        IF k \in 1..(n+1) THEN Booked(books, table[Nth(table, U, k)])
                                          ELSE books]]
<1>1. /\ S \in SUBSET Nat /\ IsFiniteSet(S) /\ U \in SUBSET ids
      /\ n \in Nat /\ Cardinality(U) = n + 1
      /\ Nth(table, U, n + 1) = l
      /\ \A k \in 1..n : Nth(table, S, k) \in S /\ Nth(table, U, k) = Nth(table, S, k)
  BY LastRound
<1>2. Walk(table, opening, S) \in Books
  <2>1. \A i \in S : Bookable(table[i])
    BY <1>1 DEF Datable
  <2>. QED BY <1>1, <2>1, WalkInBooks
<1>3. Walk(table, opening, S) = Iterate(step, opening, n)
  BY DEF Walk
<1>4. Walk(table, opening, U) = Iterate(step2, opening, n + 1)
  <2>1. Cardinality(U) = n + 1
    BY <1>1
  <2>. HIDE DEF U, n
  <2>. QED BY <2>1 DEF Walk
<1>. HIDE DEF U, n
<1>5. \A k \in 1..(n+1) : Bookable(table[Nth(table, U, k)])
  <2>. TAKE k \in 1..(n+1)
  <2>1. k = n + 1 \/ k \in 1..n
    BY <1>1
  <2>2. Nth(table, U, k) \in ids
    BY <1>1, <2>1 DEF U
  <2>. QED BY <2>2 DEF Datable
<1>6. \A k \in 1..n : Nth(table, U, k) = Nth(table, S, k) /\ k \in 1..(n+1)
  BY <1>1
<1>7. step \in [Nat -> [Books -> Books]] /\ step2 \in [Nat -> [Books -> Books]]
  <2>1. \A k \in Nat, books \in Books :
          (IF k \in 1..n THEN Booked(books, table[Nth(table, S, k)]) ELSE books) \in Books
    BY <1>5, <1>6, BookedInBooks
  <2>2. \A k \in Nat, books \in Books :
          (IF k \in 1..(n+1) THEN Booked(books, table[Nth(table, U, k)]) ELSE books) \in Books
    BY <1>5, BookedInBooks
  <2>. QED BY <2>1, <2>2
<1>8. \A k \in 1..n : step[k] = step2[k]
  BY <1>6
<1>9. \A books \in Books : step2[n+1][books] = Booked(books, table[l])
  <2>1. n + 1 \in Nat /\ n + 1 \in 1..(n+1) /\ Nth(table, U, n + 1) = l
    BY <1>1
  <2>. QED BY <2>1
<1>. HIDE DEF step, step2
<1>n. n \in Nat
  BY <1>1
<1>s. step \in [Nat -> [Books -> Books]]
  BY <1>7
<1>t. step2 \in [Nat -> [Books -> Books]]
  BY <1>7
<1>10. Iterate(step, opening, n) = Iterate(step2, opening, n)
  BY <1>n, <1>s, <1>t, <1>8, IterateAlike, ZenonT(60)
<1>11. Iterate(step2, opening, n + 1) = step2[n+1][Iterate(step2, opening, n)]
  BY <1>n, <1>t, IterateRounds
<1>. QED BY <1>2, <1>3, <1>4, <1>9, <1>10, <1>11 DEF U

(* What each trade adds to the units and to the cost in the books. *)
UnitsOf(table, ids) ==
  [i \in ids |-> IF table[i].type = "BUY" THEN table[i].qty ELSE -table[i].qty]

CostOf(table, opening, ids) ==
  [i \in ids |-> IF table[i].type = "BUY" THEN table[i].brl
                 ELSE -CostSold(Walk(table, opening, Earlier(table, ids, i)), table[i].qty)]

LEMMA ContributionsInt ==
  ASSUME NEW table, NEW ids \in SUBSET Nat, IsFiniteSet(ids), Datable(table, ids),
         NEW opening \in Books
  PROVE  UnitsOf(table, ids) \in [ids -> Int] /\ CostOf(table, opening, ids) \in [ids -> Int]
<1>1. \A i \in ids : table[i].qty \in Int /\ table[i].brl \in Int
  BY DEF Datable, Bookable
<1>2. UnitsOf(table, ids) \in [ids -> Int]
  BY <1>1 DEF UnitsOf
<1>3. \A i \in ids :
        CostSold(Walk(table, opening, Earlier(table, ids, i)), table[i].qty) \in Int
  BY <1>1, WalkLast, CostSoldInt
<1>4. CostOf(table, opening, ids) \in [ids -> Int]
  BY <1>1, <1>3 DEF CostOf
<1>. QED BY <1>2, <1>4

(* The books hold the opening and what the trades added. *)
LEMMA WalkTotals ==
  ASSUME NEW table, NEW m \in Nat, NEW ids \in SUBSET (1..m), Datable(table, ids),
         NEW opening \in Books
  PROVE  /\ Walk(table, opening, ids).qty = opening.qty + Total(UnitsOf(table, ids), m)
         /\ Walk(table, opening, ids).cost = opening.cost + Total(CostOf(table, opening, ids), m)
<1>. DEFINE d == UnitsOf(table, ids)
            c == CostOf(table, opening, ids)
            Explained(S) ==
              /\ Walk(table, opening, S).qty = opening.qty + Total([i \in S |-> d[i]], m)
              /\ Walk(table, opening, S).cost = opening.cost + Total([i \in S |-> c[i]], m)
            P == {S \in SUBSET ids : Explained(S)}
<1>1. ids \in SUBSET Nat /\ IsFiniteSet(ids)
  <2>1. IsFiniteSet(1..m)
    BY FS_Interval
  <2>2. IsFiniteSet(ids)
    BY <2>1, FS_Subset
  <2>3. ids \in SUBSET Nat
    OBVIOUS
  <2>. QED BY <2>2, <2>3
<1>2. d \in [ids -> Int] /\ c \in [ids -> Int]
  BY <1>1, ContributionsInt
<1>3. opening.qty \in Int /\ opening.cost \in Int
  BY DEF Books
<1>4. {} \in P
  <2>1. Walk(table, opening, {}) = opening
    <3>1. {} \in SUBSET Nat /\ IsFiniteSet({}) /\ \A i \in {} : Bookable(table[i])
      BY FS_EmptySet
    <3>. QED BY <3>1, WalkInBooks
  <2>. DEFINE f == [i \in {} |-> d[i]]
              g == [i \in {} |-> c[i]]
  <2>2. (\A i \in DOMAIN f : f[i] = 0) /\ (\A i \in DOMAIN g : g[i] = 0)
    OBVIOUS
  <2>. HIDE DEF f, g
  <2>3. Total(f, m) = 0 /\ Total(g, m) = 0
    BY <2>2, TotalOfZeros
  <2>4. Explained({})
    BY <1>3, <2>1, <2>3 DEF f, g
  <2>. QED BY <2>4
<1>5. ASSUME NEW l \in ids, Earlier(table, ids, l) \in P
      PROVE  Earlier(table, ids, l) \cup {l} \in P
  <2>. DEFINE S == Earlier(table, ids, l)
              W == Walk(table, opening, S)
  <2>1. S \in SUBSET ids /\ Explained(S)
    BY <1>5
  <2>2. l \notin S
    <3>1. \A i \in ids : table[i].trade \in Nat
      BY DEF Datable, Bookable
    <3>2. ~ Precedes(table, l, l)
      BY <1>1, <3>1, PrecedesOrder
    <3>. QED BY <3>2 DEF Earlier
  <2>. HIDE DEF S, d, c
  <2>3. /\ Total([i \in S \cup {l} |-> d[i]], m) = Total([i \in S |-> d[i]], m) + d[l]
        /\ Total([i \in S \cup {l} |-> c[i]], m) = Total([i \in S |-> c[i]], m) + c[l]
    BY <1>2, <2>1, <2>2, TotalOfOneMore
  <2>4. W \in Books /\ Walk(table, opening, S \cup {l}) = Booked(W, table[l])
    BY <1>1, WalkLast DEF S
  <2>5. /\ d[l] = IF table[l].type = "BUY" THEN table[l].qty ELSE -table[l].qty
        /\ c[l] = IF table[l].type = "BUY" THEN table[l].brl ELSE -CostSold(W, table[l].qty)
    BY DEF d, c, S, UnitsOf, CostOf
  <2>6. /\ W.qty = opening.qty + Total([i \in S |-> d[i]], m)
        /\ W.cost = opening.cost + Total([i \in S |-> c[i]], m)
    BY <2>1
  <2>7. /\ Total([i \in S |-> d[i]], m) \in Int
        /\ Total([i \in S |-> c[i]], m) \in Int
    <3>. DEFINE f == [i \in S |-> d[i]]
                g == [i \in S |-> c[i]]
    <3>1. (\A i \in DOMAIN f : f[i] \in Int) /\ (\A i \in DOMAIN g : g[i] \in Int)
      BY <1>2, <2>1
    <3>. HIDE DEF f, g
    <3>2. Total(f, m) \in Int /\ Total(g, m) \in Int
      BY <3>1, TotalRounds
    <3>. QED BY <3>2 DEF f, g
  <2>. HIDE DEF W
  <2>8. table[l].qty \in Int /\ table[l].brl \in Int /\ CostSold(W, table[l].qty) \in Int
    BY <2>4, CostSoldInt DEF Datable, Bookable
  <2>9. Booked(W, table[l]).qty = W.qty + d[l] /\ Booked(W, table[l]).cost = W.cost + c[l]
    <3>1. W.qty \in Int /\ W.cost \in Int
      BY <2>4 DEF Books
    <3>2. CASE table[l].type = "BUY"
      BY <2>5, <3>2 DEF Booked
    <3>3. CASE table[l].type # "BUY"
      BY <2>5, <2>8, <3>1, <3>3 DEF Booked
    <3>. QED BY <3>2, <3>3
  <2>10. d[l] \in Int /\ c[l] \in Int
    BY <1>2
  <2>11. Explained(S \cup {l})
    <3>. DEFINE a == Total([i \in S |-> d[i]], m)
                b == Total([i \in S |-> c[i]], m)
    <3>1. /\ Walk(table, opening, S \cup {l}).qty = (opening.qty + a) + d[l]
          /\ Walk(table, opening, S \cup {l}).cost = (opening.cost + b) + c[l]
      BY <2>4, <2>6, <2>9
    <3>2. a \in Int /\ b \in Int
      BY <2>7
    <3>. HIDE DEF a, b
    <3>3. /\ (opening.qty + a) + d[l] = opening.qty + (a + d[l])
          /\ (opening.cost + b) + c[l] = opening.cost + (b + c[l])
      BY <1>3, <2>10, <3>2
    <3>. QED BY <2>3, <3>1, <3>3 DEF a, b
  <2>12. S \cup {l} \in SUBSET ids
    BY <2>1
  <2>. QED BY <2>11, <2>12 DEF S
<1>6. ids \in P
  <2>1. HoldsInTime(table, ids, P)
    <3>. HIDE DEF P
    <3>. QED BY <1>4, <1>5 DEF HoldsInTime
  <2>. HIDE DEF P
  <2>. QED BY <1>1, <2>1, InductionInTime
<1>7. [i \in ids |-> d[i]] = d /\ [i \in ids |-> c[i]] = c
  BY <1>2
<1>8. Explained(ids)
  BY <1>6
<1>. HIDE DEF d, c
<1>. QED BY <1>7, <1>8 DEF d, c

(* Every sale has a result in whole cents. *)
THEOREM RealizedInt ==
  ASSUME NEW table, DOMAIN table \in SUBSET Nat, IsFiniteSet(DOMAIN table),
         \A j \in DOMAIN table : Bookable(table[j]),
         NEW initial,
         \A o \in initial : o.date \in Nat /\ o.qty \in Int /\ o.cost \in Int,
         NEW i \in DOMAIN table
  PROVE  realized(table, initial, i) \in Int
<1>. DEFINE account == table[i].account
            ids == {j \in Trades(table, account) : Precedes(table, j, i)}
            before == Walk(table, OpeningBooks(initial, account, Forever), ids)
<1>1. ids \in SUBSET DOMAIN table
  BY DEF Trades
<1>2. IsFiniteSet(ids) /\ ids \in SUBSET Nat
  BY <1>1, FS_Subset
<1>3. \A j \in ids : Bookable(table[j])
  BY <1>1
<1>4. Forever \in Nat
  BY DEF Forever
<1>5. OpeningBooks(initial, account, Forever) \in Books
  BY <1>4, OpeningInBooks
<1>6. before \in Books
  <2>. HIDE DEF ids
  <2>. QED BY <1>2, <1>3, <1>5, WalkInBooks
<1>7. CostSold(before, table[i].qty) \in Int /\ table[i].brl \in Int
  <2>. HIDE DEF before
  <2>1. table[i].qty \in Int /\ table[i].brl \in Int
    BY DEF Bookable
  <2>. QED BY <1>6, <2>1, CostSoldInt
<1>8. realized(table, initial, i) = table[i].brl - CostSold(before, table[i].qty)
  BY DEF realized
<1>. QED BY <1>7, <1>8

-------------------------------------------------------------------------------
(* What the FIFO takes from a record is between nothing and its balance,
   and only an open record gives anything. *)
LEMMA UsoBounds ==
  ASSUME NEW evs, Len(evs) \in Nat,
         NEW ls, \A e \in DOMAIN ls : ls[e].remaining \in Int,
         NEW year, NEW income \in Int, NEW e \in DOMAIN ls
  PROVE  /\ uso(evs, ls, year, income, e) \in Nat
         /\ uso(evs, ls, year, income, e) > 0 =>
              /\ e \in open_records(evs, ls, year)
              /\ uso(evs, ls, year, income, e) <= ls[e].remaining
<1>. DEFINE older == {f \in open_records(evs, ls, year) : Older(evs, ls, f, e)}
            given == [f \in older |-> ls[f].remaining]
            restante == Larger(income, 0) - Total(given, Len(evs))
<1>1. \A f \in DOMAIN given : given[f] \in Int
  BY DEF open_records
<1>2. restante \in Int
  <2>. HIDE DEF given
  <2>1. Total(given, Len(evs)) \in Int
    BY <1>1, TotalRounds
  <2>2. Larger(income, 0) \in Int
    BY DEF Larger
  <2>. QED BY <2>1, <2>2
<1>3. uso(evs, ls, year, income, e) =
        IF e \in open_records(evs, ls, year)
        THEN Smaller(ls[e].remaining, Larger(restante, 0)) ELSE 0
  BY DEF uso
<1>. HIDE DEF restante
<1>4. CASE e \in open_records(evs, ls, year)
  <2>1. ls[e].remaining > 0 /\ ls[e].remaining \in Int
    BY <1>4 DEF open_records
  <2>2. Larger(restante, 0) \in Nat
    BY <1>2 DEF Larger
  <2>3. uso(evs, ls, year, income, e) = Smaller(ls[e].remaining, Larger(restante, 0))
    BY <1>3, <1>4
  <2>. QED BY <1>4, <2>1, <2>2, <2>3 DEF Smaller
<1>5. CASE e \notin open_records(evs, ls, year)
  BY <1>3, <1>5
<1>. QED BY <1>4, <1>5

-------------------------------------------------------------------------------
Safety == TypeOK /\ LossConservation /\ CompensationsOfClosedYears

(* The rows of an event are finitely many, and it has what the walk reads. *)
LEMMA EventsAreBookable ==
  ASSUME TypeOK
  PROVE  /\ DOMAIN events = 1..Len(events) /\ Len(events) \in Nat
         /\ DOMAIN events \subseteq EventIds
         /\ IsFiniteSet(DOMAIN events) /\ DOMAIN events \in SUBSET Nat
         /\ \A i \in DOMAIN events : events[i] \in Event /\ Bookable(events[i])
<1>1. events \in Seq(Event)
  BY DEF TypeOK
<1>2. DOMAIN events = 1..Len(events) /\ Len(events) \in Nat
  BY <1>1
<1>3. IsFiniteSet(1..Len(events))
  BY <1>2, FS_Interval
<1>4. \A i \in DOMAIN events : events[i] \in Event
  BY <1>1
<1>5. \A i \in DOMAIN events : Bookable(events[i])
  BY <1>4 DEF Event, Bookable
<1>6. Len(events) <= MaxEvents
  BY DEF TypeOK
<1>7. 1..Len(events) \subseteq EventIds
  BY <1>2, <1>6, BoundsAssumption DEF EventIds
<1>. QED BY <1>2, <1>3, <1>4, <1>5, <1>7

(* The results of the sales of a year are whole cents. *)
LEMMA ResultsInt ==
  ASSUME TypeOK, NEW year
  PROVE  /\ Sales(year) \in SUBSET DOMAIN events
         /\ resultados_alienacao(year) \in [Sales(year) -> Int]
<1>1. Sales(year) \in SUBSET DOMAIN events
  BY DEF Sales
<1>2. ASSUME NEW i \in Sales(year)
      PROVE  Attributed(events[i].account, realized(events, openings, i)) \in Int
  <2>1. \A o \in openings : o.date \in Nat /\ o.qty \in Int /\ o.cost \in Int
    BY DEF TypeOK, OpeningPositions
  <2>2. realized(events, openings, i) \in Int
    BY <1>1, <2>1, EventsAreBookable, RealizedInt
  <2>3. events[i].account \in Accounts
    BY <1>1, EventsAreBookable DEF Event
  <2>4. Share[events[i].account] \in Int
    BY <2>3, InputsAssumption
  <2>5. realized(events, openings, i) * Share[events[i].account] \in Int
    BY <2>2, <2>4
  <2>. QED BY <2>5, QuantizedInt DEF Attributed
<1>. QED BY <1>1, <1>2 DEF resultados_alienacao

(* An open year consumed nothing, so returning its compensations before a
   closing changes nothing. *)
LEMMA OpenYearConsumedNothing ==
  ASSUME Safety, NEW year \in Years, year \notin Closed
  PROVE  /\ \A e \in EventIds : comp[e][year] = 0
         /\ Cleared(comp, year) = comp
         /\ Returned(loss, comp, year) = loss
<1>1. comp \in [EventIds -> [Years -> 0..MaxAmount]] /\ loss \in [DOMAIN loss -> LossRecord]
  BY DEF Safety, TypeOK
<1>2. \A e \in EventIds : comp[e][year] \in Nat /\ ~ (comp[e][year] > 0)
  BY <1>1, BoundsAssumption DEF Safety, CompensationsOfClosedYears
<1>3. \A e \in EventIds : comp[e][year] = 0
  BY <1>2
<1>4. Cleared(comp, year) = comp
  <2>1. \A e \in EventIds : [comp[e] EXCEPT ![year] = 0] = comp[e]
    BY <1>1, <1>3
  <2>. QED BY <1>1, <2>1 DEF Cleared
<1>5. Returned(loss, comp, year) = loss
  <2>1. DOMAIN loss \subseteq EventIds
    BY EventsAreBookable DEF Safety, TypeOK
  <2>2. ASSUME NEW e \in DOMAIN loss
        PROVE  [loss[e] EXCEPT !.remaining = @ + comp[e][year]] = loss[e]
    <3>1. loss[e] \in LossRecord /\ comp[e][year] = 0
      BY <1>1, <1>3, <2>1
    <3>2. loss[e].remaining + comp[e][year] = loss[e].remaining
      BY <3>1 DEF LossRecord, Amounts
    <3>. QED BY <3>1, <3>2 DEF LossRecord
  <2>. QED BY <1>1, <2>2 DEF Returned
<1>. QED BY <1>3, <1>4, <1>5

(* The two tables of the ledger as a handler of the closing finds or makes
   them: whole records, no compensation lost, none outside closed years. *)
LedgerSound(L, C, closed) ==
  /\ DOMAIN L \subseteq DOMAIN events /\ L \in [DOMAIN L -> LossRecord]
  /\ C \in [EventIds -> [Years -> 0..MaxAmount]]
  /\ \A e \in DOMAIN L : /\ L[e].remaining >= 0
                         /\ L[e].remaining + Total(C[e], LastYear) = L[e].amount
  /\ \A e \in EventIds, y \in Years :
       C[e][y] > 0 => y \in closed /\ e \in DOMAIN L /\ Origin(events, e) <= y

LEMMA SafeMeansSound ==
  ASSUME Safety
  PROVE  LedgerSound(loss, comp, Closed)
BY DEF Safety, TypeOK, LossConservation, CompensationsOfClosedYears, LedgerSound

(* The sum over the years changes by what one year changes. *)
LEMMA TotalOfYear ==
  ASSUME NEW f \in [Years -> 0..MaxAmount], NEW year \in Years, NEW x \in 0..MaxAmount
  PROVE  /\ Total(f, LastYear) \in Int
         /\ Total([f EXCEPT ![year] = x], LastYear) = Total(f, LastYear) + x - f[year]
<1>. DEFINE g == [f EXCEPT ![year] = x]
<1>1. \A y \in Years : f[y] \in Int /\ g[y] \in Int /\ (y # year => g[y] = f[y])
  BY BoundsAssumption
<1>2. DOMAIN f = Years /\ DOMAIN g = Years /\ g[year] = x
  OBVIOUS
<1>3. year \in Nat \ {0} /\ year <= LastYear /\ LastYear \in Nat
  BY BoundsAssumption DEF Years
<1>. HIDE DEF g
<1>4. Total(f, LastYear) \in Int
  BY <1>1, <1>2, <1>3, TotalRounds
<1>5. Total(g, LastYear) = Total(f, LastYear) + (IF year <= LastYear THEN g[year] - f[year] ELSE 0)
  BY <1>1, <1>2, <1>3, TotalOfChange
<1>6. Total(g, LastYear) = Total(f, LastYear) + x - f[year]
  BY <1>1, <1>2, <1>3, <1>4, <1>5
<1>. QED BY <1>4, <1>6 DEF g

(* After the sync of a year each record is conserved, and no record that is
   in use was dropped. *)
LEMMA SyncConserves ==
  ASSUME Safety, NEW L, NEW C, NEW closed, LedgerSound(L, C, closed),
         NEW year \in Years, NEW gain, gain \in [Sales(year) -> Int],
         ~ SyncBlocked(L, C, gain),
         NEW synced, synced = Synced(events, L, C, gain, year, lastLossId)
  PROVE  /\ DOMAIN synced \subseteq DOMAIN events
         /\ \A e \in DOMAIN synced :
              /\ synced[e].remaining >= 0
              /\ synced[e].remaining + Total(C[e], LastYear) = synced[e].amount
         /\ \A e \in DOMAIN L : HasCompensations(C, e) => e \in DOMAIN synced
<1>1. C \in [EventIds -> [Years -> 0..MaxAmount]]
  BY DEF LedgerSound
<1>2. DOMAIN gain \subseteq DOMAIN events /\ DOMAIN events \subseteq EventIds
  BY ResultsInt, EventsAreBookable DEF Safety, TypeOK
<1>3. DOMAIN synced = (DOMAIN L \ Dropped(events, L, C, gain, year))
                        \cup NewLosses(L, gain)
  BY DEF Synced
<1>4. DOMAIN synced \subseteq DOMAIN events
  BY <1>2, <1>3 DEF NewLosses, LedgerSound
<1>5. ASSUME NEW e \in DOMAIN synced
      PROVE  /\ synced[e].remaining >= 0
             /\ synced[e].remaining + Total(C[e], LastYear) = synced[e].amount
  <2>1. CASE e \in DOMAIN gain
    <3>1. synced[e].amount = -gain[e] /\ synced[e].remaining = -gain[e]
      BY <2>1 DEF Synced
    <3>2. gain[e] \in Int /\ gain[e] < 0
      BY <1>3, <2>1 DEF Dropped, NewLosses
    <3>3. \A y \in DOMAIN C[e] : ~ (C[e][y] > 0)
      <4>1. CASE e \in DOMAIN L
        BY <2>1, <4>1 DEF SyncBlocked, HasCompensations
      <4>2. CASE e \notin DOMAIN L
        BY <1>1, <1>2, <1>4, <4>2 DEF LedgerSound
      <4>. QED BY <4>1, <4>2
    <3>4. \A y \in DOMAIN C[e] : C[e][y] = 0
      <4>1. \A y \in DOMAIN C[e] : C[e][y] \in 0..MaxAmount
        BY <1>1, <1>2, <1>4
      <4>. QED BY <3>3, <4>1, BoundsAssumption
    <3>5. Total(C[e], LastYear) = 0
      BY <3>4, TotalOfZeros, BoundsAssumption
    <3>. QED BY <3>1, <3>2, <3>5
  <2>2. CASE e \notin DOMAIN gain
    <3>1. e \in DOMAIN L /\ synced[e] = L[e]
      BY <1>3, <2>2 DEF Synced, NewLosses
    <3>. QED BY <3>1 DEF LedgerSound
  <2>. QED BY <2>1, <2>2
<1>6. ASSUME NEW e \in DOMAIN L, HasCompensations(C, e)
      PROVE  e \in DOMAIN synced
  <2>1. e \notin DOMAIN gain
    BY <1>6 DEF SyncBlocked
  <2>2. e \notin Dropped(events, L, C, gain, year)
    BY <1>6, <2>1 DEF Dropped
  <2>. QED BY <1>3, <2>2
<1>. QED BY <1>4, <1>5, <1>6

-------------------------------------------------------------------------------
LEMMA InitSafe == Init => Safety
<1>. SUFFICES ASSUME Init PROVE Safety
  OBVIOUS
<1>1. comp \in [EventIds -> [Years -> 0..MaxAmount]]
  BY BoundsAssumption DEF Init
<1>2. events \in Seq(Event) /\ Len(events) = 0 /\ DOMAIN loss = {} /\ Closed = {}
  BY DEF Init, Closed
<1>3. TypeOK
  <2>1. Len(events) <= MaxEvents /\ openings \subseteq OpeningPositions /\ lastLossId \in Nat
    BY <1>2, BoundsAssumption, InputsAssumption DEF Init
  <2>2. loss \in [DOMAIN loss -> LossRecord] /\ assessment \in [Closed -> Snapshot]
    BY <1>2 DEF Init, Closed
  <2>. QED BY <1>1, <1>2, <2>1, <2>2 DEF TypeOK
<1>4. LossConservation
  BY <1>2 DEF LossConservation
<1>5. CompensationsOfClosedYears
  <2>1. \A e \in EventIds, y \in Years : comp[e][y] = 0
    BY DEF Init
  <2>. QED BY <2>1 DEF CompensationsOfClosedYears
<1>. QED BY <1>3, <1>4, <1>5 DEF Safety

(* A handler of the ledger keeps the trade dates of the events there are
   and leaves the tables of the closing alone. *)
LEMMA LedgerStepSafe ==
  ASSUME Safety,
         events' \in Seq(Event), Len(events') <= MaxEvents,
         openings' \subseteq OpeningPositions,
         UNCHANGED <<loss, comp, lastLossId, assessment>>,
         \A i \in DOMAIN events : i \in DOMAIN events' /\ events'[i].trade = events[i].trade
  PROVE  Safety'
<1>1. Closed' = Closed
  BY DEF Closed
<1>2. TypeOK'
  <2>1. DOMAIN loss \subseteq DOMAIN events'
    BY DEF Safety, TypeOK
  <2>. QED BY <1>1, <2>1 DEF Safety, TypeOK
<1>3. LossConservation'
  BY DEF Safety, LossConservation
<1>4. CompensationsOfClosedYears'
  <2>. SUFFICES ASSUME NEW e \in EventIds, NEW y \in Years, comp'[e][y] > 0
                PROVE  y \in Closed' /\ e \in DOMAIN loss' /\ Origin(events', e) <= y
    BY DEF CompensationsOfClosedYears
  <2>1. y \in Closed /\ e \in DOMAIN loss /\ Origin(events, e) <= y
    BY DEF Safety, CompensationsOfClosedYears
  <2>2. e \in DOMAIN events
    BY <2>1 DEF Safety, TypeOK
  <2>. QED BY <1>1, <2>1, <2>2 DEF Origin
<1>. QED BY <1>2, <1>3, <1>4 DEF Safety

LEMMA NewEventType ==
  ASSUME NEW d \in Drafts, NEW original \in 0..MaxEvents
  PROVE  NewEvent(d, original) \in Event
BY InputsAssumption DEF NewEvent, Event, DraftEvents

LEMMA DeactivatedType ==
  ASSUME TypeOK, NEW i \in DOMAIN events
  PROVE  /\ [events EXCEPT ![i].active = FALSE] \in Seq(Event)
         /\ Len([events EXCEPT ![i].active = FALSE]) = Len(events)
         /\ DOMAIN [events EXCEPT ![i].active = FALSE] = DOMAIN events
         /\ \A j \in DOMAIN events :
              [events EXCEPT ![i].active = FALSE][j] =
                IF j = i THEN [events[i] EXCEPT !.active = FALSE] ELSE events[j]
<1>. DEFINE ev == [events[i] EXCEPT !.active = FALSE]
            evs == [events EXCEPT ![i] = ev]
<1>1. events \in Seq(Event) /\ events[i] \in Event /\ i \in 1..Len(events)
  BY EventsAreBookable DEF TypeOK
<1>2. ev \in Event
  BY <1>1 DEF Event
<1>. HIDE DEF ev
<1>3. evs \in Seq(Event) /\ Len(evs) = Len(events)
  BY <1>1, <1>2, ExceptSeq
<1>4. DOMAIN evs = DOMAIN events /\ \A j \in DOMAIN events : evs[j] = IF j = i THEN ev ELSE events[j]
  BY <1>1
<1>5. [events EXCEPT ![i].active = FALSE] = evs
  BY DEF ev
<1>. HIDE DEF evs
<1>. USE DEF ev
<1>. QED BY <1>3, <1>4, <1>5

LEMMA AppendedType ==
  ASSUME NEW evs \in Seq(Event), NEW ev \in Event
  PROVE  /\ Append(evs, ev) \in Seq(Event)
         /\ Len(Append(evs, ev)) = Len(evs) + 1
         /\ \A j \in DOMAIN evs : j \in DOMAIN Append(evs, ev) /\ Append(evs, ev)[j] = evs[j]
BY AppendProperties

LEMMA RecordEventSafe ==
  ASSUME Safety, NEW d \in Drafts, RecordEvent(d)
  PROVE  Safety'
<1>1. events \in Seq(Event) /\ Len(events) \in Nat
  BY EventsAreBookable DEF Safety, TypeOK
<1>2. events' = Append(events, NewEvent(d, 0)) /\ NewEvent(d, 0) \in Event
  BY NewEventType, BoundsAssumption DEF RecordEvent
<1>3. events' \in Seq(Event) /\ Len(events') <= MaxEvents
  BY <1>1, <1>2, AppendedType, BoundsAssumption DEF RecordEvent, Admitted
<1>4. \A i \in DOMAIN events : i \in DOMAIN events' /\ events'[i].trade = events[i].trade
  BY <1>1, <1>2, AppendedType
<1>. QED BY <1>3, <1>4, LedgerStepSafe DEF RecordEvent, Safety, TypeOK

LEMMA CorrectEventSafe ==
  ASSUME Safety, NEW i \in DOMAIN events, NEW d \in Drafts, CorrectEvent(i, d)
  PROVE  Safety'
<1>. DEFINE deactivated == [events EXCEPT ![i].active = FALSE]
<1>1. deactivated \in Seq(Event) /\ Len(deactivated) = Len(events) /\ Len(events) \in Nat
  BY DeactivatedType, EventsAreBookable DEF Safety
<1>2. \A j \in DOMAIN events : j \in DOMAIN deactivated /\ deactivated[j].trade = events[j].trade
  <2>1. \A j \in DOMAIN events : events[j] \in Event
    BY EventsAreBookable DEF Safety
  <2>2. \A j \in DOMAIN events :
          deactivated[j] = IF j = i THEN [events[i] EXCEPT !.active = FALSE] ELSE events[j]
    BY DeactivatedType DEF Safety
  <2>3. DOMAIN deactivated = DOMAIN events
    BY DeactivatedType DEF Safety
  <2>. HIDE DEF deactivated
  <2>. QED BY <2>1, <2>2, <2>3 DEF Event
<1>3. /\ events' = IF d.taxFactsValid THEN Append(deactivated, NewEvent(d, i)) ELSE deactivated
      /\ Len(events) < MaxEvents
      /\ UNCHANGED <<openings, loss, comp, lastLossId, assessment>>
  BY DEF CorrectEvent, Admitted
<1>4. NewEvent(d, i) \in Event
  <2>1. i \in 0..MaxEvents
    BY EventsAreBookable, BoundsAssumption DEF EventIds, Safety
  <2>. QED BY <2>1, NewEventType
<1>. HIDE DEF deactivated
<1>5. /\ events' \in Seq(Event) /\ Len(events') <= MaxEvents
      /\ \A j \in DOMAIN events : j \in DOMAIN events' /\ events'[j].trade = events[j].trade
  <2>1. CASE d.taxFactsValid
    <3>1. events' = Append(deactivated, NewEvent(d, i))
      BY <1>3, <2>1
    <3>2. /\ events' \in Seq(Event) /\ Len(events') = Len(events) + 1
          /\ \A j \in DOMAIN deactivated : j \in DOMAIN events' /\ events'[j] = deactivated[j]
      BY <3>1, <1>1, <1>4, AppendedType
    <3>. QED BY <1>1, <1>2, <1>3, <3>2, BoundsAssumption
  <2>2. CASE ~ d.taxFactsValid
    BY <1>1, <1>2, <1>3, <2>2, BoundsAssumption
  <2>. QED BY <2>1, <2>2
<1>. QED BY <1>3, <1>5, LedgerStepSafe DEF Safety, TypeOK

LEMMA DeactivateEventSafe ==
  ASSUME Safety, NEW i \in DOMAIN events, DeactivateEvent(i)
  PROVE  Safety'
<1>1. /\ events' = [events EXCEPT ![i].active = FALSE]
      /\ UNCHANGED <<openings, loss, comp, lastLossId, assessment>>
  BY DEF DeactivateEvent
<1>2. events' \in Seq(Event) /\ Len(events') <= MaxEvents
  BY <1>1, DeactivatedType DEF Safety, TypeOK
<1>3. \A j \in DOMAIN events :
        /\ j \in DOMAIN events'
        /\ events'[j] = IF j = i THEN [events[i] EXCEPT !.active = FALSE] ELSE events[j]
  BY <1>1, DeactivatedType DEF Safety
<1>4. \A j \in DOMAIN events : events[j] \in Event
  BY EventsAreBookable DEF Safety
<1>5. \A j \in DOMAIN events : j \in DOMAIN events' /\ events'[j].trade = events[j].trade
  BY <1>3, <1>4 DEF Event
<1>. QED BY <1>1, <1>2, <1>5, LedgerStepSafe DEF Safety, TypeOK

LEMMA SaveOpeningSafe ==
  ASSUME Safety, NEW o \in OpeningDrafts, SaveOpening(o)
  PROVE  Safety'
<1>1. openings' \subseteq OpeningPositions
  BY InputsAssumption DEF SaveOpening, Safety, TypeOK
<1>2. events' = events /\ UNCHANGED <<loss, comp, lastLossId, assessment>>
  BY DEF SaveOpening
<1>. QED BY <1>1, <1>2, LedgerStepSafe DEF Safety, TypeOK

-------------------------------------------------------------------------------
(* What a closing does to the ledger, the returns of the open year left
   out: it syncs, consumes and seals. *)
LEMMA CloseYearEffect ==
  ASSUME Safety, NEW year \in Years, CloseYear(year)
  PROVE  \E gain, income, snapshot, synced :
           /\ gain \in [Sales(year) -> Int] /\ income \in Int /\ snapshot \in Snapshot
           /\ year \notin Closed
           /\ \A y \in Closed : y < year
           /\ ~ SyncBlocked(loss, comp, gain)
           /\ synced = Synced(events, loss, comp, gain, year, lastLossId)
           /\ synced \in [DOMAIN synced -> LossRecord]
           /\ loss' = Consumed(events, synced, year, income)
           /\ comp' = Compensated(events, synced, comp, year, income)
           /\ lastLossId' = lastLossId + Cardinality(NewLosses(loss, gain))
           /\ Closed' = Closed \cup {year}
           /\ assessment' = [y \in Closed \cup {year} |-> IF y = year THEN snapshot ELSE assessment[y]]
           /\ UNCHANGED <<events, openings>>
<1>1. year \notin Closed
  BY DEF CloseYear, CloseTransaction, Open
<1>2. Cleared(comp, year) = comp /\ Returned(loss, comp, year) = loss
  BY <1>1, OpenYearConsumedNothing
<1>3. resultados_alienacao(year) \in [Sales(year) -> Int]
  BY ResultsInt DEF Safety
<1>4. compute(year) \in Snapshot
  BY DEF CloseYear, CloseTransaction
<1>5. compute(year).income \in Int
  BY <1>4, BoundsAssumption DEF Snapshot, Amounts
<1>6. Closed' = Closed \cup {year}
  BY DEF CloseYear, CloseTransaction, Closed
<1>7. \A y \in Closed : y < year
  <2>1. \A y \in Closed : y <= year /\ y \in Int /\ y # year
    BY <1>1, BoundsAssumption DEF CloseYear, CloseTransaction, Safety, TypeOK, Years
  <2>. QED BY <2>1 DEF Years
<1>. WITNESS resultados_alienacao(year), compute(year).income, compute(year),
             Synced(events, loss, comp, resultados_alienacao(year), year, lastLossId)
<1>. QED BY <1>1, <1>2, <1>3, <1>4, <1>5, <1>6, <1>7 DEF CloseYear, CloseTransaction

(* Once the compensations of a year went back to their records, the ledger
   is that of the other closed years. *)
LEMMA ReturnedSound ==
  ASSUME Safety, NEW year \in Years,
         NEW L, L = Returned(loss, comp, year), NEW C, C = Cleared(comp, year)
  PROVE  /\ LedgerSound(L, C, Closed \ {year})
         /\ \A e \in EventIds : C[e][year] = 0
<1>2. comp \in [EventIds -> [Years -> 0..MaxAmount]] /\ loss \in [DOMAIN loss -> LossRecord]
  BY DEF Safety, TypeOK
<1>3. DOMAIN loss \subseteq EventIds
  BY EventsAreBookable DEF Safety, TypeOK
<1>4. /\ DOMAIN L = DOMAIN loss
      /\ \A e \in DOMAIN loss : L[e] = [loss[e] EXCEPT !.remaining = @ + comp[e][year]]
  BY DEF Returned
<1>5. \A e \in EventIds : C[e] = [comp[e] EXCEPT ![year] = 0]
  BY <1>2 DEF Cleared
<1>7. ASSUME NEW e \in DOMAIN loss
      PROVE  /\ L[e].id \in Nat /\ L[e].amount \in Amounts
             /\ L[e].remaining \in Int
             /\ L[e].remaining >= 0
             /\ L[e].remaining + Total(C[e], LastYear) = L[e].amount
             /\ Total(C[e], LastYear) \in Nat
  <2>1. /\ loss[e].remaining \in Int /\ loss[e].amount \in Amounts /\ loss[e].id \in Nat
        /\ L[e].remaining = loss[e].remaining + comp[e][year]
        /\ L[e].amount = loss[e].amount /\ L[e].id = loss[e].id
    BY <1>2, <1>4 DEF LossRecord, Amounts
  <2>2. comp[e] \in [Years -> 0..MaxAmount] /\ 0 \in 0..MaxAmount
    BY <1>2, <1>3, BoundsAssumption
  <2>3. /\ Total(comp[e], LastYear) \in Int
        /\ Total(C[e], LastYear) = Total(comp[e], LastYear) + 0 - comp[e][year]
    <3>1. C[e] = [comp[e] EXCEPT ![year] = 0]
      BY <1>3, <1>5
    <3>. QED BY <2>2, <3>1, TotalOfYear
  <2>4. loss[e].remaining >= 0 /\ loss[e].remaining + Total(comp[e], LastYear) = loss[e].amount
    BY DEF Safety, LossConservation
  <2>5. comp[e][year] \in Nat
    BY <2>2, BoundsAssumption
  <2>6. Total(C[e], LastYear) \in Nat
    <3>1. \A y \in DOMAIN C[e] : C[e][y] \in Nat
      <4>1. C[e] = [comp[e] EXCEPT ![year] = 0]
        BY <1>3, <1>5
      <4>2. \A y \in Years : comp[e][y] \in Nat
        BY <2>2, BoundsAssumption
      <4>. QED BY <2>2, <4>1, <4>2
    <3>. QED BY <3>1, TotalNonNegative, BoundsAssumption
  <2>. QED BY <2>1, <2>3, <2>4, <2>5, <2>6
<1>8. L \in [DOMAIN L -> LossRecord]
  <2>1. \A e \in DOMAIN loss : L[e].remaining \in Amounts
    BY <1>7, BoundsAssumption DEF Amounts
  <2>2. \A e \in DOMAIN loss : L[e] \in LossRecord
    BY <1>2, <1>4, <1>7, <2>1 DEF LossRecord
  <2>3. L = [e \in DOMAIN loss |-> L[e]]
    BY <1>4 DEF Returned
  <2>. QED BY <1>4, <2>2, <2>3
<1>9. C \in [EventIds -> [Years -> 0..MaxAmount]]
  <2>1. ASSUME NEW e \in EventIds
        PROVE  C[e] \in [Years -> 0..MaxAmount]
    <3>1. comp[e] \in [Years -> 0..MaxAmount] /\ 0 \in 0..MaxAmount
      BY <1>2, BoundsAssumption
    <3>2. C[e] = [comp[e] EXCEPT ![year] = 0]
      BY <1>5
    <3>. QED BY <3>1, <3>2
  <2>2. C = [e \in EventIds |-> C[e]]
    BY <1>2 DEF Cleared
  <2>. QED BY <2>1, <2>2
<1>10. ASSUME NEW e \in EventIds
       PROVE  /\ C[e][year] = 0
              /\ \A y \in Years : C[e][y] > 0 =>
                   y \in Closed \ {year} /\ e \in DOMAIN L /\ Origin(events, e) <= y
  <2>1. C[e] = [comp[e] EXCEPT ![year] = 0] /\ comp[e] \in [Years -> 0..MaxAmount]
    BY <1>2, <1>5
  <2>2. C[e][year] = 0 /\ \A y \in Years : y # year => C[e][y] = comp[e][y]
    BY <2>1
  <2>3. ASSUME NEW y \in Years, C[e][y] > 0
        PROVE  y \in Closed \ {year} /\ e \in DOMAIN L /\ Origin(events, e) <= y
    <3>1. y # year /\ comp[e][y] > 0
      BY <2>2, <2>3
    <3>. QED BY <1>4, <3>1 DEF Safety, CompensationsOfClosedYears
  <2>. QED BY <2>2, <2>3
<1>11. DOMAIN L \subseteq DOMAIN events
  BY <1>4 DEF Safety, TypeOK
<1>12. \A e \in DOMAIN L : /\ L[e].remaining >= 0
                           /\ L[e].remaining + Total(C[e], LastYear) = L[e].amount
  BY <1>4, <1>7
<1>. HIDE DEF LedgerSound
<1>. QED BY <1>8, <1>9, <1>10, <1>11, <1>12 DEF LedgerSound

(* The transaction of a closing, also of a year that is closed: what it took
   from the ledger goes back first. *)
LEMMA CloseTransactionSafe ==
  ASSUME Safety, NEW year \in Years, CloseTransaction(year)
  PROVE  Safety'
<1>. DEFINE L == Returned(loss, comp, year)
            C == Cleared(comp, year)
            gain == resultados_alienacao(year)
            snapshot == compute(year)
            income == compute(year).income
            synced == Synced(events, L, C, gain, year, lastLossId)
<1>1. /\ ~ SyncBlocked(L, C, gain)
      /\ synced \in [DOMAIN synced -> LossRecord]
      /\ loss' = Consumed(events, synced, year, income)
      /\ comp' = Compensated(events, synced, C, year, income)
      /\ lastLossId' = lastLossId + Cardinality(NewLosses(L, gain))
      /\ Closed' = Closed \cup {year}
      /\ assessment' = [y \in Closed \cup {year} |-> IF y = year THEN snapshot ELSE assessment[y]]
      /\ snapshot \in Snapshot
      /\ UNCHANGED <<events, openings>>
  <2>1. NewLosses(L, gain) = NewLosses(loss, gain)
    BY DEF NewLosses, Returned
  <2>2. /\ ~ SyncBlocked(loss, C, gain)
        /\ snapshot \in Snapshot
        /\ synced \in [DOMAIN synced -> LossRecord]
        /\ loss' = Consumed(events, synced, year, income)
        /\ comp' = Compensated(events, synced, C, year, income)
        /\ lastLossId' = lastLossId + Cardinality(NewLosses(loss, gain))
        /\ assessment' = [y \in Closed \cup {year} |-> IF y = year THEN snapshot ELSE assessment[y]]
        /\ UNCHANGED <<events, openings>>
    BY DEF CloseTransaction
  <2>3. SyncBlocked(L, C, gain) <=> SyncBlocked(loss, C, gain)
    BY DEF SyncBlocked, Returned
  <2>4. Closed' = Closed \cup {year}
    BY <2>2 DEF Closed
  <2>. HIDE DEF L, C, gain, synced, income, snapshot
  <2>. QED BY <2>1, <2>2, <2>3, <2>4
<1>. HIDE DEF snapshot
<1>14. gain \in [Sales(year) -> Int] /\ income \in Int
  <2>1. gain \in [Sales(year) -> Int]
    BY ResultsInt DEF Safety
  <2>. QED BY <1>1, <2>1, BoundsAssumption DEF Snapshot, Amounts, snapshot
<1>15. /\ LedgerSound(L, C, Closed \ {year})
       /\ \A e \in EventIds : C[e][year] = 0
  BY ReturnedSound
<1>16. synced = Synced(events, L, C, gain, year, lastLossId)
  OBVIOUS
<1>. HIDE DEF L, C, gain, income, synced
<1>. DEFINE use(e) == uso(events, synced, year, income, e)
            spent(e) == IF e \in DOMAIN synced THEN use(e) ELSE 0
<1>2. /\ DOMAIN synced \subseteq DOMAIN events
      /\ \A e \in DOMAIN synced :
           /\ synced[e].remaining >= 0
           /\ synced[e].remaining + Total(C[e], LastYear) = synced[e].amount
      /\ \A e \in DOMAIN L : HasCompensations(C, e) => e \in DOMAIN synced
  BY <1>1, <1>14, <1>15, <1>16, SyncConserves
<1>3. \A e \in DOMAIN synced : /\ synced[e].id \in Nat
                                /\ synced[e].amount \in Amounts /\ synced[e].remaining \in Amounts
  BY <1>1 DEF LossRecord
<1>4. \A e \in DOMAIN synced :
        /\ use(e) \in Nat /\ use(e) <= synced[e].remaining
        /\ use(e) > 0 => e \in open_records(events, synced, year)
  <2>1. \A e \in DOMAIN synced : synced[e].remaining \in Int
    BY <1>3 DEF Amounts
  <2>2. Len(events) \in Nat
    BY EventsAreBookable DEF Safety
  <2>. TAKE e \in DOMAIN synced
  <2>3. /\ use(e) \in Nat
        /\ use(e) > 0 => /\ e \in open_records(events, synced, year)
                         /\ use(e) <= synced[e].remaining
    BY <1>14, <2>1, <2>2, UsoBounds
  <2>4. synced[e].remaining >= 0 /\ synced[e].remaining \in Int
    BY <1>2, <2>1
  <2>. HIDE DEF use
  <2>. QED BY <2>3, <2>4
<1>5. /\ DOMAIN loss' = DOMAIN synced
      /\ \A e \in DOMAIN synced :
           loss'[e] = [synced[e] EXCEPT !.remaining = @ - use(e)]
  BY <1>1 DEF Consumed
<1>6. C \in [EventIds -> [Years -> 0..MaxAmount]]
  BY <1>15 DEF LedgerSound
<1>7. \A e \in EventIds : comp'[e] = [C[e] EXCEPT ![year] = spent(e)]
  BY <1>1, <1>6 DEF Compensated
<1>8. \A e \in EventIds : spent(e) \in 0..MaxAmount
  <2>. HIDE DEF use
  <2>. QED BY <1>3, <1>4, BoundsAssumption DEF Amounts
<1>9. \A e \in EventIds : C[e][year] = 0
  BY <1>15
<1>10. DOMAIN synced \subseteq EventIds
  BY <1>2, EventsAreBookable DEF Safety
<1>. HIDE DEF use
<1>11. TypeOK'
  <2>1. loss' \in [DOMAIN loss' -> LossRecord]
    <3>1. \A e \in DOMAIN synced : synced[e] \in LossRecord
      BY <1>1
    <3>2. \A e \in DOMAIN synced : synced[e].remaining - use(e) \in Amounts
      BY <1>2, <1>3, <1>4, BoundsAssumption DEF Amounts
    <3>3. \A e \in DOMAIN synced : loss'[e] \in LossRecord
      BY <1>5, <3>1, <3>2 DEF LossRecord
    <3>4. loss' = [e \in DOMAIN synced |-> loss'[e]]
      BY <1>1, <1>5 DEF Consumed
    <3>. QED BY <1>5, <3>3, <3>4
  <2>2. comp' \in [EventIds -> [Years -> 0..MaxAmount]]
    <3>. HIDE DEF spent
    <3>1. ASSUME NEW e \in EventIds
          PROVE  comp'[e] \in [Years -> 0..MaxAmount]
      <4>1. C[e] \in [Years -> 0..MaxAmount] /\ spent(e) \in 0..MaxAmount
        BY <1>6, <1>8
      <4>2. comp'[e] = [C[e] EXCEPT ![year] = spent(e)]
        BY <1>7
      <4>. QED BY <4>1, <4>2
    <3>2. comp' = [e \in EventIds |-> comp'[e]]
      BY <1>1, <1>6 DEF Compensated
    <3>. QED BY <3>1, <3>2
  <2>3. lastLossId' \in Nat
    <3>1. NewLosses(L, gain) \in SUBSET DOMAIN events
      BY ResultsInt DEF NewLosses, Safety, gain
    <3>2. Cardinality(NewLosses(L, gain)) \in Nat
      BY <3>1, EventsAreBookable, FS_Subset, FS_CardinalityType DEF Safety
    <3>. QED BY <1>1, <3>2 DEF Safety, TypeOK
  <2>4. Closed' \subseteq Years /\ assessment' \in [Closed' -> Snapshot]
    BY <1>1 DEF Safety, TypeOK
  <2>5. /\ events' \in Seq(Event) /\ Len(events') <= MaxEvents
        /\ openings' \subseteq OpeningPositions /\ DOMAIN loss' \subseteq DOMAIN events'
    BY <1>1, <1>2, <1>5 DEF Safety, TypeOK
  <2>. QED BY <2>1, <2>2, <2>3, <2>4, <2>5 DEF TypeOK
<1>12. LossConservation'
  <2>. SUFFICES ASSUME NEW e \in DOMAIN loss'
                PROVE  /\ loss'[e].remaining >= 0
                       /\ loss'[e].remaining + Total(comp'[e], LastYear) = loss'[e].amount
    BY DEF LossConservation
  <2>1. e \in DOMAIN synced /\ e \in EventIds
    BY <1>5, <1>10
  <2>2. loss'[e].remaining = synced[e].remaining - use(e) /\ loss'[e].amount = synced[e].amount
    BY <1>1, <1>5, <2>1 DEF LossRecord
  <2>3. C[e] \in [Years -> 0..MaxAmount] /\ use(e) \in 0..MaxAmount
    BY <1>6, <1>8, <2>1
  <2>4. /\ Total(C[e], LastYear) \in Int
        /\ Total(comp'[e], LastYear) = Total(C[e], LastYear) + use(e) - C[e][year]
    <3>1. comp'[e] = [C[e] EXCEPT ![year] = use(e)]
      BY <1>7, <2>1
    <3>. QED BY <2>3, <3>1, TotalOfYear
  <2>5. /\ synced[e].remaining \in Int /\ synced[e].amount \in Int
        /\ synced[e].remaining + Total(C[e], LastYear) = synced[e].amount
        /\ use(e) \in Nat /\ use(e) <= synced[e].remaining /\ C[e][year] = 0
    BY <1>2, <1>3, <1>4, <1>9, <2>1 DEF Amounts
  <2>. QED BY <2>2, <2>4, <2>5
<1>13. CompensationsOfClosedYears'
  <2>. SUFFICES ASSUME NEW e \in EventIds, NEW y \in Years, comp'[e][y] > 0
                PROVE  y \in Closed' /\ e \in DOMAIN loss' /\ Origin(events', e) <= y
    BY DEF CompensationsOfClosedYears
  <2>1. CASE y = year
    <3>1. spent(e) > 0
      BY <1>6, <1>7, <2>1
    <3>2. e \in DOMAIN synced /\ e \in open_records(events, synced, year)
      BY <1>4, <3>1
    <3>. QED BY <1>1, <1>5, <2>1, <3>2 DEF open_records
  <2>2. CASE y # year
    <3>1. C[e][y] > 0
      <4>. HIDE DEF spent
      <4>1. C[e] \in [Years -> 0..MaxAmount]
        BY <1>6
      <4>2. comp'[e] = [C[e] EXCEPT ![year] = spent(e)]
        BY <1>7
      <4>3. comp'[e][y] = C[e][y]
        BY <4>1, <4>2, <2>2
      <4>. QED BY <4>3
    <3>2. y \in Closed /\ e \in DOMAIN L /\ Origin(events, e) <= y
      BY <1>15, <3>1 DEF LedgerSound
    <3>3. HasCompensations(C, e)
      BY <1>6, <3>1 DEF HasCompensations
    <3>. QED BY <1>1, <1>2, <1>5, <3>2, <3>3
  <2>. QED BY <2>1, <2>2
<1>. QED BY <1>11, <1>12, <1>13 DEF Safety

LEMMA CloseYearSafe ==
  ASSUME Safety, NEW year \in Years, CloseYear(year)
  PROVE  Safety'
BY CloseTransactionSafe DEF CloseYear

(* Reopening a year gives back to each record what the year took from it,
   whatever other years are closed. *)
LEMMA ReopenTransactionSafe ==
  ASSUME Safety, NEW year \in Years, ReopenTransaction(year)
  PROVE  Safety'
<1>1. /\ loss' = Returned(loss, comp, year) /\ comp' = Cleared(comp, year)
      /\ assessment' = [y \in Closed \ {year} |-> assessment[y]]
      /\ UNCHANGED <<events, openings, lastLossId>>
  BY DEF ReopenTransaction
<1>2. Closed' = Closed \ {year}
  BY <1>1 DEF Closed
<1>3. LedgerSound(loss', comp', Closed')
  BY <1>1, <1>2, ReturnedSound
<1>4. TypeOK'
  BY <1>1, <1>2, <1>3 DEF LedgerSound, Safety, TypeOK
<1>5. LossConservation' /\ CompensationsOfClosedYears'
  BY <1>1, <1>2, <1>3 DEF LedgerSound, LossConservation, CompensationsOfClosedYears
<1>. QED BY <1>4, <1>5 DEF Safety

LEMMA ReopenYearSafe ==
  ASSUME Safety, NEW year \in Years, ReopenYear(year)
  PROVE  Safety'
BY ReopenTransactionSafe DEF ReopenYear

LEMMA NextSafe == Safety /\ [Next]_vars => Safety'
<1>. SUFFICES ASSUME Safety, [Next]_vars PROVE Safety'
  OBVIOUS
<1>1. CASE \E d \in Drafts : RecordEvent(d)
  BY <1>1, RecordEventSafe
<1>2. CASE \E i \in DOMAIN events, d \in Drafts : CorrectEvent(i, d)
  BY <1>2, CorrectEventSafe
<1>3. CASE \E i \in DOMAIN events : DeactivateEvent(i)
  BY <1>3, DeactivateEventSafe
<1>4. CASE \E o \in OpeningDrafts : SaveOpening(o)
  BY <1>4, SaveOpeningSafe
<1>5. CASE \E y \in Years : CloseYear(y)
  BY <1>5, CloseYearSafe
<1>6. CASE \E y \in Years : ReopenYear(y)
  BY <1>6, ReopenYearSafe
<1>7. CASE UNCHANGED vars
  <2>1. /\ events' = events /\ openings' = openings /\ loss' = loss /\ comp' = comp
        /\ lastLossId' = lastLossId /\ assessment' = assessment
    BY <1>7 DEF vars
  <2>2. events' \in Seq(Event) /\ Len(events') <= MaxEvents /\ openings' \subseteq OpeningPositions
    BY <2>1 DEF Safety, TypeOK
  <2>. QED BY <2>1, <2>2, LedgerStepSafe
<1>. QED BY <1>1, <1>2, <1>3, <1>4, <1>5, <1>6, <1>7 DEF Next

THEOREM AlwaysSafe == Spec => []Safety
<1>1. Init => Safety
  BY InitSafe
<1>2. Safety /\ [Next]_vars => Safety'
  BY NextSafe
<1>. QED BY <1>1, <1>2, PTL DEF Spec

(* The tables of the closing keep their types and fit their columns. *)
THEOREM TypeCorrect == Spec => []TypeOK
<1>1. Safety => TypeOK
  BY DEF Safety
<1>. QED BY <1>1, AlwaysSafe, PTL

(* Over any sequence of closings, reopenings, corrections and openings, a
   loss is spent once: its balance and its compensations make its amount. *)
THEOREM LossesConserved == Spec => []LossConservation
<1>1. Safety => LossConservation
  BY DEF Safety
<1>. QED BY <1>1, AlwaysSafe, PTL

(* No compensation outlives its year's closing or its LossRecord. *)
THEOREM CompensationsBacked == Spec => []CompensationsOfClosedYears
<1>1. Safety => CompensationsOfClosedYears
  BY DEF Safety
<1>. QED BY <1>1, AlwaysSafe, PTL

-------------------------------------------------------------------------------
(* A year keeps its facts when no event of the year appears, disappears or
   changes. *)
LEMMA FactsKept ==
  ASSUME NEW y,
         \A i \in DOMAIN events : events[i].active /\ ano_fiscal_de(events[i]) = y
            => i \in DOMAIN events' /\ events'[i] = events[i],
         \A i \in DOMAIN events' : events'[i].active /\ ano_fiscal_de(events'[i]) = y
            => i \in DOMAIN events /\ events'[i] = events[i]
  PROVE  FactsOf(y)' = FactsOf(y)
<1>. DEFINE ids == {i \in DOMAIN events : events[i].active /\ ano_fiscal_de(events[i]) = y}
            new == {i \in DOMAIN events' : events'[i].active /\ ano_fiscal_de(events'[i]) = y}
<1>1. new = ids /\ \A i \in ids : events'[i] = events[i]
  OBVIOUS
<1>2. FactsOf(y) = [i \in ids |-> events[i]] /\ FactsOf(y)' = [i \in new |-> events'[i]]
  BY DEF FactsOf
<1>. HIDE DEF ids, new
<1>. QED BY <1>1, <1>2

(* What was sealed with a year stays when its snapshot, its compensations
   and the amounts of its losses do. *)
LEMMA SealKept ==
  ASSUME NEW y, assessment'[y] = assessment[y],
         \A e \in EventIds : comp'[e][y] = comp[e][y],
         \A e : e \in DOMAIN loss' /\ Origin(events', e) = y
                  <=> e \in DOMAIN loss /\ Origin(events, e) = y,
         \A e \in DOMAIN loss : Origin(events, e) = y => loss'[e].amount = loss[e].amount
  PROVE  SealedBy(y)' = SealedBy(y)
<1>. DEFINE of == {e \in DOMAIN loss : Origin(events, e) = y}
            new == {e \in DOMAIN loss' : Origin(events', e) = y}
<1>1. new = of
  OBVIOUS
<1>2. [e \in new |-> loss'[e].amount] = [e \in of |-> loss[e].amount]
  BY <1>1
<1>3. [e \in EventIds |-> comp'[e][y]] = [e \in EventIds |-> comp[e][y]]
  OBVIOUS
<1>4. /\ SealedBy(y) = [snapshot |-> assessment[y], consumed |-> [e \in EventIds |-> comp[e][y]],
                        losses |-> [e \in of |-> loss[e].amount]]
      /\ SealedBy(y)' = [snapshot |-> assessment'[y], consumed |-> [e \in EventIds |-> comp'[e][y]],
                         losses |-> [e \in new |-> loss'[e].amount]]
  BY DEF SealedBy
<1>. HIDE DEF of, new
<1>. QED BY <1>2, <1>3, <1>4

(* A handler of the ledger is an edit when it spares the facts of the
   closed years. *)
LEMMA LedgerStepEdits ==
  ASSUME Safety, UNCHANGED <<loss, comp, assessment>>,
         \A i \in DOMAIN events : events'[i].trade = events[i].trade,
         \A y \in Closed : FactsOf(y)' = FactsOf(y)
  PROVE  Promise!Edit
<1>1. Closed' = Closed /\ Closed \subseteq Years
  BY DEF Closed, Safety, TypeOK
<1>2. \A e \in DOMAIN loss : Origin(events', e) = Origin(events, e)
  BY DEF Origin, Safety, TypeOK
<1>3. ASSUME NEW y \in Closed
      PROVE  SealedBy(y)' = SealedBy(y)
  BY <1>2, SealKept
<1>4. [y \in Closed |-> SealedBy(y)]' = [y \in Closed |-> SealedBy(y)]
  BY <1>1, <1>3
<1>5. \A y \in Closed : [z \in Years |-> FactsOf(z)]'[y] = [z \in Years |-> FactsOf(z)][y]
  BY <1>1
<1>. QED BY <1>4, <1>5 DEF Promise!Edit

LEMMA FiscalYearOfNewEvent ==
  ASSUME NEW d, NEW original
  PROVE  ano_fiscal_de(NewEvent(d, original)) = ano_fiscal_de(d)
BY DEF ano_fiscal_de, NewEvent

LEMMA AppendedLast ==
  ASSUME NEW evs \in Seq(Event), NEW ev \in Event
  PROVE  \A j \in DOMAIN Append(evs, ev) :
           (j \in DOMAIN evs /\ Append(evs, ev)[j] = evs[j]) \/ Append(evs, ev)[j] = ev
BY AppendProperties

LEMMA RecordEventEdits ==
  ASSUME Safety, NEW d \in Drafts, RecordEvent(d)
  PROVE  Promise!Edit
<1>1. events \in Seq(Event) /\ NewEvent(d, 0) \in Event
  BY NewEventType, BoundsAssumption DEF Safety, TypeOK
<1>2. /\ \A j \in DOMAIN events : j \in DOMAIN events' /\ events'[j] = events[j]
      /\ \A j \in DOMAIN events' : (j \in DOMAIN events /\ events'[j] = events[j])
                                      \/ events'[j] = NewEvent(d, 0)
  BY <1>1, AppendedType, AppendedLast DEF RecordEvent
<1>3. ASSUME NEW y \in Closed
      PROVE  FactsOf(y)' = FactsOf(y)
  <2>1. ano_fiscal_de(NewEvent(d, 0)) # y
    BY FiscalYearOfNewEvent DEF RecordEvent, Admitted, Open
  <2>. QED BY <1>2, <2>1, FactsKept
<1>. QED BY <1>2, <1>3, LedgerStepEdits DEF RecordEvent

(* Deactivating an event of an open year spares the closed years, and so
   does what is appended for an open year after it. *)
LEMMA DeactivationEdits ==
  ASSUME Safety, NEW i \in DOMAIN events, Open(ano_fiscal_de(events[i])),
         NEW new, Open(ano_fiscal_de(new)),
         UNCHANGED <<loss, comp, assessment>>,
         \A j \in DOMAIN events :
           /\ j \in DOMAIN events'
           /\ events'[j] = IF j = i THEN [events[i] EXCEPT !.active = FALSE] ELSE events[j],
         \A j \in DOMAIN events' : j \in DOMAIN events \/ events'[j] = new
  PROVE  Promise!Edit
<1>1. \A j \in DOMAIN events : events[j] \in Event
  BY EventsAreBookable DEF Safety
<1>2. events'[i].active = FALSE
  BY <1>1 DEF Event
<1>3. \A j \in DOMAIN events : events'[j].trade = events[j].trade
  BY <1>1 DEF Event
<1>4. ASSUME NEW y \in Closed
      PROVE  FactsOf(y)' = FactsOf(y)
  <2>1. ano_fiscal_de(events[i]) # y /\ ano_fiscal_de(new) # y
    BY DEF Open
  <2>2. \A j \in DOMAIN events : events[j].active /\ ano_fiscal_de(events[j]) = y
            => j \in DOMAIN events' /\ events'[j] = events[j]
    BY <2>1
  <2>3. \A j \in DOMAIN events' : events'[j].active /\ ano_fiscal_de(events'[j]) = y
            => j \in DOMAIN events /\ events'[j] = events[j]
    BY <1>2, <2>1
  <2>. QED BY <2>2, <2>3, FactsKept
<1>. QED BY <1>3, <1>4, LedgerStepEdits

LEMMA DeactivateEventEdits ==
  ASSUME Safety, NEW i \in DOMAIN events, DeactivateEvent(i)
  PROVE  Promise!Edit
<1>1. /\ Open(ano_fiscal_de(events[i])) /\ UNCHANGED <<loss, comp, assessment>>
      /\ events' = [events EXCEPT ![i].active = FALSE]
  BY DEF DeactivateEvent
<1>2. /\ DOMAIN events' = DOMAIN events
      /\ \A j \in DOMAIN events :
           events'[j] = IF j = i THEN [events[i] EXCEPT !.active = FALSE] ELSE events[j]
  BY <1>1, DeactivatedType DEF Safety
<1>. QED BY <1>1, <1>2, DeactivationEdits

LEMMA CorrectEventEdits ==
  ASSUME Safety, NEW i \in DOMAIN events, NEW d \in Drafts, CorrectEvent(i, d)
  PROVE  Promise!Edit
<1>. DEFINE deactivated == [events EXCEPT ![i].active = FALSE]
<1>1. /\ Open(ano_fiscal_de(events[i])) /\ Open(ano_fiscal_de(NewEvent(d, i)))
      /\ UNCHANGED <<loss, comp, assessment>>
      /\ events' = IF d.taxFactsValid THEN Append(deactivated, NewEvent(d, i)) ELSE deactivated
  BY FiscalYearOfNewEvent DEF CorrectEvent, Admitted
<1>2. /\ deactivated \in Seq(Event) /\ DOMAIN deactivated = DOMAIN events
      /\ \A j \in DOMAIN events :
           deactivated[j] = IF j = i THEN [events[i] EXCEPT !.active = FALSE] ELSE events[j]
  BY DeactivatedType DEF Safety
<1>3. NewEvent(d, i) \in Event
  <2>1. i \in 0..MaxEvents
    BY EventsAreBookable, BoundsAssumption DEF EventIds, Safety
  <2>. QED BY <2>1, NewEventType
<1>. HIDE DEF deactivated
<1>4. /\ \A j \in DOMAIN deactivated : j \in DOMAIN events' /\ events'[j] = deactivated[j]
      /\ \A j \in DOMAIN events' : j \in DOMAIN deactivated \/ events'[j] = NewEvent(d, i)
  <2>1. CASE d.taxFactsValid
    <3>1. events' = Append(deactivated, NewEvent(d, i))
      BY <1>1, <2>1
    <3>. QED BY <1>2, <1>3, <3>1, AppendedType, AppendedLast
  <2>2. CASE ~ d.taxFactsValid
    BY <1>1, <2>2
  <2>. QED BY <2>1, <2>2
<1>5. \A j \in DOMAIN events :
        /\ j \in DOMAIN events'
        /\ events'[j] = IF j = i THEN [events[i] EXCEPT !.active = FALSE] ELSE events[j]
  BY <1>2, <1>4
<1>6. \A j \in DOMAIN events' : j \in DOMAIN events \/ events'[j] = NewEvent(d, i)
  BY <1>2, <1>4
<1>. QED BY <1>1, <1>5, <1>6, DeactivationEdits

LEMMA SaveOpeningEdits ==
  ASSUME Safety, NEW o \in OpeningDrafts, SaveOpening(o)
  PROVE  Promise!Edit
<1>1. events' = events /\ UNCHANGED <<loss, comp, assessment>>
  BY DEF SaveOpening
<1>2. \A y \in Closed : FactsOf(y)' = FactsOf(y)
  BY <1>1, FactsKept
<1>. QED BY <1>1, <1>2, LedgerStepEdits

LEMMA FactsUntouched ==
  ASSUME UNCHANGED events
  PROVE  UNCHANGED [y \in Years |-> FactsOf(y)]
<1>1. \A y \in Years : FactsOf(y)' = FactsOf(y)
  BY FactsKept
<1>. QED BY <1>1

(* Closing a year seals it and touches nothing sealed before: the records
   the sync rewrites and drops originate in the year itself. *)
LEMMA CloseYearSeals ==
  ASSUME Safety, NEW year \in Years, CloseYear(year)
  PROVE  Promise!Seal(year)
<1>1. PICK gain, income, snapshot, synced :
           /\ gain \in [Sales(year) -> Int] /\ income \in Int /\ snapshot \in Snapshot
           /\ year \notin Closed
           /\ \A y \in Closed : y < year
           /\ ~ SyncBlocked(loss, comp, gain)
           /\ synced = Synced(events, loss, comp, gain, year, lastLossId)
           /\ synced \in [DOMAIN synced -> LossRecord]
           /\ loss' = Consumed(events, synced, year, income)
           /\ comp' = Compensated(events, synced, comp, year, income)
           /\ lastLossId' = lastLossId + Cardinality(NewLosses(loss, gain))
           /\ Closed' = Closed \cup {year}
           /\ assessment' = [y \in Closed \cup {year} |-> IF y = year THEN snapshot ELSE assessment[y]]
           /\ UNCHANGED <<events, openings>>
  BY CloseYearEffect
<1>. gain \in [Sales(year) -> Int] /\ income \in Int /\ snapshot \in Snapshot
  BY <1>1
<1>2. comp \in [EventIds -> [Years -> 0..MaxAmount]] /\ Closed \subseteq Years
  BY DEF Safety, TypeOK
<1>3. \A e \in DOMAIN gain : Origin(events, e) = year
  BY DEF Sales, Origin
<1>4. /\ DOMAIN loss' = DOMAIN synced
      /\ \A e \in DOMAIN synced : loss'[e].amount = synced[e].amount
  <2>1. \A e \in DOMAIN synced : synced[e] \in LossRecord
    BY <1>1
  <2>. QED BY <1>1, <2>1 DEF Consumed, LossRecord
<1>5. \A e : Origin(events, e) # year =>
        /\ e \in DOMAIN synced <=> e \in DOMAIN loss
        /\ e \in DOMAIN synced => synced[e] = loss[e]
  <2>1. DOMAIN synced = (DOMAIN loss \ Dropped(events, loss, comp, gain, year))
                          \cup NewLosses(loss, gain)
    BY <1>1 DEF Synced
  <2>. TAKE e
  <2>. HAVE Origin(events, e) # year
  <2>2. e \notin DOMAIN gain
    BY <1>3
  <2>3. e \in DOMAIN synced <=> e \in DOMAIN loss
    BY <2>1, <2>2 DEF Dropped, NewLosses
  <2>4. e \in DOMAIN synced => synced[e] = loss[e]
    BY <1>1, <2>2 DEF Synced
  <2>. QED BY <2>3, <2>4
<1>6. ASSUME NEW y \in Closed
      PROVE  SealedBy(y)' = SealedBy(y)
  <2>1. y # year /\ y \in Years
    BY <1>1, <1>2
  <2>2. assessment'[y] = assessment[y]
    BY <1>1, <2>1
  <2>3. \A e \in EventIds : comp'[e][y] = comp[e][y]
    BY <1>1, <1>2, <2>1 DEF Compensated
  <2>4. \A e : Origin(events', e) = Origin(events, e)
    BY <1>1
  <2>5. /\ \A e : e \in DOMAIN loss' /\ Origin(events', e) = y
                   <=> e \in DOMAIN loss /\ Origin(events, e) = y
        /\ \A e \in DOMAIN loss : Origin(events, e) = y => loss'[e].amount = loss[e].amount
    BY <1>4, <1>5, <2>1, <2>4
  <2>. QED BY <2>2, <2>3, <2>5, SealKept
<1>7. UNCHANGED [y \in Years |-> FactsOf(y)]
  BY <1>1, FactsUntouched
<1>8. \A y \in Closed : [z \in Closed |-> SealedBy(z)]'[y] = [z \in Closed |-> SealedBy(z)][y]
  BY <1>1, <1>6
<1>. QED BY <1>1, <1>7, <1>8 DEF Promise!Seal

(* Reopening unseals the year; a year that is open stays as it is. *)
LEMMA ReopenYearUnseals ==
  ASSUME Safety, NEW year \in Years, ReopenYear(year)
  PROVE  Promise!Unseal(year) \/ Promise!Edit
<1>1. /\ \A y \in Closed : y <= year
      /\ loss' = Returned(loss, comp, year) /\ comp' = Cleared(comp, year)
      /\ assessment' = [y \in Closed \ {year} |-> assessment[y]]
      /\ UNCHANGED <<events, openings, lastLossId>>
  BY DEF ReopenYear, ReopenTransaction
<1>2. /\ comp \in [EventIds -> [Years -> 0..MaxAmount]] /\ Closed \subseteq Years
      /\ loss \in [DOMAIN loss -> LossRecord]
  BY DEF Safety, TypeOK
<1>3. Closed' = Closed \ {year}
  BY <1>1 DEF Closed
<1>4. /\ DOMAIN loss' = DOMAIN loss
      /\ \A e \in DOMAIN loss : loss'[e].amount = loss[e].amount
  <2>1. \A e \in DOMAIN loss : loss[e] \in LossRecord
    BY <1>2
  <2>. QED BY <1>1, <2>1 DEF Returned, LossRecord
<1>5. ASSUME NEW y \in Closed, y # year
      PROVE  SealedBy(y)' = SealedBy(y)
  <2>1. assessment'[y] = assessment[y]
    BY <1>1, <1>5
  <2>2. \A e \in EventIds : comp'[e][y] = comp[e][y]
    BY <1>1, <1>2, <1>5 DEF Cleared
  <2>3. \A e : Origin(events', e) = Origin(events, e)
    BY <1>1
  <2>. QED BY <1>4, <2>1, <2>2, <2>3, SealKept
<1>6. UNCHANGED [y \in Years |-> FactsOf(y)]
  BY <1>1, FactsUntouched
<1>7. \A y \in Closed' : [z \in Closed |-> SealedBy(z)]'[y] = [z \in Closed |-> SealedBy(z)][y]
  BY <1>3, <1>5
<1>8. CASE year \in Closed
  BY <1>1, <1>3, <1>6, <1>7, <1>8 DEF Promise!Unseal
<1>9. CASE year \notin Closed
  <2>1. Closed' = Closed
    BY <1>3, <1>9
  <2>2. [y \in Closed |-> SealedBy(y)]' = [y \in Closed |-> SealedBy(y)]
    BY <1>5, <1>9, <2>1
  <2>. QED BY <1>6, <2>2 DEF Promise!Edit
<1>. QED BY <1>8, <1>9

LEMMA InitPromise == Init => Promise!Init
<1>. SUFFICES ASSUME Init PROVE Promise!Init
  OBVIOUS
<1>1. DOMAIN events = {} /\ Closed = {}
  BY DEF Init, Closed
<1>2. \A y \in Years : FactsOf(y) = [i \in {} |-> i]
  <2>. TAKE y \in Years
  <2>1. {i \in DOMAIN events : events[i].active /\ ano_fiscal_de(events[i]) = y} = {}
    BY <1>1
  <2>. QED BY <2>1 DEF FactsOf
<1>. QED BY <1>1, <1>2 DEF Promise!Init

(* Refinement: every step of the closing is a step of its promise. *)
THEOREM ClosingImplementsPromise == Spec => ClosingSealsYears
<1>1. Init => Promise!Init
  BY InitPromise
<1>2. Safety /\ [Next]_vars => [Promise!Next]_(Promise!vars)
  <2>. SUFFICES ASSUME Safety, [Next]_vars
                PROVE  [Promise!Next]_(Promise!vars)
    OBVIOUS
  <2>1. CASE \E d \in Drafts : RecordEvent(d)
    BY <2>1, RecordEventEdits DEF Promise!Next
  <2>2. CASE \E i \in DOMAIN events, d \in Drafts : CorrectEvent(i, d)
    BY <2>2, CorrectEventEdits DEF Promise!Next
  <2>3. CASE \E i \in DOMAIN events : DeactivateEvent(i)
    BY <2>3, DeactivateEventEdits DEF Promise!Next
  <2>4. CASE \E o \in OpeningDrafts : SaveOpening(o)
    BY <2>4, SaveOpeningEdits DEF Promise!Next
  <2>5. CASE \E y \in Years : CloseYear(y)
    BY <2>5, CloseYearSeals DEF Promise!Next
  <2>6. CASE \E y \in Years : ReopenYear(y)
    BY <2>6, ReopenYearUnseals DEF Promise!Next
  <2>7. CASE UNCHANGED vars
    <3>1. events' = events /\ UNCHANGED <<loss, comp, assessment>>
      BY <2>7 DEF vars
    <3>2. \A y \in Closed : FactsOf(y)' = FactsOf(y)
      BY <3>1, FactsKept
    <3>3. Promise!Edit
      BY <3>1, <3>2, LedgerStepEdits
    <3>. QED BY <3>3 DEF Promise!Next
  <2>. QED BY <2>1, <2>2, <2>3, <2>4, <2>5, <2>6, <2>7 DEF Next
<1>. QED BY <1>1, <1>2, AlwaysSafe, PTL DEF Spec, ClosingSealsYears, Promise!Spec


-------------------------------------------------------------------------------
(* What keeps the ledger, the snapshots and the facts of the closed years
   together, on top of Safety. *)

(* The dates of an event are of years that have a tax rule. *)
EventYears ==
  \A i \in DOMAIN events :
    YearOf(events[i].trade) \in Years /\ YearOf(events[i].receipt) \in Years

(* Only sales have a LossRecord. *)
LossesOfSales == \A e \in DOMAIN loss : events[e].type = "SELL"

(* No two LossRecords have the same id. *)
IdsOnce ==
  \A e, f \in DOMAIN loss :
    loss[e].id <= lastLossId /\ (e # f => loss[e].id # loss[f].id)

(* A closed year that carries a loss forward left a LossRecord behind. *)
CarriedLossesExist ==
  \A y \in Closed :
    /\ assessment[y].carryforward >= 0
    /\ assessment[y].carryforward > 0 => \E e \in DOMAIN loss : Origin(events, e) <= y

(* What a closed year carries forward is the historical balance of the
   ledger when the next year begins. *)
CarryforwardHistoric ==
  \A y \in Closed :
    AllClosedUpTo(y) =>
      assessment[y].carryforward = available_at_start_of(events, loss, comp, y + 1)

ClosedLedger ==
  /\ Safety /\ EventYears /\ LossesOfSales /\ IdsOnce
  /\ CarriedLossesExist /\ CarryforwardHistoric
  /\ FifoOrder /\ TaxBaseBackedByLedger /\ ClosedSalesCovered

-------------------------------------------------------------------------------
(* What a handler of the ledger does: it deactivates events of open years,
   appends events to open years, and adds openings dated after every closed
   year. *)
LedgerStep ==
  /\ UNCHANGED <<loss, comp, lastLossId, assessment>>
  /\ Len(events') \in Nat /\ DOMAIN events' = 1..Len(events')
  /\ \A i \in DOMAIN events' : events'[i] \in Event
  /\ \A i \in DOMAIN events :
       /\ i \in DOMAIN events'
       /\ events'[i].type = events[i].type
       /\ events'[i].trade = events[i].trade
       /\ events'[i].receipt = events[i].receipt
       /\ events'[i].active => events[i].active
       /\ Open(ano_fiscal_de(events[i])) \/ events'[i] = events[i]
  /\ \A i \in DOMAIN events' \ DOMAIN events :
       /\ YearOf(events'[i].trade) \in Years /\ YearOf(events'[i].receipt) \in Years
       /\ Open(ano_fiscal_de(events'[i]))
  /\ openings \subseteq openings' /\ openings' \subseteq OpeningPositions
  /\ \A o \in openings' \ openings : \A y \in Closed : y < YearOf(o.date)

LEMMA RecordEventStep ==
  ASSUME Safety, NEW d \in Drafts, RecordEvent(d)
  PROVE  LedgerStep /\ UNCHANGED openings
<1>1. events \in Seq(Event) /\ NewEvent(d, 0) \in Event
  BY NewEventType, BoundsAssumption DEF Safety, TypeOK
<1>2. /\ events' = Append(events, NewEvent(d, 0)) /\ Open(ano_fiscal_de(d))
      /\ UNCHANGED <<openings, loss, comp, lastLossId, assessment>>
  BY DEF RecordEvent, Admitted
<1>3. /\ events' \in Seq(Event)
      /\ \A j \in DOMAIN events : j \in DOMAIN events' /\ events'[j] = events[j]
      /\ \A j \in DOMAIN events' : j \in DOMAIN events \/ events'[j] = NewEvent(d, 0)
  BY <1>1, <1>2, AppendedType, AppendedLast
<1>4. /\ Len(events') \in Nat /\ DOMAIN events' = 1..Len(events')
      /\ \A i \in DOMAIN events' : events'[i] \in Event
  BY <1>3
<1>5. /\ YearOf(NewEvent(d, 0).trade) \in Years /\ YearOf(NewEvent(d, 0).receipt) \in Years
      /\ Open(ano_fiscal_de(NewEvent(d, 0)))
  <2>1. Open(ano_fiscal_de(NewEvent(d, 0)))
    BY <1>2, FiscalYearOfNewEvent
  <2>. QED BY <2>1, InputsAssumption DEF NewEvent
<1>6. openings \subseteq OpeningPositions
  BY DEF Safety, TypeOK
<1>. QED BY <1>2, <1>3, <1>4, <1>5, <1>6 DEF LedgerStep

(* Deactivating an event of an open year, and appending one to an open year
   or not. *)
LEMMA DeactivationStep ==
  ASSUME Safety, NEW i \in DOMAIN events, Open(ano_fiscal_de(events[i])),
         NEW new, Open(ano_fiscal_de(new)),
         YearOf(new.trade) \in Years, YearOf(new.receipt) \in Years,
         UNCHANGED <<openings, loss, comp, lastLossId, assessment>>,
         events' \in Seq(Event),
         \A j \in DOMAIN events :
           /\ j \in DOMAIN events'
           /\ events'[j] = IF j = i THEN [events[i] EXCEPT !.active = FALSE] ELSE events[j],
         \A j \in DOMAIN events' : j \in DOMAIN events \/ events'[j] = new
  PROVE  LedgerStep /\ UNCHANGED openings
<1>1. \A j \in DOMAIN events : events[j] \in Event
  BY EventsAreBookable DEF Safety
<1>2. /\ events'[i].active = FALSE /\ events'[i].type = events[i].type
      /\ events'[i].trade = events[i].trade /\ events'[i].receipt = events[i].receipt
  BY <1>1 DEF Event
<1>3. \A j \in DOMAIN events : j # i => events'[j] = events[j]
  OBVIOUS
<1>4. /\ Len(events') \in Nat /\ DOMAIN events' = 1..Len(events')
      /\ \A j \in DOMAIN events' : events'[j] \in Event
  OBVIOUS
<1>5. openings \subseteq OpeningPositions
  BY DEF Safety, TypeOK
<1>. QED BY <1>2, <1>3, <1>4, <1>5 DEF LedgerStep

LEMMA DeactivateEventStep ==
  ASSUME Safety, EventYears, NEW i \in DOMAIN events, DeactivateEvent(i)
  PROVE  LedgerStep /\ UNCHANGED openings
<1>1. /\ Open(ano_fiscal_de(events[i]))
      /\ UNCHANGED <<openings, loss, comp, lastLossId, assessment>>
      /\ events' = [events EXCEPT ![i].active = FALSE]
  BY DEF DeactivateEvent
<1>2. /\ events' \in Seq(Event) /\ DOMAIN events' = DOMAIN events
      /\ \A j \in DOMAIN events :
           events'[j] = IF j = i THEN [events[i] EXCEPT !.active = FALSE] ELSE events[j]
  BY <1>1, DeactivatedType DEF Safety
<1>3. YearOf(events[i].trade) \in Years /\ YearOf(events[i].receipt) \in Years
  BY DEF EventYears
<1>. QED BY <1>1, <1>2, <1>3, DeactivationStep

LEMMA CorrectEventStep ==
  ASSUME Safety, NEW i \in DOMAIN events, NEW d \in Drafts, CorrectEvent(i, d)
  PROVE  LedgerStep /\ UNCHANGED openings
<1>. DEFINE deactivated == [events EXCEPT ![i].active = FALSE]
            new == NewEvent(d, i)
<1>1. /\ Open(ano_fiscal_de(events[i])) /\ Open(ano_fiscal_de(new))
      /\ UNCHANGED <<openings, loss, comp, lastLossId, assessment>>
      /\ events' = IF d.taxFactsValid THEN Append(deactivated, new) ELSE deactivated
  BY FiscalYearOfNewEvent DEF CorrectEvent, Admitted
<1>2. /\ deactivated \in Seq(Event) /\ DOMAIN deactivated = DOMAIN events
      /\ \A j \in DOMAIN events :
           deactivated[j] = IF j = i THEN [events[i] EXCEPT !.active = FALSE] ELSE events[j]
  BY DeactivatedType DEF Safety
<1>3. new \in Event
  <2>1. i \in 0..MaxEvents
    BY EventsAreBookable, BoundsAssumption DEF EventIds, Safety
  <2>. QED BY <2>1, NewEventType
<1>4. YearOf(new.trade) \in Years /\ YearOf(new.receipt) \in Years
  BY InputsAssumption DEF NewEvent
<1>. HIDE DEF deactivated, new
<1>5. /\ events' \in Seq(Event)
      /\ \A j \in DOMAIN deactivated : j \in DOMAIN events' /\ events'[j] = deactivated[j]
      /\ \A j \in DOMAIN events' : j \in DOMAIN deactivated \/ events'[j] = new
  <2>1. CASE d.taxFactsValid
    <3>1. events' = Append(deactivated, new)
      BY <1>1, <2>1
    <3>. QED BY <1>2, <1>3, <3>1, AppendedType, AppendedLast
  <2>2. CASE ~ d.taxFactsValid
    BY <1>1, <1>2, <2>2
  <2>. QED BY <2>1, <2>2
<1>6. \A j \in DOMAIN events :
        /\ j \in DOMAIN events'
        /\ events'[j] = IF j = i THEN [events[i] EXCEPT !.active = FALSE] ELSE events[j]
  BY <1>2, <1>5
<1>7. \A j \in DOMAIN events' : j \in DOMAIN events \/ events'[j] = new
  BY <1>2, <1>5
<1>. QED BY <1>1, <1>4, <1>5, <1>6, <1>7, DeactivationStep

LEMMA SaveOpeningStep ==
  ASSUME Safety, NEW o \in OpeningDrafts, SaveOpening(o)
  PROVE  LedgerStep
<1>1. /\ \A y \in Closed : y < YearOf(o.date)
      /\ openings' = openings \cup {o}
      /\ UNCHANGED <<events, loss, comp, lastLossId, assessment>>
  BY DEF SaveOpening
<1>2. /\ Len(events) \in Nat /\ DOMAIN events = 1..Len(events)
      /\ \A i \in DOMAIN events : events[i] \in Event
  BY EventsAreBookable DEF Safety
<1>3. openings' \subseteq OpeningPositions
  BY <1>1, InputsAssumption DEF Safety, TypeOK
<1>. QED BY <1>1, <1>2, <1>3 DEF LedgerStep

LEMMA StutteringStep ==
  ASSUME Safety, UNCHANGED vars
  PROVE  LedgerStep /\ UNCHANGED openings
<1>1. UNCHANGED <<events, openings, loss, comp, lastLossId, assessment>>
  BY DEF vars
<1>2. /\ Len(events) \in Nat /\ DOMAIN events = 1..Len(events)
      /\ \A i \in DOMAIN events : events[i] \in Event
  BY EventsAreBookable DEF Safety
<1>3. openings \subseteq OpeningPositions
  BY DEF Safety, TypeOK
<1>. QED BY <1>1, <1>2, <1>3 DEF LedgerStep

-------------------------------------------------------------------------------
LEMMA YearGrows ==
  ASSUME NEW a \in Nat, NEW b \in Nat
  PROVE  /\ YearOf(a) \in Nat /\ YearOf(b) \in Nat
         /\ a <= b => YearOf(a) <= YearOf(b)
BY DEF YearOf

(* The trades up to a closed year, all the years before it closed, are the
   same after a handler of the ledger. *)
LEMMA TradesKept ==
  ASSUME Safety, EventYears, LedgerStep, NEW y \in Closed, AllClosedUpTo(y)
  PROVE  /\ \A i \in DOMAIN events :
              events[i].type # "DIVIDEND" /\ YearOf(events[i].trade) <= y
                => i \in DOMAIN events' /\ events'[i] = events[i]
         /\ \A i \in DOMAIN events' :
              events'[i].type # "DIVIDEND" /\ YearOf(events'[i].trade) <= y
                => i \in DOMAIN events /\ events'[i] = events[i]
<1>1. y \in Years /\ y \in Nat
  BY BoundsAssumption DEF Safety, TypeOK, Years
<1>2. \A z \in Years : z <= y => ~ Open(z)
  BY <1>1 DEF Open, AllClosedUpTo, Years
<1>3. ASSUME NEW i \in DOMAIN events,
             events[i].type # "DIVIDEND", YearOf(events[i].trade) <= y
      PROVE  i \in DOMAIN events' /\ events'[i] = events[i]
  <2>1. ano_fiscal_de(events[i]) = YearOf(events[i].trade)
    BY <1>3 DEF ano_fiscal_de
  <2>2. YearOf(events[i].trade) \in Years
    BY DEF EventYears
  <2>. QED BY <1>2, <1>3, <2>1, <2>2 DEF LedgerStep
<1>4. ASSUME NEW i \in DOMAIN events',
             events'[i].type # "DIVIDEND", YearOf(events'[i].trade) <= y
      PROVE  i \in DOMAIN events /\ events'[i] = events[i]
  <2>1. ano_fiscal_de(events'[i]) = YearOf(events'[i].trade)
    BY <1>4 DEF ano_fiscal_de
  <2>2. i \in DOMAIN events
    BY <1>2, <1>4, <2>1 DEF LedgerStep
  <2>3. events'[i].type = events[i].type /\ events'[i].trade = events[i].trade
    BY <2>2 DEF LedgerStep
  <2>. QED BY <1>3, <1>4, <2>2, <2>3
<1>. QED BY <1>3, <1>4

(* Only openings dated after a closed year are added. *)
LEMMA OpeningBooksKept ==
  ASSUME Safety, LedgerStep, NEW y \in Closed, NEW account,
         NEW until \in Nat, YearOf(until) <= y
  PROVE  OpeningBooks(openings', account, until) = OpeningBooks(openings, account, until)
<1>. DEFINE dated == {o \in openings : o.account = account /\ o.date <= until}
            dated2 == {o \in openings' : o.account = account /\ o.date <= until}
            latest(D) == IF until < OPENING_DATE \/ D = {}
                         THEN [qty |-> 0, cost |-> 0]
                         ELSE LET o == CHOOSE o \in D : \A p \in D : p.date <= o.date
                              IN  [qty |-> o.qty, cost |-> o.cost]
<1>1. y \in Nat /\ openings' \subseteq OpeningPositions
  BY BoundsAssumption DEF Safety, TypeOK, Years, LedgerStep
<1>2. dated2 = dated
  <2>1. ASSUME NEW o \in dated2 PROVE o \in openings
    <3>1. o \in openings' /\ o.date \in Nat /\ o.date <= until
      BY <1>1 DEF OpeningPositions
    <3>2. YearOf(o.date) \in Nat /\ YearOf(o.date) <= YearOf(until) /\ YearOf(until) \in Nat
      BY <3>1, YearGrows
    <3>3. ~ (y < YearOf(o.date))
      BY <1>1, <3>2
    <3>. QED BY <3>1, <3>3 DEF LedgerStep
  <2>. QED BY <2>1 DEF LedgerStep
<1>3. /\ OpeningBooks(openings, account, until) = latest(dated)
      /\ OpeningBooks(openings', account, until) = latest(dated2)
  BY DEF OpeningBooks
<1>. HIDE DEF dated, dated2, latest
<1>. QED BY <1>2, <1>3

(* What the closing of a year checked of its sales stays true. *)
LEMMA CustodyKept ==
  ASSUME Safety, EventYears, LedgerStep, NEW y \in Closed, AllClosedUpTo(y)
  PROVE  /\ Sales(y)' = Sales(y)
         /\ \A i \in Sales(y) :
              /\ events'[i] = events[i]
              /\ custody_before(events', openings', i) = custody_before(events, openings, i)
<1>0. y \in Nat
  BY BoundsAssumption DEF Safety, TypeOK, Years
<1>1. /\ Sales(y)' = Sales(y)
      /\ \A i \in Sales(y) : i \in DOMAIN events /\ events'[i] = events[i]
  <2>1. \A i \in Sales(y) : i \in DOMAIN events /\ i \in DOMAIN events' /\ events'[i] = events[i]
    BY <1>0, TradesKept DEF Sales
  <2>2. \A i \in Sales(y)' : i \in DOMAIN events /\ events'[i] = events[i]
    BY <1>0, TradesKept DEF Sales
  <2>. QED BY <2>1, <2>2 DEF Sales
<1>2. ASSUME NEW i \in Sales(y)
      PROVE  custody_before(events', openings', i) = custody_before(events, openings, i)
  <2>. DEFINE account == events[i].account
              date == events[i].trade
              ids == {j \in Trades(events, account) : j # i /\ events[j].trade <= date}
              ids2 == {j \in Trades(events', account) : j # i /\ events'[j].trade <= date}
              opening == OpeningBooks(openings, account, date)
  <2>1. /\ DOMAIN events \in SUBSET Nat /\ IsFiniteSet(DOMAIN events)
        /\ \A j \in DOMAIN events : events[j] \in Event
        /\ i \in DOMAIN events /\ date \in Nat /\ YearOf(date) = y
    BY EventsAreBookable DEF Safety, Sales, Event
  <2>2. ASSUME NEW j \in ids PROVE j \in ids2 /\ events'[j] = events[j]
    <3>1. /\ j \in DOMAIN events /\ events[j].type # "DIVIDEND"
          /\ events[j].trade \in Nat /\ events[j].trade <= date
      BY <2>1 DEF Trades, Event
    <3>2. YearOf(events[j].trade) <= y
      BY <2>1, <3>1, YearGrows
    <3>3. j \in DOMAIN events' /\ events'[j] = events[j]
      BY <3>1, <3>2, TradesKept
    <3>. QED BY <3>3 DEF Trades
  <2>3. ASSUME NEW j \in ids2 PROVE j \in ids
    <3>1. /\ j \in DOMAIN events' /\ events'[j].type # "DIVIDEND"
          /\ events'[j].trade \in Nat /\ events'[j].trade <= date
      BY DEF Trades, Event, LedgerStep
    <3>2. YearOf(events'[j].trade) <= y
      BY <2>1, <3>1, YearGrows
    <3>3. j \in DOMAIN events /\ events'[j] = events[j]
      BY <3>1, <3>2, TradesKept
    <3>. QED BY <3>3 DEF Trades
  <2>4. ids2 = ids /\ \A j \in ids : events'[j] = events[j]
    BY <2>2, <2>3
  <2>5. ids \in SUBSET DOMAIN events
    BY DEF Trades
  <2>6. /\ ids \in SUBSET Nat /\ IsFiniteSet(ids)
        /\ \A j \in ids : events[j].trade \in Nat
    <3>1. \A j \in DOMAIN events : events[j].trade \in Nat
      BY <2>1 DEF Event
    <3>. HIDE DEF ids
    <3>. QED BY <2>1, <2>5, <3>1, FS_Subset
  <2>7. OpeningBooks(openings', account, date) = opening
    <3>. HIDE DEF account, date
    <3>1. YearOf(date) <= y
      BY <1>0, <2>1
    <3>. QED BY <2>1, <3>1, OpeningBooksKept DEF opening
  <2>8. custody_before(events, openings, i) = Walk(events, opening, ids).qty
    BY DEF custody_before
  <2>9. custody_before(events', openings', i)
          = Walk(events', OpeningBooks(openings', account, date), ids2).qty
    <3>1. events'[i] = events[i]
      BY <1>1
    <3>. QED BY <3>1 DEF custody_before
  <2>. HIDE DEF ids, ids2, opening, account, date
  <2>10. Walk(events', opening, ids) = Walk(events, opening, ids)
    BY <2>4, <2>6, WalkSame
  <2>. QED BY <2>4, <2>7, <2>8, <2>9, <2>10
<1>. QED BY <1>1, <1>2

-------------------------------------------------------------------------------
(* The types of the loss ledger. *)
LEMMA LedgerTypes ==
  ASSUME Safety
  PROVE  /\ \A e \in DOMAIN loss :
              /\ e \in DOMAIN events /\ e \in EventIds /\ e \in Nat
              /\ events[e].trade \in Nat /\ Origin(events, e) \in Nat
              /\ loss[e].id \in Nat /\ loss[e].amount \in Int /\ loss[e].remaining \in Nat
              /\ Summable(comp[e])
              /\ \A n \in Nat : Total(comp[e], n) \in Nat
              /\ loss[e].remaining + Total(comp[e], LastYear) = loss[e].amount
         /\ \A e \in EventIds : comp[e] \in [Years -> Nat] /\ comp[e] \in [Years -> 0..MaxAmount]
         /\ \A e \in EventIds, y \in Years \ Closed : comp[e][y] = 0
         /\ Closed \subseteq Years /\ Years \subseteq Nat /\ LastYear \in Nat
<1>1. /\ DOMAIN loss \subseteq DOMAIN events /\ loss \in [DOMAIN loss -> LossRecord]
      /\ comp \in [EventIds -> [Years -> 0..MaxAmount]]
      /\ Closed \subseteq Years /\ Years \subseteq Nat /\ LastYear \in Nat
  BY BoundsAssumption DEF Safety, TypeOK, Years
<1>2. ASSUME NEW e \in EventIds
      PROVE  comp[e] \in [Years -> Nat] /\ comp[e] \in [Years -> 0..MaxAmount]
  BY <1>1, BoundsAssumption
<1>3. \A e \in EventIds, y \in Years \ Closed : comp[e][y] = 0
  <2>. TAKE e \in EventIds, y \in Years \ Closed
  <2>1. comp[e][y] \in Nat
    BY <1>2
  <2>2. ~ (comp[e][y] > 0)
    BY DEF Safety, CompensationsOfClosedYears
  <2>. QED BY <2>1, <2>2
<1>4. ASSUME NEW e \in DOMAIN loss
      PROVE  /\ e \in DOMAIN events /\ e \in EventIds /\ e \in Nat
             /\ events[e].trade \in Nat /\ Origin(events, e) \in Nat
             /\ loss[e].id \in Nat /\ loss[e].amount \in Int /\ loss[e].remaining \in Nat
             /\ Summable(comp[e])
             /\ \A n \in Nat : Total(comp[e], n) \in Nat
             /\ loss[e].remaining + Total(comp[e], LastYear) = loss[e].amount
  <2>1. /\ e \in DOMAIN events /\ DOMAIN events \subseteq EventIds
        /\ DOMAIN events \in SUBSET Nat /\ events[e] \in Event
    BY <1>1, EventsAreBookable DEF Safety
  <2>2. events[e].trade \in Nat
    BY <2>1 DEF Event
  <2>3. Origin(events, e) \in Nat
    BY <2>2, YearGrows DEF Origin
  <2>4. loss[e] \in LossRecord
    BY <1>1
  <2>5. loss[e].id \in Nat /\ loss[e].amount \in Int /\ loss[e].remaining \in Int
    BY <2>4 DEF LossRecord, Amounts
  <2>6. /\ loss[e].remaining >= 0
        /\ loss[e].remaining + Total(comp[e], LastYear) = loss[e].amount
    BY DEF Safety, LossConservation
  <2>7. \A y \in DOMAIN comp[e] : comp[e][y] \in Nat
    BY <1>2, <2>1
  <2>8. Summable(comp[e]) /\ \A n \in Nat : Total(comp[e], n) \in Nat
    BY <2>7, NaturalsSummable, TotalNonNegative
  <2>. QED BY <2>1, <2>2, <2>3, <2>5, <2>6, <2>8
<1>. QED BY <1>1, <1>2, <1>3, <1>4

(* The historical balances when a year begins depend on nothing but the
   records of the earlier years and what those years took from them. *)
LEMMA BalanceKept ==
  ASSUME Safety, NEW year \in Nat,
         Len(events') \in Nat, DOMAIN loss' \subseteq 1..Len(events'),
         \A e : e \in DOMAIN loss /\ Origin(events, e) <= year - 1
                  <=> e \in DOMAIN loss' /\ Origin(events', e) <= year - 1,
         \A e \in DOMAIN loss : Origin(events, e) <= year - 1 =>
            /\ events'[e].active = events[e].active
            /\ loss'[e].amount = loss[e].amount
            /\ Total(comp'[e], year - 1) = Total(comp[e], year - 1),
         year # 0
  PROVE  /\ open_records_at_start_of(events', loss', comp', year)
              = open_records_at_start_of(events, loss, comp, year)
         /\ available_at_start_of(events', loss', comp', year)
              = available_at_start_of(events, loss, comp, year)
<1>. DEFINE S == open_records_at_start_of(events, loss, comp, year)
            S2 == open_records_at_start_of(events', loss', comp', year)
            f == [e \in S |-> saldo(loss, comp, e, year)]
            g == [e \in S2 |-> saldo(loss', comp', e, year)]
<1>1. \A e \in DOMAIN loss : Origin(events, e) <= year - 1 =>
        saldo(loss', comp', e, year) = saldo(loss, comp, e, year)
  BY DEF saldo
<1>2. S2 = S
  BY <1>1 DEF open_records_at_start_of
<1>3. \A e \in S : /\ e \in DOMAIN loss /\ e \in DOMAIN loss'
                   /\ saldo(loss', comp', e, year) = saldo(loss, comp, e, year)
  BY <1>1 DEF open_records_at_start_of
<1>4. \A e \in S : saldo(loss, comp, e, year) \in Int
  <2>. TAKE e \in S
  <2>1. e \in DOMAIN loss /\ year - 1 \in Nat
    BY <1>3
  <2>2. loss[e].amount \in Int /\ Total(comp[e], year - 1) \in Nat
    BY <2>1, LedgerTypes
  <2>. QED BY <2>2 DEF saldo
<1>5. g = f
  BY <1>2, <1>3
<1>6. DOMAIN f = S /\ Summable(f)
  BY <1>4 DEF Summable
<1>7. /\ available_at_start_of(events, loss, comp, year) = Total(f, Len(events))
      /\ available_at_start_of(events', loss', comp', year) = Total(g, Len(events'))
  BY DEF available_at_start_of
<1>8. S \subseteq 1..Len(events) /\ S \subseteq 1..Len(events') /\ Len(events) \in Nat
  BY <1>3, LedgerTypes, EventsAreBookable DEF Safety
<1>. HIDE DEF S, S2, f, g
<1>9. Total(f, Len(events)) = Total(f, Len(events'))
  BY <1>6, <1>8, TotalOfTerms
<1>. QED BY <1>2, <1>5, <1>7, <1>9 DEF S, S2

(* A handler of the ledger keeps what the closed years left. *)
LEMMA LedgerStepKeepsLedger ==
  ASSUME ClosedLedger, LedgerStep
  PROVE  /\ EventYears' /\ LossesOfSales' /\ IdsOnce' /\ CarriedLossesExist'
         /\ FifoOrder' /\ TaxBaseBackedByLedger'
<1>1. /\ Safety /\ EventYears /\ LossesOfSales /\ IdsOnce
      /\ CarriedLossesExist /\ FifoOrder /\ TaxBaseBackedByLedger
  BY DEF ClosedLedger
<1>2. /\ loss' = loss /\ comp' = comp /\ lastLossId' = lastLossId
      /\ assessment' = assessment /\ Closed' = Closed
  BY DEF LedgerStep, Closed
<1>3. \A e \in DOMAIN loss : /\ Origin(events', e) = Origin(events, e)
                             /\ events'[e].type = events[e].type
                             /\ events'[e].active => events[e].active
  BY <1>1, LedgerTypes DEF LedgerStep, Origin
<1>4. EventYears'
  <2>. SUFFICES ASSUME NEW i \in DOMAIN events'
                PROVE  YearOf(events'[i].trade) \in Years /\ YearOf(events'[i].receipt) \in Years
    BY DEF EventYears
  <2>1. CASE i \in DOMAIN events
    BY <1>1, <2>1 DEF EventYears, LedgerStep
  <2>2. CASE i \notin DOMAIN events
    BY <2>2 DEF LedgerStep
  <2>. QED BY <2>1, <2>2
<1>5. LossesOfSales'
  BY <1>1, <1>2, <1>3 DEF LossesOfSales
<1>6. IdsOnce'
  BY <1>1, <1>2 DEF IdsOnce
<1>7. CarriedLossesExist'
  BY <1>1, <1>2, <1>3 DEF CarriedLossesExist
<1>8. FifoOrder'
  <2>. SUFFICES ASSUME NEW f \in DOMAIN loss, NEW y \in Closed, comp[f][y] > 0,
                       NEW e \in DOMAIN loss, events'[e].active, Older(events', loss, e, f)
                PROVE  Total(comp[e], y) = loss[e].amount
    BY <1>2 DEF FifoOrder
  <2>1. events[e].active /\ Older(events, loss, e, f)
    BY <1>3 DEF Older
  <2>. QED BY <1>1, <2>1 DEF FifoOrder
<1>9. TaxBaseBackedByLedger'
  BY <1>1, <1>2 DEF TaxBaseBackedByLedger
<1>. QED BY <1>4, <1>5, <1>6, <1>7, <1>8, <1>9

LEMMA LedgerStepKeepsClosings ==
  ASSUME ClosedLedger, LedgerStep
  PROVE  CarryforwardHistoric' /\ ClosedSalesCovered'
<1>1. /\ Safety /\ EventYears /\ LossesOfSales
      /\ CarryforwardHistoric /\ ClosedSalesCovered
  BY DEF ClosedLedger
<1>2. /\ loss' = loss /\ comp' = comp /\ assessment' = assessment /\ Closed' = Closed
  BY DEF LedgerStep, Closed
<1>3. \A y : AllClosedUpTo(y)' <=> AllClosedUpTo(y)
  BY <1>2 DEF AllClosedUpTo
<1>4. ASSUME NEW y \in Closed, AllClosedUpTo(y)
      PROVE  available_at_start_of(events', loss', comp', y + 1)
               = available_at_start_of(events, loss, comp, y + 1)
  <2>1. y + 1 \in Nat /\ (y + 1) - 1 = y /\ y + 1 # 0
    BY <1>1, LedgerTypes
  <2>2. \A e \in DOMAIN loss : Origin(events', e) = Origin(events, e)
    BY <1>1, LedgerTypes DEF LedgerStep, Origin
  <2>3. ASSUME NEW e \in DOMAIN loss, Origin(events, e) <= y
        PROVE  events'[e].active = events[e].active
    <3>1. events[e].type # "DIVIDEND"
      BY <1>1 DEF LossesOfSales
    <3>2. YearOf(events[e].trade) <= y
      BY <2>3 DEF Origin
    <3>3. events'[e] = events[e]
      BY <1>1, <1>4, <3>1, <3>2, LedgerTypes, TradesKept
    <3>. QED BY <3>3
  <2>4. Len(events') \in Nat /\ DOMAIN loss' \subseteq 1..Len(events')
    BY <1>1, <1>2, LedgerTypes DEF LedgerStep
  <2>5. \A e : e \in DOMAIN loss /\ Origin(events, e) <= (y + 1) - 1
                  <=> e \in DOMAIN loss' /\ Origin(events', e) <= (y + 1) - 1
    BY <1>2, <2>2
  <2>6. \A e \in DOMAIN loss : Origin(events, e) <= (y + 1) - 1 =>
            /\ events'[e].active = events[e].active
            /\ loss'[e].amount = loss[e].amount
            /\ Total(comp'[e], (y + 1) - 1) = Total(comp[e], (y + 1) - 1)
    BY <1>2, <2>1, <2>3
  <2>. QED BY <1>1, <2>1, <2>4, <2>5, <2>6, BalanceKept
<1>5. CarryforwardHistoric'
  BY <1>1, <1>2, <1>3, <1>4 DEF CarryforwardHistoric
<1>6. ClosedSalesCovered'
  <2>. SUFFICES ASSUME NEW y \in Closed, AllClosedUpTo(y)
                PROVE  checar_vendas_acima_da_custodia(y)'
    BY <1>2, <1>3 DEF ClosedSalesCovered
  <2>1. checar_vendas_acima_da_custodia(y)
    BY <1>1 DEF ClosedSalesCovered
  <2>2. /\ Sales(y)' = Sales(y)
        /\ \A i \in Sales(y) :
             /\ events'[i] = events[i]
             /\ custody_before(events', openings', i) = custody_before(events, openings, i)
    BY <1>1, CustodyKept
  <2>. QED BY <2>1, <2>2 DEF checar_vendas_acima_da_custodia
<1>. QED BY <1>5, <1>6

-------------------------------------------------------------------------------
(* What closing and reopening a year leave alone: everything that belongs to
   the earlier years. *)
SparesEarlierYears(year) ==
  /\ UNCHANGED <<events, openings>>
  /\ \A y : y # year => (y \in Closed' <=> y \in Closed)
  /\ \A y \in Closed : y # year => y < year /\ assessment'[y] = assessment[y]
  /\ \A e \in EventIds, z \in Years : z # year => comp'[e][z] = comp[e][z]
  /\ \A e : Origin(events, e) # year => (e \in DOMAIN loss' <=> e \in DOMAIN loss)
  /\ \A e \in DOMAIN loss \cap DOMAIN loss' :
       Origin(events, e) # year => /\ loss'[e].amount = loss[e].amount
                                   /\ loss'[e].id = loss[e].id

(* What a record gave to the years before. *)
LEMMA EarlierTotals ==
  ASSUME Safety, Safety', NEW year \in Years, SparesEarlierYears(year),
         NEW e \in EventIds, NEW y \in Nat, y < year
  PROVE  Total(comp'[e], y) = Total(comp[e], y)
<1>1. /\ comp[e] \in [Years -> Nat] /\ comp'[e] \in [Years -> 0..MaxAmount]
      /\ Years = 1..LastYear /\ LastYear \in Nat
  BY LedgerTypes, BoundsAssumption DEF Years, Safety, TypeOK
<1>2. \A z \in Years : comp[e][z] \in Nat /\ comp'[e][z] \in Nat
  BY <1>1, BoundsAssumption
<1>3. Summable(comp[e]) /\ Summable(comp'[e])
  BY <1>1, <1>2 DEF Summable
<1>4. \A z \in 1..y : z \in Years /\ comp'[e][z] = comp[e][z]
  BY <1>1 DEF SparesEarlierYears
<1>5. \A z \in 1..y : Term(comp'[e], z) = Term(comp[e], z)
  BY <1>1, <1>4 DEF Term
<1>. QED BY <1>3, <1>5, TotalOfSame

(* The historical balances of the year itself and of the earlier ones. *)
LEMMA EarlierBalances ==
  ASSUME Safety, Safety', NEW year \in Years, SparesEarlierYears(year),
         NEW y \in Nat \ {0}, y <= year
  PROVE  /\ open_records_at_start_of(events', loss', comp', y)
              = open_records_at_start_of(events, loss, comp, y)
         /\ available_at_start_of(events', loss', comp', y)
              = available_at_start_of(events, loss, comp, y)
<1>1. /\ year \in Nat /\ y - 1 \in Nat /\ y - 1 < year
      /\ events' = events
  BY LedgerTypes DEF SparesEarlierYears
<1>2. Len(events') \in Nat /\ DOMAIN loss' \subseteq 1..Len(events')
  BY <1>1, EventsAreBookable DEF Safety, TypeOK
<1>3. \A e : e \in DOMAIN loss /\ Origin(events, e) <= y - 1
                <=> e \in DOMAIN loss' /\ Origin(events', e) <= y - 1
  <2>. TAKE e
  <2>1. CASE Origin(events, e) = year
    BY <1>1, <2>1
  <2>2. CASE Origin(events, e) # year
    BY <1>1, <2>2 DEF SparesEarlierYears
  <2>. QED BY <2>1, <2>2
<1>4. ASSUME NEW e \in DOMAIN loss, Origin(events, e) <= y - 1
      PROVE  /\ events'[e].active = events[e].active
             /\ loss'[e].amount = loss[e].amount
             /\ Total(comp'[e], y - 1) = Total(comp[e], y - 1)
  <2>1. Origin(events, e) # year /\ e \in DOMAIN loss' /\ e \in EventIds
    BY <1>1, <1>3, <1>4, LedgerTypes
  <2>. QED BY <1>1, <2>1, EarlierTotals DEF SparesEarlierYears
<1>. QED BY <1>2, <1>3, <1>4, BalanceKept

(* What the earlier years consumed, they consumed in FIFO order. *)
LEMMA EarlierFifo ==
  ASSUME Safety, Safety', FifoOrder, NEW year \in Years, SparesEarlierYears(year),
         NEW y \in Closed', y # year,
         NEW f \in DOMAIN loss', comp'[f][y] > 0,
         NEW e \in DOMAIN loss', events'[e].active, Older(events', loss', e, f)
  PROVE  Total(comp'[e], y) = loss'[e].amount
<1>1. y \in Closed /\ y \in Years /\ y \in Nat /\ y < year
  <2>1. y \in Closed /\ y < year
    BY DEF SparesEarlierYears
  <2>. QED BY <2>1, LedgerTypes
<1>2. events' = events
  BY DEF SparesEarlierYears
<1>3. /\ f \in EventIds /\ e \in EventIds /\ e \in DOMAIN events /\ f \in DOMAIN events
  BY <1>2, EventsAreBookable DEF Safety, TypeOK
<1>4. comp[f][y] > 0
  BY <1>1, <1>3 DEF SparesEarlierYears
<1>5. f \in DOMAIN loss /\ Origin(events, f) <= y
  BY <1>1, <1>3, <1>4 DEF Safety, CompensationsOfClosedYears
<1>6. Origin(events, e) \in Nat /\ Origin(events, f) \in Nat
  <2>1. events[e].trade \in Nat /\ events[f].trade \in Nat
    BY <1>3, EventsAreBookable DEF Safety, Bookable
  <2>. QED BY <2>1, YearGrows DEF Origin
<1>7. Origin(events, e) <= Origin(events, f)
  BY <1>2, <1>6 DEF Older
<1>8. Origin(events, e) # year /\ Origin(events, f) # year /\ year \in Nat
  BY <1>1, <1>5, <1>6, <1>7, LedgerTypes
<1>9. /\ e \in DOMAIN loss /\ loss'[e].amount = loss[e].amount
      /\ loss'[e].id = loss[e].id /\ loss'[f].id = loss[f].id
  BY <1>5, <1>8 DEF SparesEarlierYears
<1>10. Older(events, loss, e, f) /\ events[e].active
  BY <1>2, <1>9 DEF Older
<1>11. Total(comp[e], y) = loss[e].amount
  BY <1>1, <1>4, <1>5, <1>9, <1>10 DEF FifoOrder
<1>. QED BY <1>1, <1>3, <1>9, <1>11, EarlierTotals

(* Closing and reopening a year keep what the earlier years left. *)
LEMMA EarlierYearsKept ==
  ASSUME ClosedLedger, Safety', NEW year \in Years, SparesEarlierYears(year)
  PROVE  /\ EventYears'
         /\ \A y \in Closed' : y # year =>
              /\ assessment'[y].carryforward >= 0
              /\ assessment'[y].carryforward > 0
                   => \E e \in DOMAIN loss' : Origin(events', e) <= y
              /\ AllClosedUpTo(y)' => assessment'[y].carryforward
                                        = available_at_start_of(events', loss', comp', y + 1)
              /\ assessment'[y].income - assessment'[y].taxable
                   = Total([e \in EventIds |-> comp'[e][y]], MaxEvents)
              /\ AllClosedUpTo(y)' => checar_vendas_acima_da_custodia(y)'
              /\ \A f \in DOMAIN loss' : comp'[f][y] > 0 =>
                   \A e \in DOMAIN loss' :
                     events'[e].active /\ Older(events', loss', e, f)
                       => Total(comp'[e], y) = loss'[e].amount
<1>1. /\ Safety /\ EventYears /\ CarriedLossesExist /\ CarryforwardHistoric
      /\ FifoOrder /\ TaxBaseBackedByLedger /\ ClosedSalesCovered
  BY DEF ClosedLedger
<1>2. events' = events /\ openings' = openings
  BY DEF SparesEarlierYears
<1>3. EventYears'
  BY <1>1, <1>2 DEF EventYears
<1>4. ASSUME NEW y \in Closed', y # year
      PROVE  /\ y \in Closed /\ y \in Years /\ y \in Nat /\ y < year
             /\ assessment'[y] = assessment[y]
             /\ AllClosedUpTo(y)' => AllClosedUpTo(y)
  <2>1. y \in Closed /\ y < year /\ assessment'[y] = assessment[y]
    BY <1>4 DEF SparesEarlierYears
  <2>2. y \in Years /\ y \in Nat /\ year \in Nat
    BY <1>1, <2>1, LedgerTypes
  <2>3. \A z \in 1..y : z \in Closed' => z \in Closed
    BY <2>1, <2>2 DEF SparesEarlierYears
  <2>. QED BY <2>1, <2>2, <2>3 DEF AllClosedUpTo
<1>5. ASSUME NEW y \in Closed', y # year
      PROVE  /\ assessment'[y].carryforward >= 0
             /\ assessment'[y].carryforward > 0
                  => \E e \in DOMAIN loss' : Origin(events', e) <= y
  <2>1. /\ y \in Closed /\ y \in Nat /\ y < year /\ year \in Nat
        /\ assessment'[y] = assessment[y]
    BY <1>1, <1>4, <1>5, LedgerTypes
  <2>2. assessment[y].carryforward >= 0
    BY <1>1, <2>1 DEF CarriedLossesExist
  <2>3. ASSUME assessment[y].carryforward > 0
        PROVE  \E e \in DOMAIN loss' : Origin(events', e) <= y
    <3>1. PICK e \in DOMAIN loss : Origin(events, e) <= y
      BY <1>1, <2>1, <2>3 DEF CarriedLossesExist
    <3>2. Origin(events, e) # year
      BY <2>1, <3>1
    <3>. QED BY <1>2, <3>1, <3>2 DEF SparesEarlierYears
  <2>. QED BY <2>1, <2>2, <2>3
<1>6. ASSUME NEW y \in Closed', y # year, AllClosedUpTo(y)'
      PROVE  assessment'[y].carryforward
               = available_at_start_of(events', loss', comp', y + 1)
  <2>1. /\ y \in Closed /\ y \in Nat /\ y < year /\ year \in Nat
        /\ assessment'[y] = assessment[y] /\ AllClosedUpTo(y)
    BY <1>1, <1>4, <1>6, LedgerTypes
  <2>2. y + 1 \in Nat \ {0} /\ y + 1 <= year
    BY <2>1
  <2>3. available_at_start_of(events', loss', comp', y + 1)
          = available_at_start_of(events, loss, comp, y + 1)
    BY <1>1, <2>2, EarlierBalances
  <2>. QED BY <1>1, <2>1, <2>3 DEF CarryforwardHistoric
<1>7. ASSUME NEW y \in Closed', y # year
      PROVE  assessment'[y].income - assessment'[y].taxable
               = Total([e \in EventIds |-> comp'[e][y]], MaxEvents)
  <2>1. [e \in EventIds |-> comp'[e][y]] = [e \in EventIds |-> comp[e][y]]
    BY <1>4, <1>7 DEF SparesEarlierYears
  <2>. QED BY <1>1, <1>4, <1>7, <2>1 DEF TaxBaseBackedByLedger
<1>8. ASSUME NEW y \in Closed', y # year, AllClosedUpTo(y)'
      PROVE  checar_vendas_acima_da_custodia(y)'
  <2>1. checar_vendas_acima_da_custodia(y)
    BY <1>1, <1>4, <1>8 DEF ClosedSalesCovered
  <2>. QED BY <1>2, <2>1 DEF checar_vendas_acima_da_custodia, Sales
<1>9. ASSUME NEW y \in Closed', y # year,
             NEW f \in DOMAIN loss', comp'[f][y] > 0,
             NEW e \in DOMAIN loss', events'[e].active, Older(events', loss', e, f)
      PROVE  Total(comp'[e], y) = loss'[e].amount
  BY <1>1, <1>9, EarlierFifo
<1>. QED BY <1>3, <1>5, <1>6, <1>7, <1>8, <1>9

(* Reopening a year. *)
LEMMA ReopenSpares ==
  ASSUME Safety, NEW year \in Years, ReopenYear(year)
  PROVE  /\ SparesEarlierYears(year)
         /\ Closed' = Closed \ {year} /\ DOMAIN loss' = DOMAIN loss
         /\ \A e \in DOMAIN loss : loss'[e].id = loss[e].id
<1>1. /\ \A y \in Closed : y <= year
      /\ loss' = Returned(loss, comp, year) /\ comp' = Cleared(comp, year)
      /\ assessment' = [y \in Closed \ {year} |-> assessment[y]]
      /\ UNCHANGED <<events, openings, lastLossId>>
  BY DEF ReopenYear, ReopenTransaction
<1>2. Closed' = Closed \ {year} /\ \A y \in Closed' : assessment'[y] = assessment[y]
  BY <1>1 DEF Closed
<1>3. /\ DOMAIN loss' = DOMAIN loss
      /\ \A e \in DOMAIN loss : loss'[e].amount = loss[e].amount /\ loss'[e].id = loss[e].id
  <2>1. \A e \in DOMAIN loss : loss[e] \in LossRecord
    BY DEF Safety, TypeOK
  <2>. QED BY <1>1, <2>1 DEF Returned, LossRecord
<1>4. \A e \in EventIds, z \in Years : z # year => comp'[e][z] = comp[e][z]
  <2>1. comp \in [EventIds -> [Years -> 0..MaxAmount]]
    BY DEF Safety, TypeOK
  <2>. QED BY <1>1, <2>1 DEF Cleared
<1>5. \A y \in Closed : y # year => y < year
  <2>1. \A y \in Closed : y \in Nat /\ year \in Nat
    BY LedgerTypes
  <2>. QED BY <1>1, <2>1
<1>6. SparesEarlierYears(year)
  BY <1>1, <1>2, <1>3, <1>4, <1>5 DEF SparesEarlierYears
<1>. QED BY <1>2, <1>3, <1>6

LEMMA ReopenYearKeepsClosings ==
  ASSUME ClosedLedger, NEW year \in Years, ReopenYear(year)
  PROVE  SparesEarlierYears(year) /\ ClosedLedger'
<1>1. Safety /\ LossesOfSales /\ IdsOnce
  BY DEF ClosedLedger
<1>2. Safety'
  BY <1>1, ReopenYearSafe
<1>3. /\ SparesEarlierYears(year) /\ year \notin Closed'
      /\ DOMAIN loss' = DOMAIN loss /\ \A e \in DOMAIN loss : loss'[e].id = loss[e].id
  BY <1>1, ReopenSpares
<1>4. lastLossId' = lastLossId /\ events' = events
  BY DEF ReopenYear, ReopenTransaction
<1>5. LossesOfSales' /\ IdsOnce'
  BY <1>1, <1>3, <1>4 DEF LossesOfSales, IdsOnce
<1>6. CarriedLossesExist' /\ CarryforwardHistoric' /\ EventYears'
  BY <1>2, <1>3, EarlierYearsKept DEF CarriedLossesExist, CarryforwardHistoric
<1>7. FifoOrder' /\ TaxBaseBackedByLedger' /\ ClosedSalesCovered'
  BY <1>2, <1>3, EarlierYearsKept DEF FifoOrder, TaxBaseBackedByLedger, ClosedSalesCovered
<1>. QED BY <1>2, <1>3, <1>5, <1>6, <1>7 DEF ClosedLedger

-------------------------------------------------------------------------------
(* The ledger a closing works on: what the year took before, if it was
   closed, is back. *)
Back(year) == Returned(loss, comp, year)

SyncedBy(year) ==
  Synced(events, Back(year), Cleared(comp, year), resultados_alienacao(year), year, lastLossId)

LEMMA BackTypes ==
  ASSUME Safety, NEW year \in Years
  PROVE  /\ DOMAIN Back(year) = DOMAIN loss
         /\ \A e \in DOMAIN loss :
              /\ Back(year)[e].id = loss[e].id /\ Back(year)[e].amount = loss[e].amount
              /\ Back(year)[e].remaining \in Nat
              /\ Back(year)[e].remaining + Total(Cleared(comp, year)[e], LastYear)
                   = loss[e].amount
         /\ \A e \in EventIds :
              /\ Cleared(comp, year)[e] \in [Years -> Nat]
              /\ Cleared(comp, year)[e][year] = 0
              /\ \A z \in Years : z # year => Cleared(comp, year)[e][z] = comp[e][z]
<1>. DEFINE L == Back(year)
            C == Cleared(comp, year)
<1>1. LedgerSound(L, C, Closed \ {year}) /\ \A e \in EventIds : C[e][year] = 0
  BY ReturnedSound DEF Back
<1>2. /\ DOMAIN L = DOMAIN loss
      /\ \A e \in DOMAIN loss : L[e].id = loss[e].id /\ L[e].amount = loss[e].amount
  <2>1. \A e \in DOMAIN loss : loss[e] \in LossRecord
    BY DEF Safety, TypeOK
  <2>. QED BY <2>1 DEF Back, Returned, LossRecord
<1>3. \A e \in EventIds, z \in Years : z # year => C[e][z] = comp[e][z]
  <2>1. comp \in [EventIds -> [Years -> 0..MaxAmount]]
    BY DEF Safety, TypeOK
  <2>. QED BY <2>1 DEF Cleared
<1>. HIDE DEF L, C
<1>4. \A e \in DOMAIN L : /\ L[e] \in LossRecord /\ L[e].remaining >= 0
                          /\ L[e].remaining + Total(C[e], LastYear) = L[e].amount
  BY <1>1 DEF LedgerSound
<1>5. \A e \in DOMAIN L : L[e].remaining \in Nat
  BY <1>4 DEF LossRecord, Amounts
<1>6. \A e \in EventIds : C[e] \in [Years -> Nat]
  <2>1. C \in [EventIds -> [Years -> 0..MaxAmount]]
    BY <1>1 DEF LedgerSound
  <2>. QED BY <2>1, BoundsAssumption
<1>. QED BY <1>1, <1>2, <1>3, <1>4, <1>5, <1>6 DEF L, C

(* What the transaction of a closing writes. *)
LEMMA CloseWrites ==
  ASSUME Safety, NEW year \in Years, CloseTransaction(year)
  PROVE  /\ \A y \in Closed : y # year => y < year
         /\ checar_vendas_acima_da_custodia(year)
         /\ compute(year) \in Snapshot
         /\ SyncedBy(year) \in [DOMAIN SyncedBy(year) -> LossRecord]
         /\ loss' = Consumed(events, SyncedBy(year), year, compute(year).income)
         /\ comp' = Compensated(events, SyncedBy(year), Cleared(comp, year), year,
                                compute(year).income)
         /\ lastLossId' = lastLossId + Cardinality(NewLosses(loss, resultados_alienacao(year)))
         /\ Closed' = Closed \cup {year}
         /\ assessment' = [y \in Closed \cup {year} |->
                             IF y = year THEN compute(year) ELSE assessment[y]]
         /\ UNCHANGED <<events, openings>>
<1>1. Closed' = Closed \cup {year}
  BY DEF CloseTransaction, Closed
<1>2. ASSUME NEW y \in Closed, y # year
      PROVE  y < year
  <2>1. y <= year /\ y \in Int /\ year \in Int
    BY LedgerTypes DEF CloseTransaction
  <2>. QED BY <1>2, <2>1
<1>. QED BY <1>1, <1>2 DEF CloseTransaction, SyncedBy, Back

(* The records after the sync: those of the losses of the year, and those
   of other years as they were. *)
LEMMA SyncedRecords ==
  ASSUME Safety, LossesOfSales, NEW year \in Years
  PROVE  LET gain   == resultados_alienacao(year)
             synced == SyncedBy(year)
         IN  /\ \A e \in Sales(year) :
                  /\ Origin(events, e) = year
                  /\ e \in DOMAIN synced <=> gain[e] < 0
                  /\ e \in DOMAIN synced => /\ synced[e].amount = -gain[e]
                                            /\ synced[e].remaining = -gain[e]
                                            /\ e \in DOMAIN loss => synced[e].id = loss[e].id
             /\ \A e : e \notin Sales(year) =>
                  /\ e \in DOMAIN synced => e \in DOMAIN loss /\ synced[e] = Back(year)[e]
                  /\ Origin(events, e) # year => (e \in DOMAIN synced <=> e \in DOMAIN loss)
                  /\ e \in DOMAIN synced /\ Origin(events, e) = year => ~ events[e].active
<1>. DEFINE gain == resultados_alienacao(year)
            synced == SyncedBy(year)
<1>1. DOMAIN gain = Sales(year) /\ \A e \in Sales(year) : gain[e] \in Int
  BY ResultsInt DEF Safety
<1>0. /\ DOMAIN Back(year) = DOMAIN loss
      /\ \A e \in DOMAIN loss : Back(year)[e].id = loss[e].id
  BY BackTypes
<1>2. DOMAIN synced = (DOMAIN Back(year) \ Dropped(events, Back(year), Cleared(comp, year), gain, year))
                        \cup NewLosses(Back(year), gain)
  BY DEF SyncedBy, Synced
<1>3. \A e \in DOMAIN synced :
        synced[e] = IF e \in DOMAIN gain
                    THEN [id        |-> IF e \in DOMAIN Back(year) THEN Back(year)[e].id
                                        ELSE NewId(events, Back(year), gain, lastLossId, e),
                          amount    |-> -gain[e],
                          remaining |-> -gain[e]]
                    ELSE Back(year)[e]
  BY DEF SyncedBy, Synced
<1>. HIDE DEF gain, synced
<1>4. ASSUME NEW e \in Sales(year)
      PROVE  /\ Origin(events, e) = year
             /\ e \in DOMAIN synced <=> gain[e] < 0
             /\ e \in DOMAIN synced => /\ synced[e].amount = -gain[e]
                                       /\ synced[e].remaining = -gain[e]
                                       /\ e \in DOMAIN loss => synced[e].id = loss[e].id
  <2>1. Origin(events, e) = year /\ events[e].active
    BY DEF Sales, Origin
  <2>2. gain[e] \in Int
    BY <1>1
  <2>3. e \in DOMAIN synced <=> gain[e] < 0
    BY <1>0, <1>1, <1>2, <2>1, <2>2 DEF Dropped, NewLosses
  <2>. QED BY <1>0, <1>1, <1>3, <2>1, <2>3
<1>5. ASSUME NEW e, e \notin Sales(year)
      PROVE  /\ e \in DOMAIN synced => e \in DOMAIN loss /\ synced[e] = Back(year)[e]
             /\ Origin(events, e) # year => (e \in DOMAIN synced <=> e \in DOMAIN loss)
             /\ e \in DOMAIN synced /\ Origin(events, e) = year => ~ events[e].active
  <2>1. e \notin DOMAIN gain /\ e \notin NewLosses(Back(year), gain)
    BY <1>1, <1>5 DEF NewLosses
  <2>2. e \in DOMAIN synced => e \in DOMAIN loss /\ synced[e] = Back(year)[e]
    BY <1>0, <1>2, <1>3, <2>1
  <2>3. Origin(events, e) # year => (e \in DOMAIN synced <=> e \in DOMAIN loss)
    BY <1>0, <1>2, <2>1 DEF Dropped
  <2>4. ASSUME e \in DOMAIN synced, Origin(events, e) = year
        PROVE  ~ events[e].active
    <3>1. e \in DOMAIN events /\ events[e].type = "SELL"
      BY <2>2, <2>4, LedgerTypes DEF LossesOfSales
    <3>. QED BY <1>5, <2>4, <3>1 DEF Sales, Origin
  <2>. QED BY <2>2, <2>3, <2>4
<1>. QED BY <1>4, <1>5 DEF gain, synced

(* The new records get ids of their own. *)
LEMMA SyncedIds ==
  ASSUME Safety, LossesOfSales, IdsOnce, NEW year \in Years
  PROVE  LET new == Cardinality(NewLosses(loss, resultados_alienacao(year)))
         IN  /\ new \in Nat
             /\ \A e, f \in DOMAIN SyncedBy(year) :
                  /\ SyncedBy(year)[e].id \in Nat
                  /\ SyncedBy(year)[e].id <= lastLossId + new
                  /\ e # f => SyncedBy(year)[e].id # SyncedBy(year)[f].id
<1>. DEFINE gain == resultados_alienacao(year)
            synced == SyncedBy(year)
            New == NewLosses(loss, gain)
            R == Precedence(events, New)
            rank(e) == Cardinality(Below(R, New, e))
<1>1. /\ New \in SUBSET DOMAIN events /\ New \cap DOMAIN loss = {}
      /\ DOMAIN events \in SUBSET Nat /\ IsFiniteSet(DOMAIN events)
      /\ \A e \in DOMAIN events : events[e].trade \in Nat
  <2>1. \A e \in DOMAIN events : Bookable(events[e])
    BY EventsAreBookable DEF Safety
  <2>. QED BY <2>1, ResultsInt, EventsAreBookable DEF Safety, NewLosses, Bookable
<1>0. /\ DOMAIN Back(year) = DOMAIN loss
      /\ \A e \in DOMAIN loss : Back(year)[e].id = loss[e].id
      /\ NewLosses(Back(year), gain) = New
  BY BackTypes DEF NewLosses
<1>2. \A e \in DOMAIN synced \ DOMAIN loss : e \in New
  BY <1>0 DEF SyncedBy, Synced
<1>3. /\ \A e \in DOMAIN synced \cap DOMAIN loss : synced[e].id = loss[e].id
      /\ \A e \in New : synced[e].id = NewId(events, Back(year), gain, lastLossId, e)
  BY <1>0 DEF SyncedBy, Synced, NewLosses
<1>4. /\ \A e \in New : NewId(events, Back(year), gain, lastLossId, e)
                          = lastLossId + 1 + Cardinality({f \in New : Precedes(events, f, e)})
      /\ lastLossId \in Nat
  BY <1>0 DEF NewId, Safety, TypeOK
<1>. HIDE DEF gain, synced, New
<1>5. New \in SUBSET Nat /\ IsFiniteSet(New) /\ \A e \in New : events[e].trade \in Nat
  BY <1>1, FS_Subset
<1>6. /\ TotallyOrdered(R, New)
      /\ \A e \in New : Below(R, New, e) = {f \in New : Precedes(events, f, e)}
  BY <1>5, PrecedenceOrders
<1>7. /\ Cardinality(New) \in Nat
      /\ \A e \in New : rank(e) \in Nat /\ rank(e) < Cardinality(New)
      /\ \A e, f \in New : <<e, f>> \in R => rank(e) < rank(f)
      /\ \A e, f \in New : e # f => <<e, f>> \in R \/ <<f, e>> \in R
  BY <1>6, RankGrows DEF TotallyOrdered
<1>8. \A e \in New : synced[e].id = lastLossId + 1 + rank(e)
  BY <1>3, <1>4, <1>6
<1>9. \A e \in DOMAIN synced \cap DOMAIN loss :
        synced[e].id = loss[e].id /\ loss[e].id \in Nat /\ loss[e].id <= lastLossId
  BY <1>3, LedgerTypes DEF IdsOnce
<1>. HIDE DEF rank, R
<1>10. ASSUME NEW e \in DOMAIN synced
       PROVE  synced[e].id \in Nat /\ synced[e].id <= lastLossId + Cardinality(New)
  <2>1. CASE e \in DOMAIN loss
    BY <1>4, <1>7, <1>9, <2>1
  <2>2. CASE e \notin DOMAIN loss
    BY <1>2, <1>4, <1>7, <1>8, <2>2
  <2>. QED BY <2>1, <2>2
<1>11. ASSUME NEW e \in DOMAIN synced, NEW f \in DOMAIN synced, e # f
       PROVE  synced[e].id # synced[f].id
  <2>1. CASE e \in DOMAIN loss /\ f \in DOMAIN loss
    BY <1>9, <1>11, <2>1 DEF IdsOnce
  <2>2. CASE e \in DOMAIN loss /\ f \notin DOMAIN loss
    BY <1>2, <1>4, <1>7, <1>8, <1>9, <2>2
  <2>3. CASE e \notin DOMAIN loss /\ f \in DOMAIN loss
    BY <1>2, <1>4, <1>7, <1>8, <1>9, <2>3
  <2>4. CASE e \notin DOMAIN loss /\ f \notin DOMAIN loss
    <3>1. e \in New /\ f \in New
      BY <1>2, <2>4
    <3>2. rank(e) \in Nat /\ rank(f) \in Nat /\ (rank(e) < rank(f) \/ rank(f) < rank(e))
      BY <1>7, <1>11, <3>1
    <3>. QED BY <1>4, <1>8, <3>1, <3>2
  <2>. QED BY <2>1, <2>2, <2>3, <2>4
<1>. QED BY <1>7, <1>10, <1>11 DEF gain, synced, New

-------------------------------------------------------------------------------
(* The FIFO order of the open records, as a set of pairs. *)
Age(ls, S) == {p \in S \X S : Older(events, ls, p[1], p[2])}

LEMMA AgeOrders ==
  ASSUME NEW ls, NEW S, IsFiniteSet(S),
         \A e \in S : Origin(events, e) \in Nat /\ ls[e].id \in Nat,
         \A e, f \in S : e # f => ls[e].id # ls[f].id
  PROVE  /\ TotallyOrdered(Age(ls, S), S)
         /\ \A e, f \in S : <<e, f>> \in Age(ls, S) <=> Older(events, ls, e, f)
<1>1. \A e, f \in S : <<e, f>> \in Age(ls, S) <=> Older(events, ls, e, f)
  BY DEF Age
<1>2. \A e \in S : ~ Older(events, ls, e, e)
  BY DEF Older
<1>3. ASSUME NEW e \in S, NEW f \in S, NEW g \in S,
             Older(events, ls, e, f), Older(events, ls, f, g)
      PROVE  Older(events, ls, e, g)
  BY <1>3 DEF Older
<1>4. \A e, f \in S : e # f => Older(events, ls, e, f) \/ Older(events, ls, f, e)
  BY DEF Older
<1>. QED BY <1>1, <1>2, <1>3, <1>4 DEF TotallyOrdered, Ordered

(* The columns of a table of losses: what remains of each and the order of
   their ages. *)
Aged(ls) ==
  /\ DOMAIN ls \subseteq 1..Len(events)
  /\ \A e \in DOMAIN ls :
       ls[e].remaining \in Nat /\ ls[e].id \in Nat /\ Origin(events, e) \in Nat
  /\ \A e, f \in DOMAIN ls : e # f => ls[e].id # ls[f].id

(* What apply_compensation takes from an open record. *)
LEMMA UsoIsDrawn ==
  ASSUME NEW ls, Aged(ls), NEW year, NEW income \in Nat, NEW n \in Nat, Len(events) = n,
         NEW S, S = open_records(events, ls, year),
         NEW held, held = [e \in S |-> ls[e].remaining]
  PROVE  /\ S \in SUBSET (1..n) /\ held \in [S -> Nat]
         /\ TotallyOrdered(Age(ls, S), S)
         /\ \A e, f \in S : <<e, f>> \in Age(ls, S) <=> Older(events, ls, e, f)
         /\ \A e \in S : uso(events, ls, year, income, e)
                           = Drawn(Age(ls, S), S, held, income, n, e)
<1>0. /\ DOMAIN ls \subseteq 1..n
      /\ \A e \in DOMAIN ls : ls[e].remaining \in Nat /\ ls[e].id \in Nat
      /\ \A e \in DOMAIN ls : Origin(events, e) \in Nat
      /\ \A e, f \in DOMAIN ls : e # f => ls[e].id # ls[f].id
  BY DEF Aged
<1>1. S \subseteq DOMAIN ls
  BY DEF open_records
<1>2. S \in SUBSET (1..n) /\ held \in [S -> Nat] /\ \A e \in S : held[e] = ls[e].remaining
  BY <1>0, <1>1
<1>3. IsFiniteSet(S)
  <2>1. IsFiniteSet(1..n)
    BY FS_Interval
  <2>. QED BY <1>2, <2>1, FS_Subset
<1>4. /\ TotallyOrdered(Age(ls, S), S)
      /\ \A e, f \in S : <<e, f>> \in Age(ls, S) <=> Older(events, ls, e, f)
  BY <1>0, <1>1, <1>3, AgeOrders
<1>5. ASSUME NEW e \in S
      PROVE  uso(events, ls, year, income, e) = Drawn(Age(ls, S), S, held, income, n, e)
  <2>. DEFINE older == {f \in S : Older(events, ls, f, e)}
  <2>1. Below(Age(ls, S), S, e) = older
    BY <1>4 DEF Below
  <2>2. [f \in older |-> ls[f].remaining] = [f \in older |-> held[f]]
    BY <1>2
  <2>3. uso(events, ls, year, income, e)
          = Smaller(ls[e].remaining,
                    Larger(Larger(income, 0) - Total([f \in older |-> ls[f].remaining], n), 0))
    BY DEF uso
  <2>4. Larger(income, 0) = income
    BY DEF Larger
  <2>. HIDE DEF older
  <2>. QED BY <1>2, <2>1, <2>2, <2>3, <2>4 DEF Drawn, SumOver
<1>. QED BY <1>2, <1>4, <1>5

-------------------------------------------------------------------------------
(* The parts of the computation of a year. *)
LossesOf(year) ==
  Total([i \in Sales(year) |-> Larger(-resultados_alienacao(year)[i], 0)], Len(events))

LEMMA ComputeParts ==
  ASSUME Safety, NEW year \in Years
  PROVE  /\ compute(year).income \in Nat
         /\ LossesOf(year) \in Nat
         /\ compute(year).taxable
              = Larger(compute(year).income - (LossesOf(year) + loss_inherited(year)), 0)
         /\ compute(year).carryforward
              = Larger((LossesOf(year) + loss_inherited(year)) - compute(year).income, 0)
<1>. DEFINE gain == resultados_alienacao(year)
            gains == [i \in Sales(year) |-> Larger(gain[i], 0)]
            incomes == [i \in Incomes(year) |-> Attributed(events[i].account, events[i].brl)]
            losses == [i \in Sales(year) |-> Larger(-gain[i], 0)]
            n == Len(events)
<1>1. /\ compute(year).income = Total(gains, n) + Total(incomes, n)
      /\ compute(year).taxable
           = Larger(compute(year).income - (LossesOf(year) + loss_inherited(year)), 0)
      /\ compute(year).carryforward
           = Larger((LossesOf(year) + loss_inherited(year)) - compute(year).income, 0)
  BY DEF compute, LossesOf
<1>2. LossesOf(year) = Total(losses, n)
  BY DEF LossesOf
<1>3. n \in Nat /\ \A i \in DOMAIN events : events[i] \in Event
  BY EventsAreBookable DEF Safety
<1>4. \A i \in Sales(year) : gain[i] \in Int
  BY ResultsInt DEF Safety
<1>5. \A i \in DOMAIN gains : gains[i] \in Nat
  <2>. HIDE DEF gain
  <2>. QED BY <1>4 DEF Larger
<1>6. \A i \in DOMAIN losses : losses[i] \in Nat
  <2>. HIDE DEF gain
  <2>. QED BY <1>4 DEF Larger
<1>7. \A i \in DOMAIN incomes : incomes[i] \in Nat
  <2>. TAKE i \in DOMAIN incomes
  <2>1. i \in DOMAIN events
    BY DEF Incomes
  <2>2. events[i].account \in Accounts /\ events[i].brl \in Nat
    BY <1>3, <2>1 DEF Event
  <2>3. Share[events[i].account] \in Nat
    BY <2>2, InputsAssumption
  <2>4. events[i].brl * Share[events[i].account] \in Nat
    BY <2>2, <2>3, ProductNatural
  <2>5. Attributed(events[i].account, events[i].brl) \in Nat
    BY <2>4, CentsNatural DEF Attributed
  <2>. QED BY <2>5
<1>. HIDE DEF gains, incomes, losses, n
<1>8. Total(gains, n) \in Nat /\ Total(incomes, n) \in Nat /\ Total(losses, n) \in Nat
  BY <1>3, <1>5, <1>6, <1>7, TotalNonNegative
<1>. QED BY <1>1, <1>2, <1>8

(* What a record gave to the years up to the last closed one is all it gave:
   its historical balance is what remains of it. *)
LEMMA AllGiven ==
  ASSUME NEW row \in [Years -> Nat], NEW year \in Nat,
         \A y \in Years : year < y => row[y] = 0
  PROVE  Total(row, year) = Total(row, LastYear)
<1>1. Years = 1..LastYear /\ LastYear \in Nat /\ Summable(row)
  BY BoundsAssumption DEF Years, Summable
<1>2. CASE year <= LastYear
  <2>1. \A y \in (year+1)..LastYear : Term(row, y) = 0
    BY <1>1 DEF Term
  <2>. QED BY <1>1, <1>2, <2>1, TotalOfPrefix
<1>3. CASE LastYear <= year
  <2>1. \A y \in (LastYear+1)..year : Term(row, y) = 0
    BY <1>1 DEF Term
  <2>. QED BY <1>1, <1>3, <2>1, TotalOfPrefix
<1>. QED BY <1>1, <1>2, <1>3

LEMMA SaldoIsRemaining ==
  ASSUME Safety, NEW year \in Nat, \A y \in Closed : y <= year, NEW e \in DOMAIN loss
  PROVE  loss[e].amount - Total(comp[e], year) = loss[e].remaining
<1>1. /\ e \in EventIds /\ comp[e] \in [Years -> Nat]
      /\ \A y \in Years \ Closed : comp[e][y] = 0
      /\ Years \subseteq Nat
      /\ loss[e].remaining \in Nat /\ Total(comp[e], LastYear) \in Nat
      /\ loss[e].remaining + Total(comp[e], LastYear) = loss[e].amount
  BY LedgerTypes
<1>2. \A y \in Years : year < y => comp[e][y] = 0
  BY <1>1
<1>3. Total(comp[e], year) = Total(comp[e], LastYear)
  BY <1>1, <1>2, AllGiven
<1>. QED BY <1>1, <1>3

(* When no later year is closed, what remains of a record once the year got
   nothing is its historical balance when the year begins. *)
LEMMA BackBalance ==
  ASSUME Safety, NEW year \in Years, \A y \in Closed : y # year => y < year,
         NEW e \in DOMAIN loss
  PROVE  saldo(loss, comp, e, year) = Back(year)[e].remaining
<1>. DEFINE given == Cleared(comp, year)[e]
<1>1. /\ e \in EventIds /\ comp[e] \in [Years -> Nat]
      /\ \A y \in Years \ Closed : comp[e][y] = 0
      /\ Years \subseteq Nat /\ Years = 1..LastYear /\ LastYear \in Nat
  BY LedgerTypes DEF Years
<1>2. /\ Back(year)[e].remaining \in Nat
      /\ Back(year)[e].remaining + Total(given, LastYear) = loss[e].amount
  BY BackTypes
<1>3. /\ given \in [Years -> Nat] /\ given[year] = 0
      /\ \A z \in Years : z # year => given[z] = comp[e][z]
  BY <1>1, BackTypes
<1>. HIDE DEF given
<1>4. year \in Nat /\ year - 1 \in Nat
  BY <1>1
<1>5. \A z \in Years : year - 1 < z => given[z] = 0
  <2>. SUFFICES ASSUME NEW z \in Years, year - 1 < z, z # year PROVE given[z] = 0
    BY <1>3
  <2>1. z \in Nat /\ ~ (z < year)
    BY <1>1, <1>4
  <2>. QED BY <1>1, <1>3, <2>1
<1>6. Total(given, year - 1) = Total(given, LastYear)
  BY <1>3, <1>4, <1>5, AllGiven
<1>7. Total(comp[e], year - 1) = Total(given, year - 1)
  <2>1. Summable(given) /\ Summable(comp[e])
    BY <1>1, <1>3 DEF Summable
  <2>2. \A z \in 1..(year - 1) : Term(comp[e], z) = Term(given, z)
    BY <1>1, <1>3, <1>4 DEF Term
  <2>. QED BY <1>4, <2>1, <2>2, TotalOfSame
<1>8. Total(given, LastYear) \in Nat
  <2>1. \A z \in DOMAIN given : given[z] \in Nat
    BY <1>3
  <2>. QED BY <1>1, <2>1, TotalNonNegative
<1>. QED BY <1>2, <1>6, <1>7, <1>8 DEF saldo

(* While no later year is closed, a year inherits the historical balance of
   the ledger when it begins, also when the ledger knows no earlier loss. *)
LEMMA InheritedIsBalance ==
  ASSUME Safety, CarriedLossesExist, NEW year \in Years
  PROVE  /\ loss_inherited(year) = available_at_start_of(events, loss, comp, year)
         /\ loss_inherited(year) \in Nat
         /\ loss_inherited(year) > 0 => \E e \in DOMAIN loss : Origin(events, e) <= year - 1
<1>. DEFINE S == open_records_at_start_of(events, loss, comp, year)
            f == [e \in S |-> saldo(loss, comp, e, year)]
<1>1. year \in Nat /\ year # 0 /\ year - 1 \in Nat
  BY LedgerTypes, BoundsAssumption DEF Years
<1>2. \A e \in S : /\ e \in DOMAIN loss /\ Origin(events, e) <= year - 1
                   /\ saldo(loss, comp, e, year) > 0
  BY DEF open_records_at_start_of
<1>3. \A e \in S : saldo(loss, comp, e, year) \in Nat
  <2>. TAKE e \in S
  <2>1. loss[e].amount \in Int /\ Total(comp[e], year - 1) \in Nat
    BY <1>1, <1>2, LedgerTypes
  <2>. QED BY <1>2, <2>1 DEF saldo
<1>4. available_at_start_of(events, loss, comp, year) = Total(f, Len(events))
  BY DEF available_at_start_of
<1>5. DOMAIN f = S /\ \A e \in DOMAIN f : f[e] \in Nat
  BY <1>3
<1>6. Len(events) \in Nat
  BY EventsAreBookable DEF Safety
<1>. HIDE DEF S, f
<1>7. Total(f, Len(events)) \in Nat
  BY <1>5, <1>6, TotalNonNegative
<1>8. CASE S # {}
  <2>1. loss_inherited(year) = available_at_start_of(events, loss, comp, year)
    BY <1>8 DEF loss_inherited, S
  <2>. QED BY <1>2, <1>4, <1>7, <1>8, <2>1
<1>9. CASE S = {}
  <2>1. Total(f, Len(events)) = 0
    BY <1>5, <1>6, <1>9, TotalOfZeros
  <2>2. loss_inherited(year) =
          IF (\E e \in DOMAIN loss : Origin(events, e) <= year - 1) \/ Open(year - 1)
          THEN 0 ELSE assessment[year - 1].carryforward
    BY <1>9 DEF loss_inherited, S
  <2>3. ASSUME ~ (\E e \in DOMAIN loss : Origin(events, e) <= year - 1), ~ Open(year - 1)
        PROVE  assessment[year - 1].carryforward = 0
    <3>1. year - 1 \in Closed
      BY <2>3 DEF Open
    <3>2. /\ assessment[year - 1].carryforward >= 0
          /\ ~ (assessment[year - 1].carryforward > 0)
      BY <2>3, <3>1 DEF CarriedLossesExist
    <3>3. assessment[year - 1].carryforward \in Int
      <4>1. assessment[year - 1] \in Snapshot
        BY <3>1 DEF Safety, TypeOK
      <4>. QED BY <4>1 DEF Snapshot, Amounts
    <3>. QED BY <3>2, <3>3
  <2>4. loss_inherited(year) = 0
    BY <2>2, <2>3
  <2>. QED BY <1>4, <2>1, <2>4
<1>. QED BY <1>8, <1>9

(* After the sync the ledger offers the losses of the year and what the year
   inherits: the operational balances are the historical ones. *)
LEMMA SyncedBalance ==
  ASSUME Safety, LossesOfSales, CarriedLossesExist, NEW year \in Years,
         \A y \in Closed : y # year => y < year,
         NEW S, S = open_records(events, SyncedBy(year), year)
  PROVE  SumOver([e \in S |-> SyncedBy(year)[e].remaining], S, Len(events))
           = LossesOf(year) + loss_inherited(year)
<1>. DEFINE gain == resultados_alienacao(year)
            synced == SyncedBy(year)
            B == open_records_at_start_of(events, loss, comp, year)
            n == Len(events)
            held == [e \in S |-> synced[e].remaining]
            f == [e \in S |-> held[e]]
            g == [i \in Sales(year) |-> Larger(-gain[i], 0)]
            h == [e \in B |-> saldo(loss, comp, e, year)]
<1>1. /\ \A e \in Sales(year) :
           /\ Origin(events, e) = year
           /\ e \in DOMAIN synced <=> gain[e] < 0
           /\ e \in DOMAIN synced => synced[e].remaining = -gain[e]
      /\ \A e : e \notin Sales(year) =>
           /\ e \in DOMAIN synced => e \in DOMAIN loss /\ synced[e] = Back(year)[e]
           /\ Origin(events, e) # year => (e \in DOMAIN synced <=> e \in DOMAIN loss)
           /\ e \in DOMAIN synced /\ Origin(events, e) = year => ~ events[e].active
  BY SyncedRecords
<1>2. /\ n \in Nat /\ Sales(year) \in SUBSET DOMAIN events
      /\ \A e \in Sales(year) : gain[e] \in Int /\ events[e].active
  BY ResultsInt, EventsAreBookable DEF Safety, Sales
<1>3. year \in Nat /\ year - 1 \in Nat
  BY LedgerTypes, BoundsAssumption DEF Years
<1>4. \A e : e \in S <=> /\ e \in DOMAIN synced /\ events[e].active
                         /\ Origin(events, e) <= year /\ synced[e].remaining > 0
  BY DEF open_records
<1>5. \A e : e \in B <=> /\ e \in DOMAIN loss /\ events[e].active
                         /\ Origin(events, e) <= year - 1 /\ saldo(loss, comp, e, year) > 0
  BY DEF open_records_at_start_of
<1>6. \A e \in DOMAIN loss :
        /\ saldo(loss, comp, e, year) = Back(year)[e].remaining
        /\ Back(year)[e].remaining \in Nat /\ Origin(events, e) \in Nat
  BY BackBalance, BackTypes, LedgerTypes
<1>7. /\ SumOver(held, S, n) = Total(f, n)
      /\ LossesOf(year) = Total(g, n)
      /\ loss_inherited(year) = Total(h, n)
  BY InheritedIsBalance DEF SumOver, LossesOf, available_at_start_of
<1>8. /\ DOMAIN f = S /\ \A e \in S : f[e] = synced[e].remaining
      /\ DOMAIN g = Sales(year) /\ \A e \in Sales(year) : g[e] = Larger(-gain[e], 0)
      /\ DOMAIN h = B /\ \A e \in B : h[e] = saldo(loss, comp, e, year)
  OBVIOUS
<1>. HIDE DEF gain, synced, B, n, f, g, h
<1>9. ASSUME NEW e
      PROVE  Term(f, e) = Term(g, e) + Term(h, e) /\ Term(f, e) \in Nat
             /\ Term(g, e) \in Nat /\ Term(h, e) \in Nat
  <2>1. CASE e \in Sales(year)
    <3>1. e \notin B
      BY <1>1, <1>3, <1>5, <2>1
    <3>2. Term(h, e) = 0 /\ Term(g, e) = Larger(-gain[e], 0)
      BY <1>8, <2>1, <3>1 DEF Term
    <3>3. gain[e] \in Int
      BY <1>2, <2>1
    <3>4. CASE gain[e] < 0
      <4>1. e \in S /\ synced[e].remaining = -gain[e]
        BY <1>1, <1>2, <1>3, <1>4, <2>1, <3>3, <3>4
      <4>2. Term(f, e) = -gain[e]
        BY <1>8, <4>1 DEF Term
      <4>. QED BY <3>2, <3>3, <3>4, <4>2 DEF Larger
    <3>5. CASE ~ (gain[e] < 0)
      <4>1. e \notin S
        BY <1>1, <1>4, <2>1, <3>5
      <4>2. Term(f, e) = 0
        BY <1>8, <4>1 DEF Term
      <4>. QED BY <3>2, <3>3, <3>5, <4>2 DEF Larger
    <3>. QED BY <3>4, <3>5
  <2>2. CASE e \notin Sales(year)
    <3>1. Term(g, e) = 0
      BY <1>8, <2>2 DEF Term
    <3>2. CASE e \in S
      <4>1. e \in DOMAIN synced /\ e \in DOMAIN loss /\ synced[e] = Back(year)[e]
        BY <1>1, <1>4, <2>2, <3>2
      <4>2. Origin(events, e) # year /\ Origin(events, e) <= year /\ Origin(events, e) \in Nat
        BY <1>1, <1>4, <1>6, <2>2, <3>2, <4>1
      <4>3. e \in B
        BY <1>3, <1>4, <1>5, <1>6, <3>2, <4>1, <4>2
      <4>4. Term(f, e) = Back(year)[e].remaining /\ Term(h, e) = Back(year)[e].remaining
        BY <1>6, <1>8, <3>2, <4>1, <4>3 DEF Term
      <4>5. Back(year)[e].remaining \in Nat
        BY <1>6, <4>1
      <4>. QED BY <3>1, <4>4, <4>5
    <3>3. CASE e \notin S
      <4>1. e \notin B
        <5>. SUFFICES ASSUME e \in B PROVE FALSE
          OBVIOUS
        <5>1. e \in DOMAIN loss /\ Origin(events, e) # year /\ Origin(events, e) <= year
          BY <1>3, <1>5, <1>6
        <5>2. e \in DOMAIN synced /\ synced[e] = Back(year)[e]
          BY <1>1, <2>2, <5>1
        <5>. QED BY <1>4, <1>5, <1>6, <3>3, <5>1, <5>2
      <4>2. Term(f, e) = 0 /\ Term(h, e) = 0
        BY <1>8, <3>3, <4>1 DEF Term
      <4>. QED BY <3>1, <4>2
    <3>. QED BY <3>2, <3>3
  <2>. QED BY <2>1, <2>2
<1>10. Splits(f, g, h, n)
  BY <1>9 DEF Splits
<1>11. Summable(f) /\ Summable(g) /\ Summable(h)
  <2>1. \A e : Term(f, e) \in Int /\ Term(g, e) \in Int /\ Term(h, e) \in Int
    BY <1>9
  <2>. QED BY <2>1 DEF Summable, Term
<1>12. Total(f, n) = Total(g, n) + Total(h, n)
  BY <1>2, <1>10, <1>11, TotalOfSum
<1>. QED BY <1>7, <1>12 DEF synced, n

(* A closing consumes as much of what the ledger offers as the income of the
   year takes, in FIFO order, and carries the rest forward. *)
LEMMA CloseConsumes ==
  ASSUME Safety, LossesOfSales, IdsOnce, CarriedLossesExist,
         NEW year \in Years, CloseTransaction(year)
  PROVE  /\ compute(year).income - compute(year).taxable
              = Total([e \in EventIds |-> comp'[e][year]], MaxEvents)
         /\ compute(year).carryforward
              = available_at_start_of(events', loss', comp', year + 1)
         /\ \A f \in DOMAIN loss' : comp'[f][year] > 0 =>
              \A e \in DOMAIN loss' :
                events'[e].active /\ Older(events', loss', e, f)
                  => Total(comp'[e], year) = loss'[e].amount
<1>. DEFINE C == Cleared(comp, year)
            gain == resultados_alienacao(year)
            synced == SyncedBy(year)
            S == open_records(events, synced, year)
            held == [e \in S |-> synced[e].remaining]
            R == Age(synced, S)
            income == compute(year).income
            n == Len(events)
            drawn == [e \in S |-> Drawn(R, S, held, income, n, e)]
            available == LossesOf(year) + loss_inherited(year)
<1>1. Safety /\ LossesOfSales /\ IdsOnce /\ CarriedLossesExist
  OBVIOUS
<1>2. Safety'
  BY <1>1, CloseTransactionSafe
<1>3. /\ \A y \in Closed : y # year => y < year
      /\ synced \in [DOMAIN synced -> LossRecord]
      /\ loss' = Consumed(events, synced, year, income)
      /\ comp' = Compensated(events, synced, C, year, income)
      /\ Closed' = Closed \cup {year}
      /\ events' = events
  BY <1>1, CloseWrites
<1>4. /\ year \in Nat /\ Closed \subseteq Nat /\ n \in Nat /\ DOMAIN events = 1..n
      /\ n <= MaxEvents /\ EventIds = 1..MaxEvents /\ MaxEvents \in Nat
  BY <1>1, LedgerTypes, EventsAreBookable, BoundsAssumption DEF Safety, TypeOK, EventIds
<1>5. income \in Nat /\ LossesOf(year) \in Nat /\ loss_inherited(year) \in Nat
  BY <1>1, ComputeParts, InheritedIsBalance
<1>6. /\ compute(year).taxable = Larger(income - available, 0)
      /\ compute(year).carryforward = Larger(available - income, 0)
  BY <1>1, ComputeParts
<1>7. DOMAIN synced \subseteq 1..n /\ \A e \in DOMAIN synced : synced[e].remaining >= 0
  <2>1. gain \in [Sales(year) -> Int]
    BY <1>1, ResultsInt DEF Safety
  <2>2. DOMAIN synced \subseteq DOMAIN events /\ \A e \in DOMAIN synced : synced[e].remaining >= 0
    <3>. HIDE DEF gain
    <3>1. LedgerSound(Back(year), C, Closed \ {year})
      BY <1>1, ReturnedSound DEF Back
    <3>2. ~ SyncBlocked(Back(year), C, gain)
      <4>1. ~ SyncBlocked(loss, C, gain) /\ DOMAIN Back(year) = DOMAIN loss
        BY <1>1, BackTypes DEF CloseTransaction, gain
      <4>. QED BY <4>1 DEF SyncBlocked
    <3>3. synced = Synced(events, Back(year), C, gain, year, lastLossId)
      BY DEF SyncedBy, gain
    <3>. HIDE DEF C, synced
    <3>. QED BY <1>1, <2>1, <3>1, <3>2, <3>3, SyncConserves
  <2>. QED BY <1>4, <2>2
<1>8. \A e \in DOMAIN synced :
        /\ synced[e].remaining \in Nat /\ synced[e].id \in Nat
        /\ Origin(events, e) \in Nat
  <2>. TAKE e \in DOMAIN synced
  <2>1. synced[e] \in LossRecord
    BY <1>3
  <2>2. synced[e].remaining \in Int /\ synced[e].id \in Nat
    BY <2>1 DEF LossRecord, Amounts
  <2>3. events[e].trade \in Nat
    BY <1>1, <1>4, <1>7, EventsAreBookable DEF Safety, Bookable
  <2>4. Origin(events, e) \in Nat
    BY <2>3, YearGrows DEF Origin
  <2>5. synced[e].remaining >= 0
    BY <1>7
  <2>. HIDE DEF synced
  <2>. QED BY <2>2, <2>4, <2>5
<1>9. \A e, f \in DOMAIN synced : e # f => synced[e].id # synced[f].id
  BY <1>1, <1>3, SyncedIds
<1>10. /\ S \in SUBSET (1..n) /\ held \in [S -> Nat]
       /\ TotallyOrdered(R, S)
       /\ \A e, f \in S : <<e, f>> \in R <=> Older(events, synced, e, f)
       /\ \A e \in S : uso(events, synced, year, income, e) = Drawn(R, S, held, income, n, e)
  <2>1. Aged(synced)
    BY <1>7, <1>8, <1>9 DEF Aged
  <2>2. /\ n \in Nat /\ Len(events) = n /\ income \in Nat
        /\ S = open_records(events, synced, year)
        /\ held = [e \in S |-> synced[e].remaining]
        /\ R = Age(synced, S)
    BY <1>4, <1>5
  <2>. HIDE DEF synced, S, held, R, income, n
  <2>3. /\ S \in SUBSET (1..n) /\ held \in [S -> Nat]
        /\ TotallyOrdered(Age(synced, S), S)
        /\ \A e, f \in S : <<e, f>> \in Age(synced, S) <=> Older(events, synced, e, f)
        /\ \A e \in S : uso(events, synced, year, income, e)
                          = Drawn(Age(synced, S), S, held, income, n, e)
    BY <2>1, <2>2, UsoIsDrawn
  <2>. QED BY <2>2, <2>3
<1>11. \A e : e \in S <=> /\ e \in DOMAIN synced /\ events[e].active
                          /\ Origin(events, e) <= year /\ synced[e].remaining > 0
  BY DEF open_records
<1>12. SumOver(held, S, n) = available /\ available \in Nat
  BY <1>1, <1>3, <1>5, SyncedBalance
<1>13. \A e \in EventIds : comp'[e] = [C[e] EXCEPT ![year] =
                              IF e \in DOMAIN synced THEN uso(events, synced, year, income, e) ELSE 0]
  <2>1. C = [e \in EventIds |-> C[e]]
    BY <1>1 DEF Cleared, Safety, TypeOK
  <2>. QED BY <1>3, <2>1 DEF Compensated
<1>14. /\ DOMAIN loss' = DOMAIN synced
       /\ \A e \in DOMAIN synced :
            /\ loss'[e].id = synced[e].id /\ loss'[e].amount = synced[e].amount
            /\ loss'[e].remaining = synced[e].remaining - uso(events, synced, year, income, e)
  <2>1. \A e \in DOMAIN synced : synced[e] \in LossRecord
    BY <1>3
  <2>2. \A e \in DOMAIN synced :
          loss'[e] = [synced[e] EXCEPT !.remaining = @ - uso(events, synced, year, income, e)]
    BY <1>3 DEF Consumed
  <2>3. DOMAIN loss' = DOMAIN synced
    BY <1>3 DEF Consumed
  <2>. HIDE DEF synced, income
  <2>. QED BY <2>1, <2>2, <2>3 DEF LossRecord
<1>15. \A e \in DOMAIN synced \ S : uso(events, synced, year, income, e) = 0
  BY DEF uso
<1>16. \A e \in S : drawn[e] = Drawn(R, S, held, income, n, e) /\ held[e] = synced[e].remaining
  OBVIOUS
<1>17. SumOver(drawn, S, n) = Smaller(income, available)
  <2>. HIDE DEF synced, S, held, R, income, n
  <2>1. SumOver([e \in S |-> Drawn(R, S, held, income, n, e)], S, n)
          = Smaller(income, SumOver(held, S, n))
    BY <1>4, <1>5, <1>10, DrawnInAll
  <2>. QED BY <1>12, <2>1
<1>18. ASSUME NEW e \in S
       PROVE  drawn[e] \in Nat /\ drawn[e] <= held[e]
  <2>1. e \in DOMAIN synced /\ \A x \in DOMAIN synced : synced[x].remaining \in Int
    BY <1>8, <1>11
  <2>2. /\ uso(events, synced, year, income, e) \in Nat
        /\ uso(events, synced, year, income, e) > 0
             => uso(events, synced, year, income, e) <= synced[e].remaining
    <3>. HIDE DEF synced, income, n
    <3>. QED BY <1>4, <1>5, <2>1, UsoBounds DEF n
  <2>3. synced[e].remaining \in Nat
    BY <1>8, <2>1
  <2>. HIDE DEF drawn, held, S, R, synced, income
  <2>. QED BY <1>10, <1>16, <2>2, <2>3
<1>. HIDE DEF C, gain, synced, S, held, R, income, n, drawn, available
<1>19. \A e \in EventIds : comp'[e][year] = IF e \in S THEN drawn[e] ELSE 0
  <2>. TAKE e \in EventIds
  <2>1. C[e] \in [Years -> Nat]
    BY <1>1, BackTypes DEF C
  <2>2. comp'[e][year] = IF e \in DOMAIN synced THEN uso(events, synced, year, income, e) ELSE 0
    BY <1>13, <2>1
  <2>3. e \in S => e \in DOMAIN synced
    BY <1>11
  <2>. QED BY <1>10, <1>15, <1>16, <2>2, <2>3
<1>20. \A e \in DOMAIN synced :
         loss'[e].remaining = synced[e].remaining - (IF e \in S THEN drawn[e] ELSE 0)
  BY <1>10, <1>14, <1>15, <1>16
<1>21. ASSUME NEW e \in DOMAIN synced
       PROVE  /\ loss'[e].amount - Total(comp'[e], year) = loss'[e].remaining
              /\ loss'[e].remaining \in Nat /\ Total(comp'[e], year) \in Nat
  <2>1. e \in EventIds /\ e \in DOMAIN loss'
    BY <1>4, <1>7, <1>14
  <2>2. comp' \in [EventIds -> [Years -> 0..MaxAmount]]
    BY <1>2 DEF Safety, TypeOK
  <2>3. comp'[e] \in [Years -> Nat]
    BY <2>1, <2>2, BoundsAssumption
  <2>4. ASSUME NEW y \in Years, year < y
        PROVE  comp'[e][y] = 0
    <3>1. y \in Nat /\ y # year
      BY <1>1, <1>4, <2>4, LedgerTypes
    <3>2. y \notin Closed'
      <4>1. ~ (y < year)
        BY <1>4, <2>4, <3>1
      <4>. QED BY <1>3, <3>1, <4>1
    <3>3. ~ (comp'[e][y] > 0)
      BY <1>2, <2>1, <3>2 DEF Safety, CompensationsOfClosedYears
    <3>4. comp'[e][y] \in Nat
      BY <2>3
    <3>. QED BY <3>3, <3>4
  <2>5. Total(comp'[e], year) = Total(comp'[e], LastYear)
    BY <1>4, <2>3, <2>4, AllGiven
  <2>6. /\ loss'[e].remaining >= 0
        /\ loss'[e].remaining + Total(comp'[e], LastYear) = loss'[e].amount
    BY <1>2, <2>1 DEF Safety, LossConservation
  <2>7. loss'[e].remaining \in Int
    <3>1. loss'[e] \in LossRecord
      BY <1>2, <2>1 DEF Safety, TypeOK
    <3>. QED BY <3>1 DEF LossRecord, Amounts
  <2>8. Total(comp'[e], year) \in Nat
    <3>1. \A y \in DOMAIN comp'[e] : comp'[e][y] \in Nat
      BY <2>3
    <3>. QED BY <1>4, <3>1, TotalNonNegative
  <2>. QED BY <2>5, <2>6, <2>7, <2>8
<1>22. income - compute(year).taxable = Total([e \in EventIds |-> comp'[e][year]], MaxEvents)
  <2>. DEFINE f == [e \in EventIds |-> comp'[e][year]]
              g == [e \in S |-> drawn[e]]
  <2>1. /\ DOMAIN f = EventIds /\ \A e \in EventIds : f[e] = IF e \in S THEN drawn[e] ELSE 0
        /\ DOMAIN g = S /\ \A e \in S : g[e] = drawn[e]
        /\ S \subseteq EventIds
    BY <1>4, <1>10, <1>19
  <2>2. SumOver(drawn, S, n) = Total(g, n)
    BY DEF SumOver
  <2>. HIDE DEF f, g
  <2>3. Summable(f) /\ Summable(g)
    <3>1. \A e \in DOMAIN f : f[e] \in Nat
      BY <1>18, <2>1
    <3>2. \A e \in DOMAIN g : g[e] \in Nat
      BY <1>18, <2>1
    <3>. QED BY <3>1, <3>2, NaturalsSummable
  <2>4. \A e \in DOMAIN f \cup DOMAIN g : Term(f, e) = Term(g, e)
    BY <2>1 DEF Term
  <2>5. DOMAIN f \subseteq 1..MaxEvents /\ DOMAIN g \subseteq 1..n
    BY <1>4, <1>10, <2>1
  <2>6. Total(f, MaxEvents) = Total(g, n)
    BY <1>4, <2>3, <2>4, <2>5, TotalOfTerms
  <2>7. income - compute(year).taxable = Smaller(income, available)
    BY <1>5, <1>6, <1>12 DEF Smaller, Larger
  <2>. QED BY <1>17, <2>2, <2>6, <2>7 DEF f
<1>23. compute(year).carryforward = available_at_start_of(events', loss', comp', year + 1)
  <2>. DEFINE S2 == open_records_at_start_of(events', loss', comp', year + 1)
              f == [e \in S2 |-> saldo(loss', comp', e, year + 1)]
              g == [e \in S |-> drawn[e]]
              h == [e \in S |-> held[e]]
  <2>1. /\ available_at_start_of(events', loss', comp', year + 1) = Total(f, n)
        /\ SumOver(drawn, S, n) = Total(g, n)
        /\ SumOver(held, S, n) = Total(h, n)
    BY <1>3 DEF available_at_start_of, SumOver, n
  <2>2. \A e \in DOMAIN synced : saldo(loss', comp', e, year + 1) = loss'[e].remaining
    <3>1. (year + 1) - 1 = year
      BY <1>4
    <3>. QED BY <1>21, <3>1 DEF saldo
  <2>3. \A e : e \in S2 <=> /\ e \in DOMAIN synced /\ events[e].active
                            /\ Origin(events, e) <= year /\ loss'[e].remaining > 0
    <3>1. (year + 1) - 1 = year
      BY <1>4
    <3>. QED BY <1>3, <1>14, <2>2, <3>1 DEF open_records_at_start_of
  <2>4. /\ DOMAIN f = S2 /\ \A e \in S2 : f[e] = loss'[e].remaining
        /\ DOMAIN g = S /\ \A e \in S : g[e] = drawn[e]
        /\ DOMAIN h = S /\ \A e \in S : h[e] = held[e]
    BY <2>2, <2>3
  <2>. HIDE DEF S2, f, g, h
  <2>5. ASSUME NEW e
        PROVE  /\ Term(h, e) = Term(f, e) + Term(g, e)
               /\ Term(f, e) \in Nat /\ Term(g, e) \in Nat /\ Term(h, e) \in Nat
    <3>1. CASE e \in S
      <4>1. /\ e \in DOMAIN synced /\ events[e].active /\ Origin(events, e) <= year
            /\ held[e] = synced[e].remaining /\ synced[e].remaining \in Nat
        BY <1>8, <1>11, <1>16, <3>1
      <4>2. /\ drawn[e] \in Nat /\ drawn[e] <= held[e]
            /\ loss'[e].remaining = held[e] - drawn[e] /\ loss'[e].remaining \in Nat
        BY <1>18, <1>20, <1>21, <3>1, <4>1
      <4>3. Term(f, e) = loss'[e].remaining
        BY <2>3, <2>4, <4>1, <4>2 DEF Term
      <4>4. Term(g, e) = drawn[e] /\ Term(h, e) = held[e]
        BY <2>4, <3>1 DEF Term
      <4>. QED BY <4>1, <4>2, <4>3, <4>4
    <3>2. CASE e \notin S
      <4>1. e \notin S2
        <5>. SUFFICES ASSUME e \in S2 PROVE FALSE
          OBVIOUS
        <5>1. loss'[e].remaining = synced[e].remaining
          <6>1. synced[e].remaining \in Nat
            BY <1>8, <2>3
          <6>. QED BY <1>20, <2>3, <3>2, <6>1
        <5>. QED BY <1>11, <2>3, <3>2, <5>1
      <4>. QED BY <2>4, <3>2, <4>1 DEF Term
    <3>. QED BY <3>1, <3>2
  <2>6. Splits(h, f, g, n)
    BY <2>5 DEF Splits
  <2>7. Summable(f) /\ Summable(g) /\ Summable(h)
    <3>1. \A e : Term(f, e) \in Int /\ Term(g, e) \in Int /\ Term(h, e) \in Int
      BY <2>5
    <3>. QED BY <3>1 DEF Summable, Term
  <2>8. Total(h, n) = Total(f, n) + Total(g, n) /\ Total(f, n) \in Int
    <3>1. Total(h, n) = Total(f, n) + Total(g, n)
      BY <1>4, <2>6, <2>7, TotalOfSum
    <3>2. Total(f, n) \in Int
      BY <1>4, <2>7, TotalRounds DEF Summable
    <3>. QED BY <3>1, <3>2
  <2>. QED BY <1>5, <1>6, <1>12, <1>17, <2>1, <2>8 DEF Smaller, Larger
<1>24. ASSUME NEW f \in DOMAIN loss', comp'[f][year] > 0,
              NEW e \in DOMAIN loss', events'[e].active, Older(events', loss', e, f)
       PROVE  Total(comp'[e], year) = loss'[e].amount
  <2>1. e \in DOMAIN synced /\ f \in DOMAIN synced /\ e \in EventIds /\ f \in EventIds
    BY <1>4, <1>7, <1>14
  <2>2. f \in S /\ drawn[f] > 0
    BY <1>19, <1>24, <2>1
  <2>3. Older(events, synced, e, f) /\ events[e].active
    BY <1>3, <1>14, <1>24, <2>1 DEF Older
  <2>4. Origin(events, e) <= year
    <3>1. /\ Origin(events, e) \in Nat /\ Origin(events, f) \in Nat
          /\ Origin(events, f) <= year
      BY <1>8, <1>11, <2>1, <2>2
    <3>2. Origin(events, e) <= Origin(events, f)
      BY <2>3, <3>1 DEF Older
    <3>. QED BY <1>4, <3>1, <3>2
  <2>5. loss'[e].remaining = 0
    <3>0. synced[e].remaining \in Nat
      BY <1>8, <2>1
    <3>1. CASE synced[e].remaining = 0
      <4>1. e \notin S
        BY <1>11, <3>1
      <4>. QED BY <1>20, <2>1, <3>1, <4>1
    <3>2. CASE synced[e].remaining # 0
      <4>1. e \in S
        BY <1>11, <2>1, <2>3, <2>4, <3>0, <3>2
      <4>2. <<e, f>> \in R
        BY <1>10, <2>2, <2>3, <4>1
      <4>3. Drawn(R, S, held, income, n, f) > 0
        BY <1>16, <2>2
      <4>4. Drawn(R, S, held, income, n, e) = held[e]
        <5>1. Ordered(R, S)
          BY <1>10 DEF TotallyOrdered
        <5>2. /\ n \in Nat /\ S \in SUBSET (1..n) /\ held \in [S -> Nat] /\ income \in Nat
              /\ e \in S /\ f \in S
          BY <1>4, <1>5, <1>10, <2>2, <4>1
        <5>. QED BY <4>2, <4>3, <5>1, <5>2, DrawnInOrder, Zenon
      <4>5. drawn[e] = held[e] /\ held[e] = synced[e].remaining
        BY <1>16, <4>1, <4>4
      <4>. QED BY <1>20, <2>1, <3>0, <4>1, <4>5
    <3>. QED BY <3>1, <3>2
  <2>6. /\ loss'[e].amount - Total(comp'[e], year) = 0 /\ Total(comp'[e], year) \in Nat
    BY <1>21, <2>1, <2>5
  <2>7. loss'[e].amount \in Int
    <3>1. loss'[e] \in LossRecord
      BY <1>2 DEF Safety, TypeOK
    <3>. QED BY <3>1 DEF LossRecord, Amounts
  <2>. QED BY <2>6, <2>7
<1>. QED BY <1>22, <1>23, <1>24 DEF income

(* The records a closing writes, and what it leaves alone. *)
LEMMA CloseSpares ==
  ASSUME Safety, LossesOfSales, NEW year \in Years, CloseTransaction(year)
  PROVE  /\ SparesEarlierYears(year)
         /\ DOMAIN loss' = DOMAIN SyncedBy(year)
         /\ \A e \in DOMAIN loss' : /\ loss'[e].amount = SyncedBy(year)[e].amount
                                    /\ loss'[e].id = SyncedBy(year)[e].id
<1>. DEFINE gain == resultados_alienacao(year)
            synced == SyncedBy(year)
            income == compute(year).income
<1>1. /\ \A y \in Closed : y # year => y < year
      /\ synced \in [DOMAIN synced -> LossRecord]
      /\ loss' = Consumed(events, synced, year, income)
      /\ comp' = Compensated(events, synced, Cleared(comp, year), year, income)
      /\ Closed' = Closed \cup {year}
      /\ assessment' = [y \in Closed \cup {year} |-> IF y = year THEN compute(year) ELSE assessment[y]]
      /\ UNCHANGED <<events, openings>>
  BY CloseWrites
<1>2. /\ \A e \in Sales(year) : Origin(events, e) = year
      /\ \A e : e \notin Sales(year) =>
           /\ e \in DOMAIN synced => e \in DOMAIN loss /\ synced[e] = Back(year)[e]
           /\ Origin(events, e) # year => (e \in DOMAIN synced <=> e \in DOMAIN loss)
  BY <1>1, SyncedRecords
<1>. HIDE DEF gain, synced, income
<1>3. /\ DOMAIN loss' = DOMAIN synced
      /\ \A e \in DOMAIN synced :
           loss'[e].id = synced[e].id /\ loss'[e].amount = synced[e].amount
  <2>1. \A e \in DOMAIN synced : synced[e] \in LossRecord
    BY <1>1
  <2>2. /\ DOMAIN loss' = DOMAIN synced
        /\ \A e \in DOMAIN synced :
             loss'[e] = [synced[e] EXCEPT !.remaining = @ - uso(events, synced, year, income, e)]
    BY <1>1 DEF Consumed
  <2>. QED BY <2>1, <2>2 DEF LossRecord
<1>4. \A e \in EventIds, z \in Years : z # year => comp'[e][z] = comp[e][z]
  BY <1>1 DEF Compensated, Cleared, Safety, TypeOK
<1>5. /\ \A y : y # year => (y \in Closed' <=> y \in Closed)
      /\ \A y \in Closed : y # year => y < year /\ assessment'[y] = assessment[y]
  BY <1>1
<1>6. \A e : Origin(events, e) # year =>
        /\ e \in DOMAIN loss' <=> e \in DOMAIN loss
        /\ e \in DOMAIN loss' => /\ synced[e].id = loss[e].id
                                 /\ synced[e].amount = loss[e].amount
  BY <1>2, <1>3, BackTypes
<1>7. SparesEarlierYears(year)
  BY <1>1, <1>3, <1>4, <1>5, <1>6 DEF SparesEarlierYears
<1>. QED BY <1>3, <1>7 DEF synced

(* A year that carries a loss forward leaves a record behind: of its own
   losses, or of those it inherited. *)
LEMMA CloseLeavesRecord ==
  ASSUME Safety, LossesOfSales, CarriedLossesExist, NEW year \in Years, CloseTransaction(year),
         compute(year).carryforward > 0
  PROVE  \E e \in DOMAIN loss' : Origin(events, e) <= year
<1>. DEFINE gain == resultados_alienacao(year)
            synced == SyncedBy(year)
<1>1. /\ compute(year).income \in Nat
      /\ LossesOf(year) \in Nat /\ loss_inherited(year) \in Nat
      /\ compute(year).carryforward
           = Larger((LossesOf(year) + loss_inherited(year)) - compute(year).income, 0)
      /\ loss_inherited(year) > 0 => \E e \in DOMAIN loss : Origin(events, e) <= year - 1
      /\ year \in Nat
  BY ComputeParts, InheritedIsBalance, LedgerTypes
<1>2. DOMAIN loss' = DOMAIN synced /\ SparesEarlierYears(year)
  BY CloseSpares
<1>3. \A e \in Sales(year) : /\ Origin(events, e) = year
                             /\ e \in DOMAIN synced <=> gain[e] < 0
                             /\ gain[e] \in Int
  BY SyncedRecords, ResultsInt DEF Safety
<1>4. CASE loss_inherited(year) > 0
  <2>1. PICK e \in DOMAIN loss : Origin(events, e) <= year - 1
    BY <1>1, <1>4
  <2>2. Origin(events, e) \in Nat
    BY LedgerTypes
  <2>3. Origin(events, e) # year /\ Origin(events, e) <= year
    BY <1>1, <2>1, <2>2
  <2>. QED BY <1>2, <2>3 DEF SparesEarlierYears
<1>5. CASE ~ (loss_inherited(year) > 0)
  <2>1. LossesOf(year) > 0
    BY <1>1, <1>5 DEF Larger
  <2>. DEFINE losses == [i \in Sales(year) |-> Larger(-gain[i], 0)]
  <2>2. LossesOf(year) = Total(losses, Len(events)) /\ Len(events) \in Nat
    BY EventsAreBookable DEF LossesOf, Safety
  <2>3. ASSUME \A i \in Sales(year) : ~ (gain[i] < 0)
        PROVE  FALSE
    <3>1. \A i \in DOMAIN losses : losses[i] = 0
      <4>. HIDE DEF gain
      <4>. QED BY <1>3, <2>3 DEF Larger
    <3>. HIDE DEF losses
    <3>2. Total(losses, Len(events)) = 0
      BY <2>2, <3>1, TotalOfZeros
    <3>. QED BY <2>1, <2>2, <3>2
  <2>4. PICK i \in Sales(year) : gain[i] < 0
    BY <2>3
  <2>5. i \in DOMAIN loss' /\ Origin(events, i) <= year
    BY <1>1, <1>2, <1>3, <2>4
  <2>. QED BY <2>5
<1>. QED BY <1>4, <1>5

(* Closing a year, also one that is closed. *)
LEMMA CloseKeepsClosings ==
  ASSUME ClosedLedger, NEW year \in Years, CloseTransaction(year)
  PROVE  ClosedLedger'
<1>1. Safety /\ LossesOfSales /\ IdsOnce /\ CarriedLossesExist
  BY DEF ClosedLedger
<1>2. Safety'
  BY <1>1, CloseTransactionSafe
<1>3. /\ checar_vendas_acima_da_custodia(year)
      /\ lastLossId' = lastLossId + Cardinality(NewLosses(loss, resultados_alienacao(year)))
      /\ Closed' = Closed \cup {year}
      /\ assessment' = [y \in Closed \cup {year} |-> IF y = year THEN compute(year) ELSE assessment[y]]
      /\ UNCHANGED <<events, openings>>
  BY <1>1, CloseWrites
<1>4. /\ SparesEarlierYears(year)
      /\ DOMAIN loss' = DOMAIN SyncedBy(year)
      /\ \A e \in DOMAIN loss' : loss'[e].id = SyncedBy(year)[e].id
  BY <1>1, CloseSpares
<1>5. assessment'[year] = compute(year)
  BY <1>3
<1>6. /\ compute(year).income - compute(year).taxable
           = Total([e \in EventIds |-> comp'[e][year]], MaxEvents)
      /\ compute(year).carryforward = available_at_start_of(events', loss', comp', year + 1)
      /\ \A f \in DOMAIN loss' : comp'[f][year] > 0 =>
           \A e \in DOMAIN loss' :
             events'[e].active /\ Older(events', loss', e, f)
               => Total(comp'[e], year) = loss'[e].amount
  BY <1>1, CloseConsumes
<1>7. LossesOfSales'
  <2>1. \A e \in DOMAIN SyncedBy(year) : events[e].type = "SELL"
    <3>1. \A e : e \notin Sales(year) => (e \in DOMAIN SyncedBy(year) => e \in DOMAIN loss)
      BY <1>1, <1>3, SyncedRecords
    <3>. QED BY <1>1, <3>1 DEF LossesOfSales, Sales
  <2>. QED BY <1>3, <1>4, <2>1 DEF LossesOfSales
<1>8. IdsOnce'
  BY <1>1, <1>3, <1>4, SyncedIds DEF IdsOnce
<1>9. compute(year).carryforward >= 0
  BY <1>1, ComputeParts, InheritedIsBalance DEF Larger
<1>10. compute(year).carryforward > 0 => \E e \in DOMAIN loss' : Origin(events', e) <= year
  BY <1>1, <1>3, CloseLeavesRecord
<1>11. EventYears' /\ CarriedLossesExist' /\ CarryforwardHistoric'
  BY <1>2, <1>4, <1>5, <1>6, <1>9, <1>10, EarlierYearsKept
  DEF CarriedLossesExist, CarryforwardHistoric
<1>12. checar_vendas_acima_da_custodia(year)'
  BY <1>3 DEF checar_vendas_acima_da_custodia, Sales
<1>13. FifoOrder' /\ TaxBaseBackedByLedger' /\ ClosedSalesCovered'
  BY <1>2, <1>4, <1>5, <1>6, <1>12, EarlierYearsKept
  DEF FifoOrder, TaxBaseBackedByLedger, ClosedSalesCovered
<1>. QED BY <1>2, <1>7, <1>8, <1>11, <1>13 DEF ClosedLedger

-------------------------------------------------------------------------------
LEMMA InitClosings == Init => ClosedLedger
<1>. SUFFICES ASSUME Init PROVE ClosedLedger
  OBVIOUS
<1>1. Safety
  BY InitSafe
<1>2. events = <<>> /\ DOMAIN loss = {} /\ Closed = {}
  BY DEF Init, Closed
<1>. QED BY <1>1, <1>2
     DEF ClosedLedger, EventYears, LossesOfSales, IdsOnce, CarriedLossesExist,
         CarryforwardHistoric, FifoOrder, TaxBaseBackedByLedger, ClosedSalesCovered

LEMMA LedgerStepClosings ==
  ASSUME ClosedLedger, LedgerStep, Safety'
  PROVE  ClosedLedger'
BY LedgerStepKeepsLedger, LedgerStepKeepsClosings DEF ClosedLedger

LEMMA NextKeepsClosings == ClosedLedger /\ [Next]_vars => ClosedLedger'
<1>. SUFFICES ASSUME ClosedLedger, [Next]_vars PROVE ClosedLedger'
  OBVIOUS
<1>0. Safety /\ EventYears
  BY DEF ClosedLedger
<1>1. Safety'
  BY <1>0, NextSafe
<1>2. ASSUME NEW d \in Drafts, RecordEvent(d) PROVE ClosedLedger'
  BY <1>0, <1>1, <1>2, RecordEventStep, LedgerStepClosings
<1>3. ASSUME NEW i \in DOMAIN events, NEW d \in Drafts, CorrectEvent(i, d) PROVE ClosedLedger'
  BY <1>0, <1>1, <1>3, CorrectEventStep, LedgerStepClosings
<1>4. ASSUME NEW i \in DOMAIN events, DeactivateEvent(i) PROVE ClosedLedger'
  BY <1>0, <1>1, <1>4, DeactivateEventStep, LedgerStepClosings
<1>5. ASSUME NEW o \in OpeningDrafts, SaveOpening(o) PROVE ClosedLedger'
  BY <1>0, <1>1, <1>5, SaveOpeningStep, LedgerStepClosings
<1>6. ASSUME NEW y \in Years, CloseYear(y) PROVE ClosedLedger'
  BY <1>6, CloseKeepsClosings DEF CloseYear
<1>7. ASSUME NEW y \in Years, ReopenYear(y) PROVE ClosedLedger'
  BY <1>7, ReopenYearKeepsClosings
<1>8. ASSUME UNCHANGED vars PROVE ClosedLedger'
  BY <1>0, <1>1, <1>8, StutteringStep, LedgerStepClosings
<1>. QED BY <1>2, <1>3, <1>4, <1>5, <1>6, <1>7, <1>8 DEF Next

(* The inductive invariant of the closing: the ledger, the snapshots and the
   facts of the closed years stay together over every sequence of closings,
   reopenings, corrections and openings. *)
THEOREM ClosingsStayTogether == Spec => []ClosedLedger
<1>1. Init => ClosedLedger
  BY InitClosings
<1>2. ClosedLedger /\ [Next]_vars => ClosedLedger'
  BY NextKeepsClosings
<1>. QED BY <1>1, <1>2, PTL DEF Spec

(* apply_compensation is FIFO over the whole life of the ledger: a closed
   year that consumed a loss left no older loss that is still valid with a
   balance. *)
THEOREM ConsumptionIsFifo == Spec => []FifoOrder
<1>1. ClosedLedger => FifoOrder
  BY DEF ClosedLedger
<1>. QED BY <1>1, ClosingsStayTogether, PTL

(* What TaxEngine.compute deducted from the tax base of a closed year is what
   apply_compensation took from the ledger for that year. *)
THEOREM TaxBaseBacked == Spec => []TaxBaseBackedByLedger
<1>1. ClosedLedger => TaxBaseBackedByLedger
  BY DEF ClosedLedger
<1>. QED BY <1>1, ClosingsStayTogether, PTL

(* What checar_vendas_acima_da_custodia established when a year was closed
   after all the years before it stays true until it is reopened. *)
THEOREM SalesStayCovered == Spec => []ClosedSalesCovered
<1>1. ClosedLedger => ClosedSalesCovered
  BY DEF ClosedLedger
<1>. QED BY <1>1, ClosingsStayTogether, PTL

(* The carryforward of the last closed year is the operational balance. *)
LEMMA LastCarryforward ==
  ASSUME ClosedLedger, NEW y \in Closed, AllClosedUpTo(y), \A z \in Closed : z <= y
  PROVE  assessment[y].carryforward
           = Total([e \in open_records(events, loss, y) |-> loss[e].remaining], MaxEvents)
<1>. DEFINE S == open_records(events, loss, y)
            B == open_records_at_start_of(events, loss, comp, y + 1)
            f == [e \in S |-> loss[e].remaining]
            g == [e \in B |-> saldo(loss, comp, e, y + 1)]
            n == Len(events)
<1>1. Safety /\ CarryforwardHistoric
  BY DEF ClosedLedger
<1>2. y \in Nat /\ (y + 1) - 1 = y
  BY <1>1, LedgerTypes
<1>3. \A e \in DOMAIN loss : /\ saldo(loss, comp, e, y + 1) = loss[e].remaining
                             /\ loss[e].remaining \in Nat /\ e \in DOMAIN events
  BY <1>1, <1>2, SaldoIsRemaining, LedgerTypes DEF saldo
<1>4. B = S
  BY <1>2, <1>3 DEF open_records, open_records_at_start_of
<1>5. \A e \in S : e \in DOMAIN loss
  BY DEF open_records
<1>6. g = f
  BY <1>3, <1>4, <1>5
<1>7. DOMAIN f = S /\ \A e \in DOMAIN f : f[e] \in Nat
  BY <1>3, <1>5
<1>8. assessment[y].carryforward = Total(g, n)
  BY <1>1 DEF CarryforwardHistoric, available_at_start_of
<1>9. /\ n \in Nat /\ MaxEvents \in Nat /\ n <= MaxEvents
      /\ S \subseteq 1..n /\ S \subseteq 1..MaxEvents
  <2>1. n \in Nat /\ MaxEvents \in Nat /\ n <= MaxEvents /\ DOMAIN events = 1..n
    BY <1>1, EventsAreBookable, BoundsAssumption DEF Safety, TypeOK
  <2>. QED BY <1>3, <1>5, <2>1
<1>. HIDE DEF S, B, f, g, n
<1>10. Total(f, n) = Total(f, MaxEvents)
  BY <1>7, <1>9, NaturalsSummable, TotalOfTerms
<1>. QED BY <1>6, <1>8, <1>10 DEF f, S

(* The loss that the last of a run of closed years carries forward is what
   the ledger offers to the next closing: the two balances, the historical
   one of the snapshots and the operational one of the records, agree. *)
THEOREM CarryforwardIsBalance == Spec => []CarryforwardIsLedgerBalance
<1>1. ClosedLedger => CarryforwardIsLedgerBalance
  BY LastCarryforward DEF CarryforwardIsLedgerBalance
<1>. QED BY <1>1, ClosingsStayTogether, PTL

-------------------------------------------------------------------------------
(* What the computation of a year reads: its parts, side by side. *)
LEMMA ComputeKept ==
  ASSUME Safety, Safety', NEW y \in Years, LossesOf(y)' = LossesOf(y),
         loss_inherited(y)' = loss_inherited(y),
         compute(y).income' = compute(y).income
  PROVE  compute(y)' = compute(y)
<1>1. compute(y) = [income       |-> compute(y).income,
                    loss         |-> LossesOf(y),
                    taxable      |-> Larger(compute(y).income - (LossesOf(y) + loss_inherited(y)), 0),
                    carryforward |-> Larger((LossesOf(y) + loss_inherited(y)) - compute(y).income, 0)]
  BY DEF compute, LossesOf
<1>2. compute(y)' = [income       |-> compute(y).income',
                     loss         |-> LossesOf(y)',
                     taxable      |-> Larger(compute(y).income' - (LossesOf(y)' + loss_inherited(y)'), 0),
                     carryforward |-> Larger((LossesOf(y)' + loss_inherited(y)') - compute(y).income', 0)]
  BY DEF compute, LossesOf
<1>. QED BY <1>1, <1>2

(* The result of a sale of a closed year, all the years before it closed. *)
LEMMA RealizedKept ==
  ASSUME Safety, EventYears, LedgerStep, NEW y \in Closed, AllClosedUpTo(y),
         NEW i \in Sales(y),
         OpeningBooks(openings', events[i].account, Forever)
           = OpeningBooks(openings, events[i].account, Forever)
  PROVE  realized(events', openings', i) = realized(events, openings, i)
<1>. DEFINE account == events[i].account
            ids == {j \in Trades(events, account) : Precedes(events, j, i)}
            ids2 == {j \in Trades(events', account) : Precedes(events', j, i)}
            opening == OpeningBooks(openings, account, Forever)
<1>1. /\ y \in Nat /\ events'[i] = events[i]
      /\ DOMAIN events \in SUBSET Nat /\ IsFiniteSet(DOMAIN events)
      /\ \A j \in DOMAIN events : events[j] \in Event
      /\ i \in DOMAIN events /\ events[i].trade \in Nat /\ YearOf(events[i].trade) = y
  BY CustodyKept, LedgerTypes, EventsAreBookable DEF Safety, Sales, Event
<1>2. ASSUME NEW j \in ids PROVE j \in ids2 /\ events'[j] = events[j]
  <2>1. /\ j \in DOMAIN events /\ events[j].type # "DIVIDEND"
        /\ events[j].trade \in Nat /\ events[j].trade <= events[i].trade
    BY <1>1 DEF Trades, Event, Precedes
  <2>2. YearOf(events[j].trade) <= y
    BY <1>1, <2>1, YearGrows
  <2>3. j \in DOMAIN events' /\ events'[j] = events[j]
    BY <2>1, <2>2, TradesKept
  <2>. QED BY <1>1, <2>3 DEF Trades, Precedes
<1>3. ASSUME NEW j \in ids2 PROVE j \in ids
  <2>1. /\ j \in DOMAIN events' /\ events'[j].type # "DIVIDEND"
        /\ events'[j].trade \in Nat /\ events'[j].trade <= events[i].trade
    BY <1>1 DEF Trades, Event, Precedes, LedgerStep
  <2>2. YearOf(events'[j].trade) <= y
    BY <1>1, <2>1, YearGrows
  <2>3. j \in DOMAIN events /\ events'[j] = events[j]
    BY <2>1, <2>2, TradesKept
  <2>. QED BY <1>1, <2>3 DEF Trades, Precedes
<1>4. ids2 = ids /\ \A j \in ids : events'[j] = events[j]
  BY <1>2, <1>3
<1>5. ids \in SUBSET DOMAIN events
  BY DEF Trades
<1>6. /\ ids \in SUBSET Nat /\ IsFiniteSet(ids)
      /\ \A j \in ids : events[j].trade \in Nat
  <2>1. \A j \in DOMAIN events : events[j].trade \in Nat
    BY <1>1 DEF Event
  <2>. HIDE DEF ids
  <2>. QED BY <1>1, <1>5, <2>1, FS_Subset
<1>7. realized(events, openings, i)
        = events[i].brl - CostSold(Walk(events, opening, ids), events[i].qty)
  BY DEF realized
<1>8. realized(events', openings', i)
        = events[i].brl - CostSold(Walk(events', opening, ids2), events[i].qty)
  BY <1>1 DEF realized
<1>. HIDE DEF ids, ids2, opening
<1>9. Walk(events', opening, ids) = Walk(events, opening, ids)
  BY <1>4, <1>6, WalkSame
<1>. QED BY <1>4, <1>7, <1>8, <1>9

(* The incomes of a closed year. *)
LEMMA IncomesKept ==
  ASSUME LedgerStep, NEW y \in Closed
  PROVE  /\ Incomes(y)' = Incomes(y)
         /\ \A i \in Incomes(y) : i \in DOMAIN events /\ events'[i] = events[i]
<1>1. ASSUME NEW i \in DOMAIN events, events[i].type = "DIVIDEND", YearOf(events[i].receipt) = y
      PROVE  i \in DOMAIN events' /\ events'[i] = events[i]
  BY <1>1 DEF LedgerStep, Open, ano_fiscal_de
<1>2. ASSUME NEW i \in DOMAIN events', events'[i].type = "DIVIDEND",
             YearOf(events'[i].receipt) = y
      PROVE  i \in DOMAIN events /\ events'[i] = events[i]
  <2>1. i \in DOMAIN events
    BY <1>2 DEF LedgerStep, Open, ano_fiscal_de
  <2>2. events'[i].type = events[i].type /\ events'[i].receipt = events[i].receipt
    BY <2>1 DEF LedgerStep
  <2>. QED BY <1>1, <1>2, <2>1, <2>2
<1>3. \A i \in Incomes(y) : i \in Incomes(y)' /\ i \in DOMAIN events /\ events'[i] = events[i]
  BY <1>1 DEF Incomes
<1>4. \A i \in Incomes(y)' : i \in Incomes(y)
  BY <1>2 DEF Incomes
<1>. QED BY <1>3, <1>4

(* A handler of the ledger that keeps the opening books of what was sold in a
   closed year keeps the result of that year. *)
LEMMA LedgerStepKeepsCompute ==
  ASSUME ClosedLedger, Safety', LedgerStep, NEW y \in Closed, AllClosedUpTo(y),
         \A i \in Sales(y) : OpeningBooks(openings', events[i].account, Forever)
                               = OpeningBooks(openings, events[i].account, Forever)
  PROVE  compute(y)' = compute(y)
<1>. DEFINE gain == resultados_alienacao(y)
            gains == [i \in Sales(y) |-> Larger(gain[i], 0)]
            incomes == [i \in Incomes(y) |-> Attributed(events[i].account, events[i].brl)]
            losses == [i \in Sales(y) |-> Larger(-gain[i], 0)]
            n == Len(events)
            m == Len(events')
<1>1. /\ Safety /\ EventYears /\ LossesOfSales /\ CarriedLossesExist
      /\ y \in Years /\ y \in Nat /\ y # 0
  <2>1. Safety
    BY DEF ClosedLedger
  <2>2. y \in Years /\ y \in Nat /\ y # 0
    BY <2>1, LedgerTypes, BoundsAssumption DEF Years
  <2>. QED BY <2>2 DEF ClosedLedger
<1>2. n \in Nat /\ m \in Nat /\ DOMAIN events = 1..n /\ DOMAIN events \subseteq 1..m
  BY <1>1, EventsAreBookable DEF Safety, LedgerStep
<1>3. /\ Sales(y)' = Sales(y) /\ Sales(y) \subseteq DOMAIN events
      /\ \A i \in Sales(y) : events'[i] = events[i]
  BY <1>1, CustodyKept DEF Sales
<1>4. /\ Incomes(y)' = Incomes(y) /\ Incomes(y) \subseteq DOMAIN events
      /\ \A i \in Incomes(y) : events'[i] = events[i]
  BY IncomesKept DEF Incomes
<1>5. \A i \in Sales(y) : realized(events', openings', i) = realized(events, openings, i)
  BY <1>1, RealizedKept
<1>6. gain' = gain
  BY <1>3, <1>5 DEF resultados_alienacao, Attributed
<1>7. \A i \in Sales(y) : gain[i] \in Int
  BY <1>1, ResultsInt DEF Safety
<1>. HIDE DEF gain
<1>8. gains' = gains /\ losses' = losses
  BY <1>3, <1>6
<1>9. incomes' = incomes
  BY <1>4 DEF Attributed
<1>10. /\ Summable(gains) /\ Summable(losses)
       /\ DOMAIN gains \subseteq 1..n /\ DOMAIN losses \subseteq 1..n
  BY <1>2, <1>3, <1>7 DEF Summable, Larger
<1>11. Summable(incomes) /\ DOMAIN incomes \subseteq 1..n
  <2>1. DOMAIN incomes = Incomes(y)
    OBVIOUS
  <2>2. ASSUME NEW i \in Incomes(y) PROVE incomes[i] \in Int
    <3>1. events[i] \in Event
      BY <1>1, <1>4, EventsAreBookable DEF Safety
    <3>2. events[i].account \in Accounts /\ events[i].brl \in Nat
      BY <3>1 DEF Event
    <3>3. Share[events[i].account] \in Nat
      BY <3>2, InputsAssumption
    <3>4. events[i].brl * Share[events[i].account] \in Nat
      BY <3>2, <3>3, ProductNatural
    <3>5. Attributed(events[i].account, events[i].brl) \in Nat
      BY <3>4, CentsNatural DEF Attributed
    <3>. QED BY <3>5
  <2>. HIDE DEF incomes
  <2>. QED BY <1>2, <1>4, <2>1, <2>2 DEF Summable
<1>12. compute(y).income = Total(gains, n) + Total(incomes, n) /\ LossesOf(y) = Total(losses, n)
  BY DEF compute, LossesOf, gain
<1>13. /\ compute(y).income' = Total(gains', m) + Total(incomes', m)
       /\ LossesOf(y)' = Total(losses', m)
  BY DEF compute, LossesOf, gain
<1>14. /\ Total(gains, n) = Total(gains, m) /\ Total(incomes, n) = Total(incomes, m)
       /\ Total(losses, n) = Total(losses, m)
  <2>. HIDE DEF gains, incomes, losses, n, m
  <2>1. /\ DOMAIN gains \subseteq 1..m /\ DOMAIN incomes \subseteq 1..m
        /\ DOMAIN losses \subseteq 1..m
    BY <1>2, <1>10, <1>11
  <2>. QED BY <1>2, <1>10, <1>11, <2>1, TotalOfTerms
<1>15. compute(y).income' = compute(y).income /\ LossesOf(y)' = LossesOf(y)
  <2>. HIDE DEF gains, incomes, losses, n, m
  <2>. QED BY <1>8, <1>9, <1>12, <1>13, <1>14
<1>16. loss_inherited(y)' = loss_inherited(y)
  <2>1. /\ loss' = loss /\ comp' = comp /\ assessment' = assessment /\ Closed' = Closed
    BY DEF LedgerStep, Closed
  <2>2. \A e \in DOMAIN loss : Origin(events', e) = Origin(events, e)
    BY <1>1, LedgerTypes DEF LedgerStep, Origin
  <2>3. ASSUME NEW e \in DOMAIN loss, Origin(events, e) <= y - 1
        PROVE  events'[e].active = events[e].active
    <3>1. events[e].type # "DIVIDEND"
      BY <1>1 DEF LossesOfSales
    <3>2. Origin(events, e) \in Nat
      BY <1>1, LedgerTypes
    <3>3. YearOf(events[e].trade) <= y
      BY <1>1, <2>3, <3>2 DEF Origin
    <3>4. events'[e] = events[e]
      BY <1>1, <3>1, <3>3, LedgerTypes, TradesKept
    <3>. QED BY <3>4
  <2>4. Len(events') \in Nat /\ DOMAIN loss' \subseteq 1..Len(events')
    BY <1>1, <1>2, <2>1, LedgerTypes
  <2>5. \A e : e \in DOMAIN loss /\ Origin(events, e) <= y - 1
                  <=> e \in DOMAIN loss' /\ Origin(events', e) <= y - 1
    BY <2>1, <2>2
  <2>6. \A e \in DOMAIN loss : Origin(events, e) <= y - 1 =>
            /\ events'[e].active = events[e].active
            /\ loss'[e].amount = loss[e].amount
            /\ Total(comp'[e], y - 1) = Total(comp[e], y - 1)
    BY <2>1, <2>3
  <2>7. loss_inherited(y) = available_at_start_of(events, loss, comp, y)
    BY <1>1, InheritedIsBalance
  <2>8. /\ open_records_at_start_of(events', loss', comp', y)
             = open_records_at_start_of(events, loss, comp, y)
        /\ available_at_start_of(events', loss', comp', y)
             = available_at_start_of(events, loss, comp, y)
    BY <1>1, <2>4, <2>5, <2>6, BalanceKept
  <2>. QED BY <2>1, <2>2, <2>8 DEF loss_inherited, Open
<1>. QED BY <1>1, <1>15, <1>16, ComputeKept

(* Closing and reopening a year keep the results of the years up to it. *)
LEMMA EarlierComputeKept ==
  ASSUME Safety, Safety', NEW year \in Years, SparesEarlierYears(year),
         NEW y \in Years, y <= year
  PROVE  compute(y)' = compute(y)
<1>1. events' = events /\ openings' = openings
  BY DEF SparesEarlierYears
<1>2. y \in Nat \ {0} /\ year \in Nat /\ y - 1 # year /\ \A k \in Nat : k <= y - 1 => k # year
  BY LedgerTypes, BoundsAssumption DEF Years
<1>3. compute(y).income' = compute(y).income /\ LossesOf(y)' = LossesOf(y)
  BY <1>1 DEF compute, LossesOf, resultados_alienacao, Sales, Incomes, Attributed
<1>4. /\ open_records_at_start_of(events', loss', comp', y)
           = open_records_at_start_of(events, loss, comp, y)
      /\ available_at_start_of(events', loss', comp', y)
           = available_at_start_of(events, loss, comp, y)
  BY <1>2, EarlierBalances
<1>5. (\E e \in DOMAIN loss' : Origin(events', e) <= y - 1)
        <=> \E e \in DOMAIN loss : Origin(events, e) <= y - 1
  <2>1. ASSUME NEW e \in DOMAIN loss, Origin(events, e) <= y - 1 PROVE e \in DOMAIN loss'
    <3>1. Origin(events, e) # year
      BY <1>2, <2>1, LedgerTypes
    <3>. QED BY <3>1 DEF SparesEarlierYears
  <2>2. ASSUME NEW e \in DOMAIN loss', Origin(events, e) <= y - 1 PROVE e \in DOMAIN loss
    <3>1. Origin(events, e) \in Nat
      BY LedgerTypes, EventsAreBookable, <1>1, YearGrows DEF Safety, TypeOK, Bookable, Origin
    <3>2. Origin(events, e) # year
      BY <1>2, <2>2, <3>1
    <3>. QED BY <3>2 DEF SparesEarlierYears
  <2>. QED BY <1>1, <2>1, <2>2
<1>6. /\ y - 1 \in Closed' <=> y - 1 \in Closed
      /\ y - 1 \in Closed => assessment'[y - 1] = assessment[y - 1]
  BY <1>2 DEF SparesEarlierYears
<1>7. loss_inherited(y)' = loss_inherited(y)
  BY <1>4, <1>5, <1>6 DEF loss_inherited, Open
<1>. QED BY <1>3, <1>7, ComputeKept

-------------------------------------------------------------------------------
(* OpeningPosition.save looks at the years from the reference date on, not at
   what was sold before it: an opening accepted later is the opening of every
   sale of the account, those of closed years included (README, section 6).
   The openings of an account stay when the new ones are of other accounts. *)
LEMMA OtherOpeningsKept ==
  ASSUME NEW account, openings \subseteq openings',
         \A o \in openings' \ openings : o.account # account
  PROVE  OpeningBooks(openings', account, Forever) = OpeningBooks(openings, account, Forever)
<1>1. {p \in openings' : p.account = account /\ p.date <= Forever}
        = {p \in openings : p.account = account /\ p.date <= Forever}
  OBVIOUS
<1>. QED BY <1>1 DEF OpeningBooks

(* An opening that a closed year lets through is dated after it: it is none
   of an account that sold in the year, or NoOpeningAfter ends. *)
LEMMA OpeningsOfSalesKept ==
  ASSUME ClosedLedger, LedgerStep, NEW y \in Closed, AllClosedUpTo(y), NoOpeningAfter(y)'
  PROVE  /\ NoOpeningAfter(y)
         /\ \A i \in Sales(y) : OpeningBooks(openings', events[i].account, Forever)
                                  = OpeningBooks(openings, events[i].account, Forever)
<1>1. Safety /\ EventYears /\ y \in Nat
  BY BoundsAssumption DEF ClosedLedger, Safety, TypeOK, Years
<1>2. Sales(y)' = Sales(y) /\ \A i \in Sales(y) : events'[i] = events[i]
  BY <1>1, CustodyKept
<1>3. /\ openings \subseteq openings' /\ openings' \subseteq OpeningPositions
      /\ \A o \in openings' \ openings : y < YearOf(o.date)
  BY DEF LedgerStep
<1>4. \A o \in openings', i \in Sales(y) :
        o.account = events[i].account => YearOf(o.date) <= y
  BY <1>2 DEF NoOpeningAfter
<1>5. ASSUME NEW i \in Sales(y)
      PROVE  OpeningBooks(openings', events[i].account, Forever)
               = OpeningBooks(openings, events[i].account, Forever)
  <2>1. ASSUME NEW o \in openings' \ openings
        PROVE  o.account # events[i].account
    <3>1. YearOf(o.date) \in Nat
      BY <1>3, YearGrows DEF OpeningPositions
    <3>2. ~ YearOf(o.date) <= y
      BY <1>1, <1>3, <3>1
    <3>. QED BY <1>4, <3>2
  <2>. QED BY <1>3, <2>1, OtherOpeningsKept
<1>. QED BY <1>3, <1>4, <1>5 DEF NoOpeningAfter

(* Every closed year, all the years before it closed, recomputes to its
   snapshot. *)
LEMMA LedgerStepReproducible ==
  ASSUME ClosedLedger, Safety', LedgerStep, ClosedPrefixReproducible
  PROVE  ClosedPrefixReproducible'
<1>1. assessment' = assessment /\ Closed' = Closed
  BY DEF LedgerStep, Closed
<1>2. ASSUME NEW y \in Closed, AllClosedUpTo(y), NoOpeningAfter(y)'
      PROVE  compute(y)' = assessment[y]
  <2>1. NoOpeningAfter(y) /\ compute(y)' = compute(y)
    BY <1>2, OpeningsOfSalesKept, LedgerStepKeepsCompute
  <2>. QED BY <1>2, <2>1 DEF ClosedPrefixReproducible
<1>. QED BY <1>1, <1>2 DEF ClosedPrefixReproducible, AllClosedUpTo

LEMMA CloseYearReproducible ==
  ASSUME ClosedLedger, Safety', NEW year \in Years, CloseYear(year), ClosedPrefixReproducible
  PROVE  ClosedPrefixReproducible'
<1>1. Safety /\ LossesOfSales /\ CloseTransaction(year)
  BY DEF ClosedLedger, CloseYear
<1>2. SparesEarlierYears(year)
  BY <1>1, CloseSpares
<1>3. /\ Closed' = Closed \cup {year}
      /\ assessment' = [y \in Closed \cup {year} |-> IF y = year THEN compute(year) ELSE assessment[y]]
  BY <1>1, CloseWrites
<1>4. year \in Nat /\ Closed \subseteq Years /\ Years \subseteq Nat
  BY <1>1, LedgerTypes
<1>. SUFFICES ASSUME NEW y \in Closed', AllClosedUpTo(y)', NoOpeningAfter(y)'
              PROVE  compute(y)' = assessment'[y]
  BY DEF ClosedPrefixReproducible
<1>7. NoOpeningAfter(y)
  BY <1>2 DEF NoOpeningAfter, Sales, SparesEarlierYears
<1>5. CASE y = year
  <2>1. compute(year)' = compute(year)
    BY <1>1, <1>2, <1>4, EarlierComputeKept
  <2>. QED BY <1>3, <1>5, <2>1
<1>6. CASE y # year
  <2>1. y \in Closed /\ y < year /\ assessment'[y] = assessment[y] /\ y \in Nat
    BY <1>2, <1>3, <1>4, <1>6 DEF SparesEarlierYears
  <2>2. AllClosedUpTo(y)
    <3>1. \A z \in 1..y : z # year
      BY <1>4, <2>1
    <3>. QED BY <1>3, <3>1 DEF AllClosedUpTo
  <2>3. compute(y)' = compute(y)
    BY <1>1, <1>2, <1>4, <2>1, EarlierComputeKept
  <2>. QED BY <1>7, <2>1, <2>2, <2>3 DEF ClosedPrefixReproducible
<1>. QED BY <1>5, <1>6

LEMMA ReopenYearReproducible ==
  ASSUME ClosedLedger, Safety', NEW year \in Years, ReopenYear(year), ClosedPrefixReproducible
  PROVE  ClosedPrefixReproducible'
<1>1. Safety
  BY DEF ClosedLedger
<1>2. SparesEarlierYears(year)
  BY ReopenYearKeepsClosings
<1>3. Closed' = Closed \ {year}
  BY DEF ReopenYear, ReopenTransaction, Closed
<1>4. year \in Nat /\ Closed \subseteq Years /\ Years \subseteq Nat
  BY <1>1, LedgerTypes
<1>. SUFFICES ASSUME NEW y \in Closed', AllClosedUpTo(y)', NoOpeningAfter(y)'
              PROVE  compute(y)' = assessment'[y]
  BY DEF ClosedPrefixReproducible
<1>8. NoOpeningAfter(y)
  BY <1>2 DEF NoOpeningAfter, Sales, SparesEarlierYears
<1>5. y \in Closed /\ y < year /\ assessment'[y] = assessment[y] /\ y \in Nat
  BY <1>2, <1>3, <1>4 DEF SparesEarlierYears
<1>6. AllClosedUpTo(y)
  BY <1>3 DEF AllClosedUpTo
<1>7. compute(y)' = compute(y)
  BY <1>1, <1>2, <1>4, <1>5, EarlierComputeKept
<1>. QED BY <1>5, <1>6, <1>7, <1>8 DEF ClosedPrefixReproducible

(* A year closed after all the years before it, and whose selling accounts
   have no opening dated after it, recomputes to its snapshot
   (TaxEngine.compute gives the AnnualAssessment again), whatever is recorded,
   corrected, closed and reopened. *)
THEOREM ClosedYearsRecompute == Spec => []ClosedPrefixReproducible
<1>1. Init => ClosedPrefixReproducible
  <2>1. Init => Closed = {}
    BY DEF Init, Closed
  <2>. QED BY <2>1 DEF ClosedPrefixReproducible
<1>2. ClosedLedger /\ ClosedLedger' /\ ClosedPrefixReproducible /\ [Next]_vars
      => ClosedPrefixReproducible'
  <2>. SUFFICES ASSUME ClosedLedger, ClosedLedger', ClosedPrefixReproducible, [Next]_vars
                PROVE  ClosedPrefixReproducible'
    OBVIOUS
  <2>0. Safety /\ EventYears /\ Safety'
    BY DEF ClosedLedger
  <2>1. ASSUME LedgerStep PROVE ClosedPrefixReproducible'
    BY <2>0, <2>1, LedgerStepReproducible
  <2>3. ASSUME NEW d \in Drafts, RecordEvent(d) PROVE ClosedPrefixReproducible'
    BY <2>0, <2>1, <2>3, RecordEventStep
  <2>4. ASSUME NEW i \in DOMAIN events, NEW d \in Drafts, CorrectEvent(i, d)
        PROVE  ClosedPrefixReproducible'
    BY <2>0, <2>1, <2>4, CorrectEventStep
  <2>5. ASSUME NEW i \in DOMAIN events, DeactivateEvent(i) PROVE ClosedPrefixReproducible'
    BY <2>0, <2>1, <2>5, DeactivateEventStep
  <2>6. ASSUME NEW o \in OpeningDrafts, SaveOpening(o) PROVE ClosedPrefixReproducible'
    BY <2>0, <2>1, <2>6, SaveOpeningStep
  <2>7. ASSUME NEW y \in Years, CloseYear(y) PROVE ClosedPrefixReproducible'
    BY <2>0, <2>7, CloseYearReproducible
  <2>8. ASSUME NEW y \in Years, ReopenYear(y) PROVE ClosedPrefixReproducible'
    BY <2>0, <2>8, ReopenYearReproducible
  <2>9. ASSUME UNCHANGED vars PROVE ClosedPrefixReproducible'
    BY <2>0, <2>1, <2>9, StutteringStep
  <2>. QED BY <2>3, <2>4, <2>5, <2>6, <2>7, <2>8, <2>9 DEF Next
<1>. QED BY <1>1, <1>2, ClosingsStayTogether, PTL DEF Spec

-------------------------------------------------------------------------------
(* The report: the walk of the assets and the walk of the results. *)

LEMMA ExactlyBookedInBooks ==
  ASSUME NEW books \in ExactBooks, NEW ev, Bookable(ev)
  PROVE  ExactlyBooked(books, ev) \in ExactBooks
<1>1. books.qty \in Int /\ books.cost \in Int /\ books.per \in Int
  BY DEF ExactBooks
<1>2. ev.qty \in Int /\ ev.brl \in Int
  BY DEF Bookable
<1>3. /\ ev.brl * books.per \in Int /\ books.cost * (books.qty - ev.qty) \in Int
      /\ books.per * books.qty \in Int
  BY <1>1, <1>2
<1>4. CASE ev.type = "BUY"
  <2>1. ExactlyBooked(books, ev)
          = [qty |-> books.qty + ev.qty, cost |-> books.cost + ev.brl * books.per,
             per |-> books.per]
    BY <1>4 DEF ExactlyBooked, ExactBooks
  <2>2. books.qty + ev.qty \in Int /\ books.cost + ev.brl * books.per \in Int
    BY <1>1, <1>2, <1>3
  <2>. QED BY <1>1, <2>1, <2>2 DEF ExactBooks
<1>5. CASE ev.type # "BUY" /\ books.qty = 0
  BY <1>1, <1>2, <1>5 DEF ExactlyBooked, ExactBooks
<1>6. CASE ev.type # "BUY" /\ books.qty # 0
  BY <1>1, <1>2, <1>3, <1>6 DEF ExactlyBooked, ExactBooks
<1>. QED BY <1>4, <1>5, <1>6

(* The books of an opening, as a fraction. *)
AsExact(opening) == [qty |-> opening.qty, cost |-> opening.cost, per |-> 1]

LEMMA ExactWalkLast ==
  ASSUME NEW ids \in SUBSET Nat, IsFiniteSet(ids), Datable(events, ids),
         NEW opening \in Books,
         NEW l \in ids, NEW S, S = Earlier(events, ids, l)
  PROVE  /\ ExactWalk(opening, S) \in ExactBooks
         /\ ExactWalk(opening, S \cup {l}) = ExactlyBooked(ExactWalk(opening, S), events[l])
<1>. DEFINE n == Cardinality(S)
            U == S \cup {l}
            start == AsExact(opening)
            step == [k \in Nat |-> [books \in ExactBooks |->
                       IF k \in 1..n THEN ExactlyBooked(books, events[Nth(events, S, k)])
                                     ELSE books]]
            step2 == [k \in Nat |-> [books \in ExactBooks |->
                        IF k \in 1..(n+1) THEN ExactlyBooked(books, events[Nth(events, U, k)])
                                          ELSE books]]
<1>0. start \in ExactBooks
  BY DEF AsExact, ExactBooks, Books
<1>1. /\ S \in SUBSET Nat /\ IsFiniteSet(S) /\ U \in SUBSET ids
      /\ n \in Nat /\ Cardinality(U) = n + 1
      /\ Nth(events, U, n + 1) = l
      /\ \A k \in 1..n : Nth(events, S, k) \in S /\ Nth(events, U, k) = Nth(events, S, k)
  BY LastRound
<1>3. ExactWalk(opening, S) = Iterate(step, start, n)
  BY DEF ExactWalk, AsExact
<1>4. ExactWalk(opening, U) = Iterate(step2, start, n + 1)
  <2>1. Cardinality(U) = n + 1
    BY <1>1
  <2>. HIDE DEF U, n
  <2>. QED BY <2>1 DEF ExactWalk, AsExact
<1>. HIDE DEF U, n, start
<1>5. \A k \in 1..(n+1) : Bookable(events[Nth(events, U, k)])
  <2>. TAKE k \in 1..(n+1)
  <2>1. k = n + 1 \/ k \in 1..n
    BY <1>1
  <2>2. Nth(events, U, k) \in ids
    BY <1>1, <2>1 DEF U
  <2>. QED BY <2>2 DEF Datable
<1>6. \A k \in 1..n : Nth(events, U, k) = Nth(events, S, k) /\ k \in 1..(n+1)
  BY <1>1
<1>7. step \in [Nat -> [ExactBooks -> ExactBooks]] /\ step2 \in [Nat -> [ExactBooks -> ExactBooks]]
  <2>1. \A k \in Nat, books \in ExactBooks :
          (IF k \in 1..n THEN ExactlyBooked(books, events[Nth(events, S, k)]) ELSE books)
            \in ExactBooks
    BY <1>5, <1>6, ExactlyBookedInBooks
  <2>2. \A k \in Nat, books \in ExactBooks :
          (IF k \in 1..(n+1) THEN ExactlyBooked(books, events[Nth(events, U, k)]) ELSE books)
            \in ExactBooks
    BY <1>5, ExactlyBookedInBooks
  <2>. QED BY <2>1, <2>2
<1>8. \A k \in 1..n : step[k] = step2[k]
  BY <1>6
<1>9. \A books \in ExactBooks : step2[n+1][books] = ExactlyBooked(books, events[l])
  <2>1. n + 1 \in Nat /\ n + 1 \in 1..(n+1) /\ Nth(events, U, n + 1) = l
    BY <1>1
  <2>. QED BY <2>1
<1>. HIDE DEF step, step2
<1>n. n \in Nat
  BY <1>1
<1>s. step \in [Nat -> [ExactBooks -> ExactBooks]]
  BY <1>7
<1>t. step2 \in [Nat -> [ExactBooks -> ExactBooks]]
  BY <1>7
<1>10. Iterate(step, start, n) = Iterate(step2, start, n)
  BY <1>0, <1>n, <1>s, <1>t, <1>8, IterateAlike, ZenonT(60)
<1>11. Iterate(step2, start, n + 1) = step2[n+1][Iterate(step2, start, n)]
  BY <1>0, <1>n, <1>t, IterateRounds
<1>12. Iterate(step, start, n) \in ExactBooks
  BY <1>0, <1>n, <1>7, IterateRounds
<1>. QED BY <1>3, <1>4, <1>9, <1>10, <1>11, <1>12 DEF U

(* A walk without trades. *)
LEMMA ExactWalkOfNone ==
  ASSUME NEW opening \in Books
  PROVE  ExactWalk(opening, {}) = AsExact(opening)
<1>. DEFINE start == AsExact(opening)
            step == [k \in Nat |-> [books \in ExactBooks |->
                       IF k \in 1..0 THEN ExactlyBooked(books, events[Nth(events, {}, k)])
                                     ELSE books]]
<1>0. start \in ExactBooks
  BY DEF AsExact, ExactBooks, Books
<1>1. Cardinality({}) = 0
  BY FS_EmptySet
<1>2. ExactWalk(opening, {}) = Iterate(step, start, 0)
  BY <1>1 DEF ExactWalk, AsExact
<1>3. step \in [Nat -> [ExactBooks -> ExactBooks]]
  <2>1. \A k \in Nat : k \notin 1..0
    OBVIOUS
  <2>. QED BY <2>1
<1>. HIDE DEF step, start
<1>4. Iterate(step, start, 0) = start
  BY <1>0, <1>3, IterateRounds
<1>. QED BY <1>2, <1>4 DEF start

(* The fraction c/p is no more than n halves away from k. *)
Near(c, p, k, n) ==
  /\ p \in Nat \ {0}
  /\ 2 * (c - k * p) <= n * p
  /\ 2 * (k * p - c) <= n * p

(* A sale takes the cost of its units off both: off one as a fraction, off
   the other rounded.  They are half a cent farther apart. *)
LEMMA NearAfterSale ==
  ASSUME NEW c \in Int, NEW p, NEW k \in Int, NEW n \in Nat, Near(c, p, k, n),
         NEW q \in Nat \ {0}, NEW s \in 0..q
  PROVE  Near(c * (q - s), p * q, k - Quantized(k * s, q), n + 1)
<1>. DEFINE r == Quantized(k * s, q)
            a == c - k * p
            b == r * q - k * s
            x == c * (q - s) - (k - r) * (p * q)
<1>1. /\ k * s \in Int /\ r \in Int
      /\ 2 * (r * q) - 2 * (k * s) <= q /\ 2 * (k * s) - 2 * (r * q) <= q
  <2>1. k * s \in Int
    OBVIOUS
  <2>. QED BY <2>1, QuantizedClose
<1>2. p \in Nat /\ p # 0 /\ 2 * a <= n * p /\ 2 * (-a) <= n * p
  BY DEF Near
<1>. HIDE DEF r
<1>3. a \in Int /\ b \in Int /\ 2 * b <= q /\ 2 * (-b) <= q
  <2>1. r * q \in Int /\ k * p \in Int
    BY <1>1, <1>2
  <2>. QED BY <1>1, <2>1
<1>4. x = a * (q - s) + p * b
  <2>1. c * (q - s) - (k - r) * (p * q) = (c - k * p) * (q - s) + p * (r * q - k * s)
    BY <1>1, <1>2
  <2>. QED BY <2>1
<1>. HIDE DEF a, b, x
<1>5. q - s \in Nat /\ q - s <= q
  OBVIOUS
<1>6. n * p \in Nat /\ p * q \in Nat
  BY <1>2
<1>7. (2 * a) * (q - s) <= (n * p) * q /\ (2 * (-a)) * (q - s) <= (n * p) * q
  <2>1. (2 * a) * (q - s) <= (n * p) * (q - s)
    BY <1>2, <1>3, <1>5, <1>6, TimesNatural
  <2>2. (2 * (-a)) * (q - s) <= (n * p) * (q - s)
    BY <1>2, <1>3, <1>5, <1>6, TimesNatural
  <2>3. (n * p) * (q - s) <= (n * p) * q
    <3>1. (q - s) * (n * p) <= q * (n * p)
      BY <1>5, <1>6, TimesNatural
    <3>. QED BY <1>5, <1>6, <3>1
  <2>4. (2 * a) * (q - s) \in Int /\ (2 * (-a)) * (q - s) \in Int
        /\ (n * p) * (q - s) \in Int /\ (n * p) * q \in Int
    BY <1>3, <1>5, <1>6
  <2>. QED BY <2>1, <2>2, <2>3, <2>4
<1>8. (2 * b) * p <= q * p /\ (2 * (-b)) * p <= q * p
  BY <1>2, <1>3, TimesNatural
<1>9. /\ x \in Int
      /\ 2 * x = (2 * a) * (q - s) + (2 * b) * p
      /\ 2 * (-x) = (2 * (-a)) * (q - s) + (2 * (-b)) * p
  <2>1. a * (q - s) \in Int /\ p * b \in Int
    BY <1>2, <1>3, <1>5
  <2>2. x \in Int
    BY <1>4, <2>1
  <2>3. /\ (2 * a) * (q - s) = 2 * (a * (q - s)) /\ (2 * b) * p = 2 * (p * b)
        /\ (2 * (-a)) * (q - s) = -(2 * (a * (q - s))) /\ (2 * (-b)) * p = -(2 * (p * b))
    BY <1>2, <1>3, <1>5
  <2>. QED BY <1>4, <2>1, <2>2, <2>3
<1>10. (n + 1) * (p * q) = (n * p) * q + q * p
  BY <1>2
<1>11. p * q \in Nat \ {0}
  BY <1>2
<1>12. 2 * x <= (n + 1) * (p * q) /\ 2 * (-x) <= (n + 1) * (p * q)
  <2>1. /\ (2 * a) * (q - s) \in Int /\ (2 * b) * p \in Int
        /\ (2 * (-a)) * (q - s) \in Int /\ (2 * (-b)) * p \in Int
        /\ (n * p) * q \in Int /\ q * p \in Int
    BY <1>2, <1>3, <1>5, <1>6
  <2>. QED BY <1>7, <1>8, <1>9, <1>10, <2>1
<1>13. x = c * (q - s) - (k - r) * (p * q)
  BY DEF x
<1>14. -x = (k - r) * (p * q) - c * (q - s)
  <2>1. c * (q - s) \in Int /\ (k - r) * (p * q) \in Int
    BY <1>1, <1>5, <1>6
  <2>. QED BY <1>13, <2>1
<1>. QED BY <1>11, <1>12, <1>13, <1>14 DEF Near, r

(* A purchase adds whole cents to both. *)
LEMMA NearAfterPurchase ==
  ASSUME NEW c \in Int, NEW p, NEW k \in Int, NEW n \in Nat, Near(c, p, k, n), NEW v \in Int
  PROVE  Near(c + v * p, p, k + v, n)
<1>1. p \in Nat /\ p # 0 /\ 2 * (c - k * p) <= n * p /\ 2 * (k * p - c) <= n * p
  BY DEF Near
<1>2. (c + v * p) - (k + v) * p = c - k * p /\ (k + v) * p - (c + v * p) = k * p - c
  BY <1>1
<1>. QED BY <1>1, <1>2 DEF Near


SalesAmong(ids) == {i \in ids : events[i].type # "BUY"}

(* Each sale finds its units in the books of the walk. *)
CoveredInOrder(opening, ids) ==
  \A i \in SalesAmong(ids) :
    /\ events[i].qty \in Nat
    /\ events[i].qty <= Walk(events, opening, Earlier(events, ids, i)).qty

(* The walk of the report and the walk of the tax hold the same units, and
   costs that are half a cent apart for each sale. *)
Agree(opening, ids) ==
  /\ ExactWalk(opening, ids) \in ExactBooks
  /\ Walk(events, opening, ids) \in Books
  /\ ExactWalk(opening, ids).qty = Walk(events, opening, ids).qty
  /\ Cardinality(SalesAmong(ids)) \in Nat
  /\ Near(ExactWalk(opening, ids).cost, ExactWalk(opening, ids).per,
          Walk(events, opening, ids).cost, Cardinality(SalesAmong(ids)))

LEMMA AgreeAfterTrade ==
  ASSUME NEW ids \in SUBSET Nat, IsFiniteSet(ids), Datable(events, ids),
         NEW opening \in Books, CoveredInOrder(opening, ids),
         NEW l \in ids, NEW S, S = Earlier(events, ids, l), Agree(opening, S)
  PROVE  Agree(opening, S \cup {l})
<1>. DEFINE E == ExactWalk(opening, S)
            W == Walk(events, opening, S)
            n == Cardinality(SalesAmong(S))
            ev == events[l]
            E2 == ExactWalk(opening, S \cup {l})
            W2 == Walk(events, opening, S \cup {l})
<1>1. /\ E \in ExactBooks /\ W \in Books /\ E.qty = W.qty /\ n \in Nat
      /\ Near(E.cost, E.per, W.cost, n)
  BY DEF Agree
<1>2. W2 = Booked(W, ev)
  BY WalkLast
<1>3. E2 = ExactlyBooked(E, ev)
  BY ExactWalkLast
<1>4. Bookable(ev)
  BY DEF Datable
<1>. HIDE DEF E, W, E2, W2, ev, n
<1>5. IsFiniteSet(S) /\ l \notin S
  BY EarlierFinite
<1>. USE DEF n
<1>6. E.qty \in Int /\ E.cost \in Int /\ E.per \in Int /\ W.qty \in Int /\ W.cost \in Int
  BY <1>1 DEF ExactBooks, Books
<1>7. W2 \in Books /\ E2 \in ExactBooks
  BY <1>1, <1>2, <1>3, <1>4, BookedInBooks, ExactlyBookedInBooks
<1>8. CASE ev.type = "BUY"
  <2>1. SalesAmong(S \cup {l}) = SalesAmong(S)
    BY <1>8 DEF SalesAmong, ev
  <2>2. E2.qty = E.qty + ev.qty /\ E2.cost = E.cost + ev.brl * E.per /\ E2.per = E.per
    BY <1>1, <1>3, <1>8 DEF ExactlyBooked, ExactBooks
  <2>3. W2.qty = W.qty + ev.qty /\ W2.cost = W.cost + ev.brl
    BY <1>2, <1>8 DEF Booked
  <2>4. ev.brl \in Int
    BY <1>4 DEF Bookable
  <2>5. Near(E2.cost, E2.per, W2.cost, n)
    BY <1>1, <1>6, <2>2, <2>3, <2>4, NearAfterPurchase
  <2>6. E2.qty = W2.qty
    BY <1>1, <2>2, <2>3
  <2>. QED BY <1>1, <1>7, <2>1, <2>5, <2>6 DEF Agree, E2, W2
<1>9. CASE ev.type # "BUY"
  <2>1. SalesAmong(S \cup {l}) = SalesAmong(S) \cup {l} /\ l \notin SalesAmong(S)
        /\ SalesAmong(S) \subseteq S
    BY <1>5, <1>9 DEF SalesAmong, ev
  <2>2. Cardinality(SalesAmong(S \cup {l})) = n + 1
    <3>1. IsFiniteSet(SalesAmong(S))
      BY <1>5, <2>1, FS_Subset
    <3>. QED BY <2>1, <3>1, FS_AddElement
  <2>3. ev.qty \in Nat /\ ev.qty <= W.qty
    BY <1>9 DEF CoveredInOrder, SalesAmong, ev, W
  <2>4. CASE W.qty = 0
    <3>1. W2 = [qty |-> W.qty - ev.qty, cost |-> W.cost - 0]
      BY <1>2, <1>9, <2>4 DEF Booked, CostSold
    <3>2. W2.qty = W.qty - ev.qty /\ W2.cost = W.cost
      BY <1>6, <3>1
    <3>3. E2 = [E EXCEPT !.qty = -ev.qty]
      BY <1>1, <1>3, <1>9, <2>4 DEF ExactlyBooked
    <3>4. E2 = [qty |-> -ev.qty, cost |-> E.cost, per |-> E.per]
      BY <1>1, <3>3 DEF ExactBooks
    <3>5. E2.qty = W2.qty /\ E2.cost = E.cost /\ E2.per = E.per
      <4>1. \A x \in Nat : -x = 0 - x
        OBVIOUS
      <4>2. -ev.qty = W.qty - ev.qty
        BY <2>3, <2>4, <4>1
      <4>. QED BY <3>2, <3>4, <4>2
    <3>6. Near(E.cost, E.per, W.cost, n + 1)
      <4>1. /\ E.per \in Nat /\ E.per # 0 /\ n \in Nat
            /\ 2 * (E.cost - W.cost * E.per) <= n * E.per
            /\ 2 * (W.cost * E.per - E.cost) <= n * E.per
        BY <1>1 DEF Near
      <4>2. n * E.per <= (n + 1) * E.per /\ n * E.per \in Int /\ (n + 1) * E.per \in Int
        BY <4>1, TimesNatural
      <4>3. W.cost * E.per \in Int
        BY <1>6
      <4>4. /\ 2 * (E.cost - W.cost * E.per) <= (n + 1) * E.per
            /\ 2 * (W.cost * E.per - E.cost) <= (n + 1) * E.per
        BY <1>6, <4>1, <4>2, <4>3
      <4>. QED BY <4>1, <4>4 DEF Near
    <3>7. n + 1 \in Nat
      BY <1>1
    <3>. QED BY <1>7, <2>2, <3>2, <3>5, <3>6, <3>7 DEF Agree, E2, W2
  <2>5. CASE W.qty # 0
    <3>1. W.qty \in Nat \ {0} /\ ev.qty \in 0..W.qty
      BY <1>6, <2>3, <2>5
    <3>2. /\ W2.qty = W.qty - ev.qty
          /\ W2.cost = W.cost - Quantized(W.cost * ev.qty, W.qty)
      BY <1>2, <1>9, <2>5 DEF Booked, CostSold
    <3>3. /\ E2.qty = E.qty - ev.qty
          /\ E2.cost = E.cost * (E.qty - ev.qty)
          /\ E2.per = E.per * E.qty
      BY <1>1, <1>3, <1>9, <2>5 DEF ExactlyBooked
    <3>4. Near(E.cost * (W.qty - ev.qty), E.per * W.qty,
               W.cost - Quantized(W.cost * ev.qty, W.qty), n + 1)
      BY <1>1, <1>6, <3>1, NearAfterSale
    <3>5. Near(E2.cost, E2.per, W2.cost, n + 1)
      BY <1>1, <3>2, <3>3, <3>4
    <3>6. E2.qty = W2.qty /\ n + 1 \in Nat
      BY <1>1, <3>2, <3>3
    <3>. QED BY <1>7, <2>2, <3>5, <3>6 DEF Agree, E2, W2
  <2>. QED BY <2>4, <2>5
<1>. QED BY <1>8, <1>9

LEMMA WalksAgree ==
  ASSUME NEW ids \in SUBSET Nat, IsFiniteSet(ids), Datable(events, ids),
         NEW opening \in Books, CoveredInOrder(opening, ids)
  PROVE  Agree(opening, ids)
<1>. DEFINE P == {S \in SUBSET ids : Agree(opening, S)}
<1>1. Agree(opening, {})
  <2>1. Walk(events, opening, {}) = opening
    <3>1. {} \in SUBSET Nat /\ IsFiniteSet({}) /\ \A i \in {} : Bookable(events[i])
      BY FS_EmptySet
    <3>. QED BY <3>1, WalkInBooks
  <2>2. ExactWalk(opening, {}) = AsExact(opening)
    BY ExactWalkOfNone
  <2>3. Cardinality(SalesAmong({})) = 0
    BY FS_EmptySet DEF SalesAmong
  <2>4. opening.qty \in Int /\ opening.cost \in Int
    BY DEF Books
  <2>5. /\ AsExact(opening) \in ExactBooks
        /\ AsExact(opening).qty = opening.qty
        /\ Near(AsExact(opening).cost, AsExact(opening).per, opening.cost, 0)
    BY <2>4 DEF AsExact, ExactBooks, Near
  <2>. QED BY <2>1, <2>2, <2>3, <2>5 DEF Agree
<1>2. ASSUME NEW l \in ids, Agree(opening, Earlier(events, ids, l))
      PROVE  Agree(opening, Earlier(events, ids, l) \cup {l})
  BY <1>2, AgreeAfterTrade
<1>3. \A l \in ids : Earlier(events, ids, l) \in SUBSET ids
  BY DEF Earlier
<1>4. HoldsInTime(events, ids, P)
  BY <1>1, <1>2, <1>3 DEF HoldsInTime
<1>5. ids \in P
  <2>. HIDE DEF P
  <2>. QED BY <1>4, InductionInTime
<1>. QED BY <1>5


-------------------------------------------------------------------------------
(* When all openings of an account are dated up to a limit, the limit does
   not matter. *)
LEMMA OpeningOfAnyDate ==
  ASSUME NEW account, NEW until \in Nat, OPENING_DATE <= until,
         \A o \in openings : o.account = account => o.date <= until /\ o.date <= Forever
  PROVE  OpeningBooks(openings, account, until) = OpeningBooks(openings, account, Forever)
<1>. DEFINE dated == {o \in openings : o.account = account /\ o.date <= until}
            dated2 == {o \in openings : o.account = account /\ o.date <= Forever}
<1>1. dated = dated2
  OBVIOUS
<1>2. ~ until < OPENING_DATE /\ ~ Forever < OPENING_DATE
  BY DEF OPENING_DATE, Forever
<1>3. /\ OpeningBooks(openings, account, until)
           = IF until < OPENING_DATE \/ dated = {}
             THEN [qty |-> 0, cost |-> 0]
             ELSE LET o == CHOOSE o \in dated : \A p \in dated : p.date <= o.date
                  IN  [qty |-> o.qty, cost |-> o.cost]
      /\ OpeningBooks(openings, account, Forever)
           = IF Forever < OPENING_DATE \/ dated2 = {}
             THEN [qty |-> 0, cost |-> 0]
             ELSE LET o == CHOOSE o \in dated2 : \A p \in dated2 : p.date <= o.date
                  IN  [qty |-> o.qty, cost |-> o.cost]
  BY DEF OpeningBooks
<1>. HIDE DEF dated, dated2
<1>. QED BY <1>1, <1>2, <1>3

(* The trades of an account up to a year are rows of the table. *)
LEMMA TradesAreRows ==
  ASSUME Safety, NEW account
  PROVE  /\ Len(events) \in Nat
         /\ \A S \in SUBSET Trades(events, account) :
              /\ S \in SUBSET (1..Len(events)) /\ S \in SUBSET Nat /\ IsFiniteSet(S)
              /\ Datable(events, S)
         /\ \A i \in Trades(events, account) :
              /\ events[i] \in Event /\ events[i].active /\ events[i].account = account
              /\ events[i].qty \in Nat /\ events[i].brl \in Nat /\ events[i].trade \in Nat
              /\ events[i].type = "BUY" <=> events[i].type # "SELL"
<1>1. /\ DOMAIN events = 1..Len(events) /\ Len(events) \in Nat
      /\ IsFiniteSet(DOMAIN events) /\ DOMAIN events \in SUBSET Nat
      /\ \A i \in DOMAIN events : events[i] \in Event /\ Bookable(events[i])
  BY EventsAreBookable DEF Safety
<1>2. Trades(events, account) \subseteq DOMAIN events
  BY DEF Trades
<1>3. ASSUME NEW S \in SUBSET Trades(events, account)
      PROVE  /\ S \in SUBSET (1..Len(events)) /\ S \in SUBSET Nat /\ IsFiniteSet(S)
             /\ Datable(events, S)
  <2>1. S \subseteq DOMAIN events
    BY <1>2
  <2>2. IsFiniteSet(S)
    BY <1>1, <2>1, FS_Subset
  <2>3. Datable(events, S)
    BY <1>1, <2>1 DEF Datable
  <2>. QED BY <1>1, <2>1, <2>2, <2>3
<1>4. ASSUME NEW i \in Trades(events, account)
      PROVE  /\ events[i] \in Event /\ events[i].active /\ events[i].account = account
             /\ events[i].qty \in Nat /\ events[i].brl \in Nat /\ events[i].trade \in Nat
             /\ events[i].type = "BUY" <=> events[i].type # "SELL"
  <2>1. events[i] \in Event
    BY <1>1, <1>2
  <2>2. events[i].active /\ events[i].account = account /\ events[i].type \in {"BUY", "SELL"}
    BY DEF Trades
  <2>. QED BY <2>1, <2>2 DEF Event
<1>. QED BY <1>1, <1>3, <1>4


(* The units that the validator finds before a sale are those in the walk:
   trades of its date that come after it are sales. *)
LEMMA CustodyInOrder ==
  ASSUME Safety, NEW account,
         NEW i \in Trades(events, account), events[i].type = "SELL",
         \A j \in Trades(events, account) :
           events[j].type # "SELL" /\ events[j].trade = events[i].trade => j < i,
         OPENING_DATE <= events[i].trade,
         \A o \in openings : o.account = account => o.date <= events[i].trade /\ o.date <= Forever
  PROVE  custody_before(events, openings, i)
           <= Walk(events, OpeningBooks(openings, account, Forever),
                   Earlier(events, Trades(events, account), i)).qty
<1>. DEFINE T == Trades(events, account)
            E == Earlier(events, T, i)
            C == {j \in T : j # i /\ events[j].trade <= events[i].trade}
            opening == OpeningBooks(openings, account, Forever)
            m == Len(events)
<1>1. /\ m \in Nat
      /\ \A S \in SUBSET T :
           /\ S \in SUBSET (1..m) /\ S \in SUBSET Nat /\ IsFiniteSet(S) /\ Datable(events, S)
      /\ \A j \in T :
           /\ j \in DOMAIN events /\ events[j].active /\ events[j].account = account
           /\ events[j].qty \in Nat /\ events[j].trade \in Nat
           /\ events[j].type = "BUY" <=> events[j].type # "SELL"
  <2>1. T \subseteq DOMAIN events
    BY DEF Trades
  <2>. QED BY <2>1, TradesAreRows
<1>2. custody_before(events, openings, i) = Walk(events, opening, C).qty
  <2>1. OpeningBooks(openings, account, events[i].trade) = opening
    BY <1>1, OpeningOfAnyDate
  <2>2. events[i].account = account
    BY <1>1
  <2>. HIDE DEF opening
  <2>. QED BY <2>1, <2>2 DEF custody_before
<1>3. E \subseteq T /\ C \subseteq T
  BY DEF Earlier
<1>. HIDE DEF C, E, T
<1>4. E \subseteq C
  <2>. SUFFICES ASSUME NEW j \in E PROVE j \in C
    OBVIOUS
  <2>1. j \in T /\ Precedes(events, j, i) /\ i \in T
    BY DEF E, T, Earlier
  <2>2. j \in Nat /\ i \in Nat /\ events[j].trade \in Nat /\ events[i].trade \in Nat
    BY <1>1, <2>1
  <2>3. j # i /\ events[j].trade <= events[i].trade
    BY <2>1, <2>2 DEF Precedes
  <2>. QED BY <2>1, <2>3 DEF C
<1>5. \A j \in C \ E : events[j].type = "SELL"
  <2>. SUFFICES ASSUME NEW j \in C \ E PROVE events[j].type = "SELL"
    OBVIOUS
  <2>1. j \in T /\ i \in T /\ j # i /\ events[j].trade <= events[i].trade /\ ~ Precedes(events, j, i)
    BY DEF C, E, T, Earlier
  <2>2. j \in Nat /\ i \in Nat /\ events[j].trade \in Nat /\ events[i].trade \in Nat
    BY <1>1, <2>1
  <2>3. events[j].trade = events[i].trade /\ ~ j < i
    BY <2>1, <2>2 DEF Precedes
  <2>4. j \in Trades(events, account)
    BY <2>1 DEF T
  <2>. QED BY <2>3, <2>4
<1>6. opening \in Books
  <2>1. Forever \in Nat
    BY DEF Forever
  <2>2. \A o \in openings : o.date \in Nat /\ o.qty \in Int /\ o.cost \in Int
    BY DEF Safety, TypeOK, OpeningPositions
  <2>. QED BY <2>1, <2>2, OpeningInBooks
<1>. HIDE DEF opening, m
<1>7. /\ Walk(events, opening, C).qty = opening.qty + Total(UnitsOf(events, C), m)
      /\ Walk(events, opening, E).qty = opening.qty + Total(UnitsOf(events, E), m)
  <2>1. C \in SUBSET (1..m) /\ Datable(events, C)
    BY <1>1, <1>3
  <2>2. E \in SUBSET (1..m) /\ Datable(events, E)
    BY <1>1, <1>3
  <2>3. Walk(events, opening, C).qty = opening.qty + Total(UnitsOf(events, C), m)
    BY <1>1, <1>6, <2>1, WalkTotals
  <2>4. Walk(events, opening, E).qty = opening.qty + Total(UnitsOf(events, E), m)
    BY <1>1, <1>6, <2>2, WalkTotals
  <2>. QED BY <2>3, <2>4
<1>8. UnitsOf(events, C) \in [C -> Int] /\ UnitsOf(events, E) \in [E -> Int]
  <2>1. C \in SUBSET Nat /\ IsFiniteSet(C) /\ Datable(events, C)
    BY <1>1, <1>3
  <2>2. E \in SUBSET Nat /\ IsFiniteSet(E) /\ Datable(events, E)
    BY <1>1, <1>3
  <2>3. UnitsOf(events, C) \in [C -> Int]
    BY <1>6, <2>1, ContributionsInt
  <2>4. UnitsOf(events, E) \in [E -> Int]
    BY <1>6, <2>2, ContributionsInt
  <2>. QED BY <2>3, <2>4
<1>9. AtMost(UnitsOf(events, C), UnitsOf(events, E), m)
  <2>. SUFFICES ASSUME NEW j \in 1..m
                PROVE  Term(UnitsOf(events, C), j) <= Term(UnitsOf(events, E), j)
    BY DEF AtMost
  <2>1. DOMAIN UnitsOf(events, C) = C /\ DOMAIN UnitsOf(events, E) = E
    BY <1>8
  <2>2. CASE j \in E
    <3>1. j \in C
      BY <1>4, <2>2
    <3>2. UnitsOf(events, C)[j] = UnitsOf(events, E)[j]
      BY <2>2, <3>1 DEF UnitsOf
    <3>3. UnitsOf(events, E)[j] \in Int
      BY <1>8, <2>2
    <3>. QED BY <2>1, <2>2, <3>1, <3>2, <3>3 DEF Term
  <2>3. CASE j \in C \ E
    <3>1. events[j].type = "SELL" /\ events[j].qty \in Nat
      BY <1>1, <1>3, <1>5, <2>3
    <3>2. UnitsOf(events, C)[j] = -events[j].qty
      BY <2>3, <3>1 DEF UnitsOf
    <3>3. UnitsOf(events, C)[j] <= 0
      BY <3>1, <3>2
    <3>. QED BY <2>1, <2>3, <3>3 DEF Term
  <2>4. CASE j \notin C
    <3>1. j \notin E
      BY <1>4, <2>4
    <3>. QED BY <2>1, <2>4, <3>1 DEF Term
  <2>. QED BY <2>2, <2>3, <2>4
<1>10. Summable(UnitsOf(events, C)) /\ Summable(UnitsOf(events, E))
  BY <1>8 DEF Summable
<1>11. Total(UnitsOf(events, C), m) <= Total(UnitsOf(events, E), m)
  BY <1>1, <1>9, <1>10, TotalOfLarger
<1>12. /\ Total(UnitsOf(events, C), m) \in Int /\ Total(UnitsOf(events, E), m) \in Int
       /\ opening.qty \in Int
  BY <1>1, <1>6, <1>10, TotalRounds DEF Summable, Books
<1>13. Walk(events, opening, C).qty <= Walk(events, opening, E).qty
  BY <1>7, <1>11, <1>12
<1>. QED BY <1>2, <1>13 DEF E, T, opening


(* The cost in the books after the trades of a year is what AssetsExplained
   compares the report with. *)
LEMMA CostIsLeft ==
  ASSUME Safety, NEW y \in Nat, NEW a,
         \A i \in TradesUpTo(y, a) :
           Earlier(events, Trades(events, a), i) = Earlier(events, TradesUpTo(y, a), i),
         OpeningBooks(openings, a, Forever) \in Books
  PROVE  Walk(events, OpeningBooks(openings, a, Forever), TradesUpTo(y, a)).cost
           = CostLeft(y, a)
<1>. DEFINE ids == TradesUpTo(y, a)
            opening == OpeningBooks(openings, a, Forever)
            m == Len(events)
            sold == SalesUpTo(y, a)
            bought == ids \ sold
            b == [i \in bought |-> events[i].brl]
            x == [i \in sold |-> events[i].brl - realized(events, openings, i)]
            c == CostOf(events, opening, ids)
<1>1. /\ m \in Nat /\ ids \in SUBSET (1..m) /\ ids \in SUBSET Nat /\ IsFiniteSet(ids)
      /\ Datable(events, ids)
      /\ \A i \in ids : /\ events[i].account = a /\ events[i].brl \in Int /\ events[i].qty \in Int
                        /\ events[i].type = "BUY" <=> events[i].type # "SELL"
  <2>1. ids \in SUBSET Trades(events, a)
    BY DEF TradesUpTo
  <2>. HIDE DEF ids
  <2>2. /\ m \in Nat /\ ids \in SUBSET (1..m) /\ ids \in SUBSET Nat /\ IsFiniteSet(ids)
        /\ Datable(events, ids)
    BY <2>1, TradesAreRows
  <2>3. \A i \in Trades(events, a) :
          /\ events[i].account = a /\ events[i].brl \in Int /\ events[i].qty \in Int
          /\ events[i].type = "BUY" <=> events[i].type # "SELL"
    BY TradesAreRows
  <2>. QED BY <2>1, <2>2, <2>3
<1>2. CostLeft(y, a) = opening.cost + Total(b, m) - Total(x, m)
  BY DEF CostLeft
<1>3. sold \subseteq ids /\ \A i \in ids : i \in sold <=> events[i].type = "SELL"
  BY DEF SalesUpTo
<1>4. c \in [ids -> Int]
  BY <1>1, ContributionsInt
<1>5. Walk(events, opening, ids).cost = opening.cost + Total(c, m)
  BY <1>1, WalkTotals
<1>6. ASSUME NEW i \in sold
      PROVE  x[i] = -c[i] /\ x[i] \in Int
  <2>. DEFINE cost == CostSold(Walk(events, opening, Earlier(events, ids, i)), events[i].qty)
  <2>1. i \in ids /\ events[i].type = "SELL" /\ events[i].account = a /\ events[i].brl \in Int
    BY <1>1, <1>3
  <2>2. Earlier(events, Trades(events, a), i) = Earlier(events, ids, i)
    BY <2>1
  <2>3. realized(events, openings, i) = events[i].brl - cost
    BY <2>1, <2>2 DEF realized, Earlier
  <2>4. c[i] = -cost
    BY <2>1 DEF CostOf
  <2>5. x[i] = events[i].brl - realized(events, openings, i)
    OBVIOUS
  <2>6. cost \in Int
    <3>1. events[i].qty \in Int /\ Walk(events, opening, Earlier(events, ids, i)) \in Books
      BY <1>1, <2>1, WalkLast
    <3>. HIDE DEF opening, ids
    <3>. QED BY <3>1, CostSoldInt
  <2>. HIDE DEF cost, x, c
  <2>. QED BY <2>1, <2>3, <2>4, <2>5, <2>6
<1>7. \A i \in bought : c[i] = events[i].brl /\ events[i].brl \in Int
  <2>. SUFFICES ASSUME NEW i \in bought PROVE c[i] = events[i].brl /\ events[i].brl \in Int
    OBVIOUS
  <2>1. i \in ids /\ events[i].type = "BUY" /\ events[i].brl \in Int
    BY <1>1, <1>3
  <2>. QED BY <2>1 DEF CostOf
<1>8. DOMAIN b = bought /\ DOMAIN x = sold /\ \A i \in bought : b[i] = events[i].brl
  OBVIOUS
<1>9. sold \subseteq ids /\ bought = ids \ sold
  BY <1>3
<1>. HIDE DEF b, x, c, bought, sold, ids, opening, m
<1>10. Summable(b) /\ Summable(x) /\ Summable(c)
  BY <1>4, <1>6, <1>7, <1>8 DEF Summable
<1>11. Splits(b, c, x, m)
  <2>. SUFFICES ASSUME NEW i \in 1..m PROVE Term(b, i) = Term(c, i) + Term(x, i)
    BY DEF Splits
  <2>1. DOMAIN c = ids
    BY <1>4
  <2>2. CASE i \in sold
    <3>1. c[i] \in Int /\ x[i] = -c[i] /\ i \in ids /\ i \notin bought
      BY <1>4, <1>6, <1>9, <2>2
    <3>. QED BY <1>8, <2>1, <2>2, <3>1 DEF Term
  <2>3. CASE i \in bought
    <3>1. b[i] = c[i] /\ c[i] \in Int /\ i \in ids /\ i \notin sold
      BY <1>4, <1>7, <1>8, <1>9, <2>3
    <3>. QED BY <1>8, <2>1, <2>3, <3>1 DEF Term
  <2>4. CASE i \notin ids
    BY <1>8, <1>9, <2>1, <2>4 DEF Term
  <2>. QED BY <1>9, <2>2, <2>3, <2>4
<1>12. Total(b, m) = Total(c, m) + Total(x, m)
  BY <1>1, <1>10, <1>11, TotalOfSum
<1>13. Total(c, m) \in Int /\ Total(x, m) \in Int /\ Total(b, m) \in Int /\ opening.cost \in Int
  BY <1>1, <1>10, TotalRounds DEF Summable, Books, opening
<1>14. opening.cost + Total(b, m) - Total(x, m) = opening.cost + Total(c, m)
  BY <1>12, <1>13
<1>. QED BY <1>2, <1>5, <1>14 DEF opening, ids

LEMMA AssetsOfClosedYears ==
  ASSUME ClosedLedger
  PROVE  AssetsExplained
<1>. SUFFICES ASSUME NEW y \in Closed, NEW a \in Accounts, AllClosedUpTo(y),
                     OpeningsComeFirst(y, a), PurchasesComeFirst(y, a)
              PROVE  2 * Abs(bens(y, a).cost - CostLeft(y, a) * bens(y, a).per)
                       <= Cardinality(SalesUpTo(y, a)) * Abs(bens(y, a).per)
  BY DEF AssetsExplained
<1>. DEFINE T == Trades(events, a)
            ids == TradesUpTo(y, a)
            opening == OpeningBooks(openings, a, Forever)
<1>0. Safety /\ EventYears /\ ClosedSalesCovered
  BY DEF ClosedLedger
<1>1. y \in Nat /\ y \in Years
  BY <1>0, BoundsAssumption DEF Safety, TypeOK, Years
<1>2. /\ \A S \in SUBSET T : /\ S \in SUBSET Nat /\ IsFiniteSet(S) /\ Datable(events, S)
      /\ \A i \in T : /\ events[i].account = a /\ events[i].active
                      /\ events[i].qty \in Nat /\ events[i].trade \in Nat
                      /\ events[i].type = "BUY" <=> events[i].type # "SELL"
  BY <1>0, TradesAreRows
<1>3. ids \subseteq T /\ T \subseteq DOMAIN events /\ \A i \in ids : YearOf(events[i].trade) <= y
  BY DEF TradesUpTo, Trades
<1>4. \A i \in ids : Earlier(events, T, i) = Earlier(events, ids, i)
  <2>. SUFFICES ASSUME NEW i \in ids, NEW j \in T, Precedes(events, j, i)
                PROVE  j \in ids
    BY <1>3 DEF Earlier
  <2>1. /\ events[j].trade \in Nat /\ events[i].trade \in Nat
        /\ YearOf(events[i].trade) <= y
    BY <1>2, <1>3
  <2>2. events[j].trade <= events[i].trade
    BY <2>1 DEF Precedes
  <2>3. YearOf(events[j].trade) <= YearOf(events[i].trade)
        /\ YearOf(events[j].trade) \in Nat /\ YearOf(events[i].trade) \in Nat
    BY <2>1, <2>2, YearGrows
  <2>4. YearOf(events[j].trade) <= y
    BY <1>1, <2>1, <2>3
  <2>. QED BY <2>4 DEF TradesUpTo
<1>5. opening \in Books
  <2>1. Forever \in Nat
    BY DEF Forever
  <2>2. \A o \in openings : o.date \in Nat /\ o.qty \in Int /\ o.cost \in Int
    BY <1>0 DEF Safety, TypeOK, OpeningPositions
  <2>. QED BY <2>1, <2>2, OpeningInBooks
<1>13. \A o \in openings : o.account = a => o.date <= Yearend(y) /\ o.date <= Forever
  <2>1. Yearend(y) <= Forever /\ Yearend(y) \in Nat /\ Forever \in Nat
    BY <1>1, BoundsAssumption, ForeverAssumption DEF Yearend, Forever, Years
  <2>2. \A o \in openings : o.date \in Nat
    BY <1>0 DEF Safety, TypeOK, OpeningPositions
  <2>3. \A o \in openings : o.account = a => o.date <= Yearend(y)
    BY DEF OpeningsComeFirst
  <2>. QED BY <2>1, <2>2, <2>3
<1>6. bens(y, a) = ExactWalk(opening, ids)
  <2>1. Yearend(y) \in Nat /\ OPENING_DATE <= Yearend(y)
    BY <1>1 DEF Yearend, OPENING_DATE
  <2>3. OpeningBooks(openings, a, Yearend(y)) = opening
    BY <1>13, <2>1, OpeningOfAnyDate
  <2>. HIDE DEF opening
  <2>. QED BY <2>3 DEF bens
<1>7. CoveredInOrder(opening, ids)
  <2>. SUFFICES ASSUME NEW i \in SalesAmong(ids)
                PROVE  /\ events[i].qty \in Nat
                       /\ events[i].qty <= Walk(events, opening, Earlier(events, ids, i)).qty
    BY DEF CoveredInOrder
  <2>. DEFINE z == YearOf(events[i].trade)
  <2>1. /\ i \in ids /\ i \in T /\ i \in DOMAIN events /\ events[i].type = "SELL"
        /\ events[i].qty \in Nat /\ events[i].trade \in Nat /\ events[i].active
        /\ events[i].account = a
    BY <1>2, <1>3 DEF SalesAmong
  <2>2. z \in 1..y
    <3>1. z \in Years /\ z <= y
      BY <1>0, <1>3, <2>1 DEF EventYears
    <3>. QED BY <1>1, <3>1, BoundsAssumption DEF Years
  <2>3. z \in Closed /\ AllClosedUpTo(z)
    BY <1>1, <2>2 DEF AllClosedUpTo
  <2>4. i \in Sales(z)
    BY <2>1 DEF Sales
  <2>5. events[i].qty <= custody_before(events, openings, i)
    BY <1>0, <2>3, <2>4 DEF ClosedSalesCovered, checar_vendas_acima_da_custodia
  <2>6. OPENING_DATE <= events[i].trade
    <3>1. events[i].trade \div 100 >= 1
      BY <2>2 DEF YearOf
    <3>. QED BY <2>1, <3>1 DEF OPENING_DATE
  <2>13. i \in SalesUpTo(y, a)
    BY <2>1 DEF SalesUpTo
  <2>7. \A o \in openings : o.account = a => o.date <= events[i].trade /\ o.date <= Forever
    BY <1>13, <2>13 DEF OpeningsComeFirst
  <2>14. \A j \in T : events[j].type # "SELL" /\ events[j].trade = events[i].trade => j < i
    <3>. SUFFICES ASSUME NEW j \in T, events[j].type # "SELL", events[j].trade = events[i].trade
                  PROVE  j < i
      OBVIOUS
    <3>1. j \in TradesUpTo(y, a) \ SalesUpTo(y, a)
      BY <1>3, <2>1 DEF TradesUpTo, SalesUpTo
    <3>. QED BY <2>13, <3>1 DEF PurchasesComeFirst
  <2>8. custody_before(events, openings, i)
          <= Walk(events, opening, Earlier(events, T, i)).qty
    BY <1>0, <2>1, <2>6, <2>7, <2>14, CustodyInOrder
  <2>9. Earlier(events, T, i) = Earlier(events, ids, i)
    BY <1>4, <2>1
  <2>10. Walk(events, opening, Earlier(events, ids, i)).qty \in Int
    <3>1. ids \in SUBSET Nat /\ IsFiniteSet(ids) /\ Datable(events, ids)
      BY <1>2, <1>3
    <3>2. Walk(events, opening, Earlier(events, ids, i)) \in Books
      BY <1>5, <2>1, <3>1, WalkLast
    <3>. QED BY <3>2 DEF Books
  <2>11. custody_before(events, openings, i) \in Int
    <3>. DEFINE C == {j \in T : j # i /\ events[j].trade <= events[i].trade}
                until == OpeningBooks(openings, a, events[i].trade)
    <3>1. C \in SUBSET Nat /\ IsFiniteSet(C) /\ Datable(events, C)
      <4>1. C \in SUBSET T
        OBVIOUS
      <4>. HIDE DEF C, T
      <4>. QED BY <1>2, <4>1
    <3>2. until \in Books
      <4>1. until = opening
        BY <2>1, <2>6, <2>7, OpeningOfAnyDate
      <4>. QED BY <1>5, <4>1
    <3>3. custody_before(events, openings, i) = Walk(events, until, C).qty
      BY <2>1 DEF custody_before
    <3>. HIDE DEF C, until
    <3>4. Walk(events, until, C) \in Books
      BY <3>1, <3>2, WalkInBooks DEF Datable
    <3>. QED BY <3>3, <3>4 DEF Books
  <2>. HIDE DEF opening, ids, T, z
  <2>12. /\ events[i].qty \in Int
         /\ events[i].qty <= Walk(events, opening, Earlier(events, ids, i)).qty
    BY <2>1, <2>5, <2>8, <2>9, <2>10, <2>11
  <2>. QED BY <2>1, <2>12
<1>8. Agree(opening, ids)
  <2>1. ids \in SUBSET Nat /\ IsFiniteSet(ids) /\ Datable(events, ids)
    BY <1>2, <1>3
  <2>. HIDE DEF ids, opening
  <2>. QED BY <1>5, <1>7, <2>1, WalksAgree
<1>9. Walk(events, opening, ids).cost = CostLeft(y, a)
  BY <1>0, <1>1, <1>4, <1>5, CostIsLeft
<1>10. SalesAmong(ids) = SalesUpTo(y, a)
  BY <1>2, <1>3 DEF SalesAmong, SalesUpTo
<1>. DEFINE c == bens(y, a).cost
            p == bens(y, a).per
            k == CostLeft(y, a)
            n == Cardinality(SalesUpTo(y, a))
<1>11. c \in Int /\ p \in Int /\ k \in Int /\ n \in Nat /\ Near(c, p, k, n)
  <2>. HIDE DEF ids, opening
  <2>1. bens(y, a) \in ExactBooks /\ Walk(events, opening, ids) \in Books
        /\ n \in Nat /\ Near(bens(y, a).cost, bens(y, a).per, CostLeft(y, a), n)
    BY <1>6, <1>8, <1>9, <1>10 DEF Agree
  <2>2. bens(y, a).cost \in Int /\ bens(y, a).per \in Int
    BY <2>1 DEF ExactBooks
  <2>3. Walk(events, opening, ids).cost \in Int
    BY <2>1 DEF Books
  <2>. QED BY <1>9, <2>1, <2>2, <2>3
<1>. HIDE DEF c, p, k, n
<1>12. 2 * Abs(c - k * p) <= n * Abs(p)
  <2>1. p \in Nat /\ 2 * (c - k * p) <= n * p /\ 2 * (k * p - c) <= n * p
    BY <1>11 DEF Near
  <2>2. Abs(p) = p
    BY <2>1 DEF Abs, Larger
  <2>3. k * p \in Int
    BY <1>11
  <2>4. Abs(c - k * p) = c - k * p \/ Abs(c - k * p) = k * p - c
    BY <1>11, <2>3 DEF Abs, Larger
  <2>. QED BY <2>1, <2>2, <2>4
<1>. QED BY <1>12 DEF c, p, k, n

(* What ReportService shows of a closed year is explained by its results, for
   the accounts whose openings and purchases come before the sales they
   cover. *)
THEOREM AssetsStayExplained == Spec => []AssetsExplained
BY ClosingsStayTogether, AssetsOfClosedYears, PTL
===============================================================================
