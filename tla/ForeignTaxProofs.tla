---------------------------- MODULE ForeignTaxProofs ----------------------------
(***************************************************************************)
(* The rates and the credit for any calendar, quotes, incomes, losses,     *)
(* payments and refunds: a rate in use is answered again, and a closed     *)
(* year keeps a credit that is bounded and that can be computed again.     *)
(***************************************************************************)
EXTENDS ForeignTax, IterationProofs, SequenceTheorems

-------------------------------------------------------------------------------
(* The table of rates. *)

(* c2 is c with rows added, none of them a manual rate. *)
Extends(c2, c) == Len(c) <= Len(c2) /\ \A i \in DOMAIN c : c2[i] = c[i]
FetchedOnly(c2, c) ==
  Extends(c2, c) /\ \A i \in DOMAIN c2 \ DOMAIN c : ~ c2[i].manually_overridden

LEMMA CacheRows ==
  ASSUME NEW c \in Seq(PtaxRate)
  PROVE  /\ Len(c) \in Nat /\ DOMAIN c = 1..Len(c)
         /\ \A i \in DOMAIN c : /\ c[i] \in PtaxRate /\ c[i].requested \in Dates
                                /\ c[i].effective \in Dates /\ c[i].rate \in Rates
                                /\ c[i].manually_overridden \in BOOLEAN
<1>1. Len(c) \in Nat /\ DOMAIN c = 1..Len(c) /\ \A i \in DOMAIN c : c[i] \in PtaxRate
  BY LenProperties, ElementOfSeq
<1>. QED BY <1>1 DEF PtaxRate

(* The rates are natural numbers. *)
LEMMA RatesNatural == Rates \subseteq Nat
BY PtaxAssumption DEF Rates

(* A set of natural numbers up to n has a greatest element. *)
LEMMA GreatestNatural ==
  ASSUME NEW n \in Nat, NEW T, T \subseteq 0..n, T # {}
  PROVE  \E x \in T : \A y \in T : y <= x
<1>. DEFINE Gaps == {n - x : x \in T}
<1>1. Gaps \subseteq Nat /\ Gaps # {}
  <2>1. \A x \in T : x \in Nat /\ x <= n
    OBVIOUS
  <2>2. \A x \in T : n - x \in Nat
    BY <2>1
  <2>. QED BY <2>2
<1>2. PICK g \in Gaps : \A h \in Gaps : g <= h
  BY <1>1, LeastNatural
<1>3. PICK x \in T : g = n - x
  OBVIOUS
<1>4. ASSUME NEW y \in T
      PROVE  y <= x
  <2>1. n - x <= n - y
    BY <1>2, <1>3
  <2>. QED BY <2>1
<1>. QED BY <1>3, <1>4

(* The row that answers a date which is known. *)
LEMMA RowInForce ==
  ASSUME NEW c \in Seq(PtaxRate), NEW d, Known(c, d)
  PROVE  \E i \in DOMAIN c :
           /\ RateFor(c, d) = c[i].rate
           /\ IF RowsFor(c, d, TRUE) # {}
              THEN i \in RowsFor(c, d, TRUE) /\ \A n \in RowsFor(c, d, TRUE) : n <= i
              ELSE i \in RowsFor(c, d, FALSE) /\ \A n \in RowsFor(c, d, FALSE) : i <= n
<1>. DEFINE manual == RowsFor(c, d, TRUE)
            cached == RowsFor(c, d, FALSE)
<1>1. Len(c) \in Nat /\ manual \subseteq 0..Len(c) /\ cached \subseteq Nat
      /\ manual \subseteq DOMAIN c /\ cached \subseteq DOMAIN c
  BY CacheRows DEF RowsFor
<1>2. CASE manual # {}
  <2>1. \E m \in manual : \A n \in manual : n <= m
    BY <1>1, <1>2, GreatestNatural
  <2>. DEFINE i == CHOOSE m \in manual : \A n \in manual : n <= m
  <2>2. i \in manual /\ \A n \in manual : n <= i
    BY <2>1
  <2>3. RateFor(c, d) = c[i].rate
    BY <1>2 DEF RateFor
  <2>. HIDE DEF i, manual, cached
  <2>. QED BY <1>1, <1>2, <2>2, <2>3 DEF manual
<1>3. CASE manual = {}
  <2>1. cached # {}
    BY <1>3, CacheRows DEF Known, RowsFor
  <2>2. \E m \in cached : \A n \in cached : m <= n
    BY <1>1, <2>1, LeastNatural
  <2>. DEFINE i == CHOOSE m \in cached : \A n \in cached : m <= n
  <2>3. i \in cached /\ \A n \in cached : i <= n
    BY <2>2
  <2>4. RateFor(c, d) = c[i].rate
    BY <1>3 DEF RateFor
  <2>. HIDE DEF i, manual, cached
  <2>. QED BY <1>1, <1>3, <2>3, <2>4 DEF manual, cached
<1>. QED BY <1>2, <1>3

LEMMA RateForNatural ==
  ASSUME NEW c \in Seq(PtaxRate), NEW d, Known(c, d)
  PROVE  RateFor(c, d) \in Nat
BY RowInForce, CacheRows, RatesNatural

(* Rows that are added without a manual rate for a known date leave what is
   answered for it. *)
LEMMA RateKept ==
  ASSUME NEW c \in Seq(PtaxRate), NEW c2 \in Seq(PtaxRate), Extends(c2, c),
         NEW d, Known(c, d),
         \A k \in DOMAIN c2 \ DOMAIN c : k \notin RowsFor(c2, d, TRUE)
  PROVE  Known(c2, d) /\ RateFor(c2, d) = RateFor(c, d)
<1>1. /\ DOMAIN c = 1..Len(c) /\ DOMAIN c2 = 1..Len(c2) /\ DOMAIN c \subseteq DOMAIN c2
      /\ Len(c) \in Nat /\ Len(c2) \in Nat /\ \A i \in DOMAIN c : c2[i] = c[i]
      /\ \A i \in DOMAIN c, j \in DOMAIN c2 \ DOMAIN c : i < j
  BY CacheRows DEF Extends
<1>2. Known(c2, d)
  BY <1>1 DEF Known
<1>3. RowsFor(c2, d, TRUE) = RowsFor(c, d, TRUE)
  BY <1>1 DEF RowsFor
<1>4. RowsFor(c, d, FALSE) = RowsFor(c2, d, FALSE) \cap DOMAIN c
  BY <1>1 DEF RowsFor
<1>5. PICK i \in DOMAIN c :
           /\ RateFor(c, d) = c[i].rate
           /\ IF RowsFor(c, d, TRUE) # {}
              THEN i \in RowsFor(c, d, TRUE) /\ \A n \in RowsFor(c, d, TRUE) : n <= i
              ELSE i \in RowsFor(c, d, FALSE) /\ \A n \in RowsFor(c, d, FALSE) : i <= n
  BY RowInForce
<1>6. PICK j \in DOMAIN c2 :
           /\ RateFor(c2, d) = c2[j].rate
           /\ IF RowsFor(c2, d, TRUE) # {}
              THEN j \in RowsFor(c2, d, TRUE) /\ \A n \in RowsFor(c2, d, TRUE) : n <= j
              ELSE j \in RowsFor(c2, d, FALSE) /\ \A n \in RowsFor(c2, d, FALSE) : j <= n
  BY <1>2, RowInForce
<1>7. i \in Nat /\ j \in Nat
  BY <1>1
<1>8. i = j
  <2>1. CASE RowsFor(c, d, TRUE) # {}
    <3>1. i \in RowsFor(c, d, TRUE) /\ \A n \in RowsFor(c, d, TRUE) : n <= i
      BY <1>5, <2>1
    <3>2. j \in RowsFor(c, d, TRUE) /\ \A n \in RowsFor(c, d, TRUE) : n <= j
      BY <1>3, <1>6, <2>1
    <3>3. i <= j /\ j <= i
      BY <3>1, <3>2
    <3>. QED BY <1>7, <3>3
  <2>2. CASE RowsFor(c, d, TRUE) = {}
    <3>1. i \in RowsFor(c2, d, FALSE) /\ j <= i
      BY <1>3, <1>4, <1>5, <1>6, <2>2
    <3>2. j \in DOMAIN c
      BY <1>1, <1>7, <3>1
    <3>3. j \in RowsFor(c, d, FALSE) /\ i <= j
      BY <1>3, <1>4, <1>5, <1>6, <2>2, <3>2
    <3>. QED BY <1>7, <3>1, <3>3
  <2>. QED BY <2>1, <2>2
<1>. QED BY <1>1, <1>2, <1>5, <1>6, <1>8

(* A row fetched from the central bank is a row of the table. *)
LEMMA FetchedRow ==
  ASSUME NEW d \in Dates, NEW down, Quoted(d, down) # {}
  PROVE  /\ Fetched(d, down) \in PtaxRate
         /\ Fetched(d, down).requested = d
         /\ ~ Fetched(d, down).manually_overridden
<1>1. Quoted(d, down) \subseteq 0..LastDate /\ LastDate \in Nat
      /\ Quoted(d, down) \subseteq Published
  <2>1. LastDate \in Nat /\ Published \subseteq 1..LastDate
    BY PtaxAssumption DEF Dates
  <2>2. Quoted(d, down) \subseteq Published
    BY DEF Quoted
  <2>3. 1..LastDate \subseteq 0..LastDate
    BY <2>1
  <2>. QED BY <2>1, <2>2, <2>3
<1>2. \E e \in Quoted(d, down) : \A f \in Quoted(d, down) : f <= e
  BY <1>1, GreatestNatural
<1>. DEFINE e == CHOOSE e \in Quoted(d, down) : \A f \in Quoted(d, down) : f <= e
<1>3. e \in Published
  BY <1>1, <1>2
<1>4. Fetched(d, down) = [requested |-> d, effective |-> e, rate |-> Quote[e],
                          manually_overridden |-> FALSE]
  BY DEF Fetched
<1>. HIDE DEF e
<1>5. e \in Dates /\ Quote[e] \in Rates
  BY <1>3, PtaxAssumption DEF Rates
<1>. QED BY <1>4, <1>5 DEF PtaxRate

(* Storing a row adds it or, when its quote is there, does nothing. *)
LEMMA StoredRow ==
  ASSUME NEW c \in Seq(PtaxRate), NEW row \in PtaxRate
  PROVE  /\ Stored(c, row) \in Seq(PtaxRate) /\ Extends(Stored(c, row), c)
         /\ ~ row.manually_overridden => FetchedOnly(Stored(c, row), c)
         /\ ~ Conflicts(c, row) => Known(Stored(c, row), row.requested)
<1>1. /\ Append(c, row) \in Seq(PtaxRate) /\ Len(Append(c, row)) = Len(c) + 1
      /\ \A i \in 1..Len(c) : Append(c, row)[i] = c[i]
      /\ Append(c, row)[Len(c) + 1] = row
  BY AppendProperties
<1>2. /\ DOMAIN c = 1..Len(c) /\ Len(c) \in Nat
      /\ DOMAIN Append(c, row) = 1..(Len(c) + 1)
  BY <1>1, CacheRows
<1>3. CASE Conflicts(c, row)
  BY <1>2, <1>3 DEF Stored, Extends, FetchedOnly
<1>4. CASE ~ Conflicts(c, row)
  <2>1. Stored(c, row) = Append(c, row)
    BY <1>4 DEF Stored
  <2>2. Extends(Append(c, row), c)
    BY <1>1, <1>2 DEF Extends
  <2>3. \A i \in DOMAIN Append(c, row) \ DOMAIN c : Append(c, row)[i] = row
    BY <1>1, <1>2
  <2>4. Known(Append(c, row), row.requested)
    BY <1>1, <1>2 DEF Known
  <2>. QED BY <1>1, <2>1, <2>2, <2>3, <2>4 DEF FetchedOnly
<1>. QED BY <1>3, <1>4

(* A lookup adds fetched rows only, and an answer is in the table. *)
LEMMA LookupResult ==
  ASSUME NEW c \in Seq(PtaxRate), NEW d \in Dates, NEW down
  PROVE  /\ get_rate(c, d, down) \in [cache: Seq(PtaxRate), answered: BOOLEAN]
         /\ FetchedOnly(get_rate(c, d, down).cache, c)
         /\ get_rate(c, d, down).answered => Known(get_rate(c, d, down).cache, d)
<1>1. FetchedOnly(c, c)
  BY CacheRows DEF FetchedOnly, Extends
<1>2. CASE Known(c, d)
  BY <1>1, <1>2 DEF get_rate
<1>3. CASE ~ Known(c, d) /\ Quoted(d, down) = {}
  BY <1>1, <1>3 DEF get_rate
<1>4. CASE ~ Known(c, d) /\ Quoted(d, down) # {}
  <2>1. get_rate(c, d, down) = [cache    |-> Stored(c, Fetched(d, down)),
                                answered |-> ~ Conflicts(c, Fetched(d, down))]
    BY <1>4 DEF get_rate
  <2>2. /\ Stored(c, Fetched(d, down)) \in Seq(PtaxRate)
        /\ FetchedOnly(Stored(c, Fetched(d, down)), c)
        /\ ~ Conflicts(c, Fetched(d, down)) => Known(Stored(c, Fetched(d, down)), d)
    BY <1>4, FetchedRow, StoredRow
  <2>3. CASE Conflicts(c, Fetched(d, down))
    <3>1. get_rate(c, d, down) = [cache |-> Stored(c, Fetched(d, down)), answered |-> FALSE]
      BY <2>1, <2>3
    <3>. QED BY <2>2, <3>1
  <2>4. CASE ~ Conflicts(c, Fetched(d, down))
    <3>1. get_rate(c, d, down) = [cache |-> Stored(c, Fetched(d, down)), answered |-> TRUE]
      BY <2>1, <2>4
    <3>. QED BY <2>2, <2>4, <3>1
  <2>. QED BY <2>3, <2>4
<1>. QED BY <1>2, <1>3, <1>4

LEMMA ExtendsTransitive ==
  ASSUME NEW c \in Seq(PtaxRate), NEW c2 \in Seq(PtaxRate), NEW c3 \in Seq(PtaxRate),
         Extends(c2, c), Extends(c3, c2)
  PROVE  /\ Extends(c3, c)
         /\ FetchedOnly(c2, c) /\ FetchedOnly(c3, c2) => FetchedOnly(c3, c)
<1>1. /\ DOMAIN c = 1..Len(c) /\ DOMAIN c2 = 1..Len(c2) /\ DOMAIN c3 = 1..Len(c3)
      /\ Len(c) \in Nat /\ Len(c2) \in Nat /\ Len(c3) \in Nat
  BY CacheRows
<1>2. Extends(c3, c)
  BY <1>1 DEF Extends
<1>3. ASSUME FetchedOnly(c2, c), FetchedOnly(c3, c2), NEW i \in DOMAIN c3 \ DOMAIN c
      PROVE  ~ c3[i].manually_overridden
  <2>1. CASE i \in DOMAIN c2
    BY <1>3, <2>1 DEF FetchedOnly, Extends
  <2>2. CASE i \notin DOMAIN c2
    BY <1>3, <2>2 DEF FetchedOnly
  <2>. QED BY <2>1, <2>2
<1>. QED BY <1>2, <1>3 DEF FetchedOnly

LEMMA KnownKept ==
  ASSUME NEW c \in Seq(PtaxRate), NEW c2 \in Seq(PtaxRate), Extends(c2, c), NEW d, Known(c, d)
  PROVE  Known(c2, d)
BY CacheRows DEF Extends, Known

-------------------------------------------------------------------------------
(* The lookups of a computation. *)

LEMMA CreditBounds ==
  /\ Years \subseteq Nat /\ Len(Incomes) \in Nat /\ DOMAIN Incomes = 1..Len(Incomes)
  /\ \A i \in DOMAIN Incomes : /\ Incomes[i].year \in Years /\ Incomes[i].net \in Nat
                               /\ Incomes[i].fx \in Nat /\ Incomes[i].share \in 0..100
  /\ \A y \in Years : Losses[y] \in Nat
  /\ PaymentIds = 1..Len(Payments0) /\ Len(Payments0) \in Nat
  /\ Payments0 \in [PaymentIds -> [income: DOMAIN Incomes, facts: Facts]]
  /\ Len(RefundDrafts) \in Nat /\ DOMAIN RefundDrafts = 1..Len(RefundDrafts)
  /\ \A j \in DOMAIN RefundDrafts : /\ RefundDrafts[j].income \in DOMAIN Incomes
                                    /\ RefundDrafts[j].brl \in Nat
                                    /\ YearOfRefund(j) \in Nat
<1>1. /\ Incomes \in Seq([year: Years, net: Nat, fx: Nat, share: 0..100])
      /\ Payments0 \in Seq([income: DOMAIN Incomes, facts: Facts])
      /\ RefundDrafts \in Seq([income: DOMAIN Incomes, date: Dates, brl: Nat])
      /\ Years \subseteq Nat /\ Losses \in [Years -> Nat]
  BY ForeignTaxAssumption
<1>2. Len(Incomes) \in Nat /\ DOMAIN Incomes = 1..Len(Incomes)
      /\ \A i \in DOMAIN Incomes : Incomes[i] \in [year: Years, net: Nat, fx: Nat, share: 0..100]
  BY <1>1, LenProperties, ElementOfSeq
<1>3. PaymentIds = 1..Len(Payments0) /\ Len(Payments0) \in Nat
      /\ Payments0 \in [PaymentIds -> [income: DOMAIN Incomes, facts: Facts]]
  BY <1>1, LenProperties DEF PaymentIds
<1>4. Len(RefundDrafts) \in Nat /\ DOMAIN RefundDrafts = 1..Len(RefundDrafts)
      /\ \A j \in DOMAIN RefundDrafts :
           RefundDrafts[j] \in [income: DOMAIN Incomes, date: Dates, brl: Nat]
  <2>. DEFINE R == [income: DOMAIN Incomes, date: Dates, brl: Nat]
  <2>1. RefundDrafts \in Seq(R)
    BY <1>1
  <2>. HIDE DEF R
  <2>2. Len(RefundDrafts) \in Nat /\ DOMAIN RefundDrafts = 1..Len(RefundDrafts)
        /\ \A j \in DOMAIN RefundDrafts : RefundDrafts[j] \in R
    BY <2>1, LenProperties, ElementOfSeq
  <2>. QED BY <2>2 DEF R
<1>5. \A j \in DOMAIN RefundDrafts : YearOfRefund(j) \in Nat
  BY <1>4, PtaxAssumption DEF YearOfRefund
<1>. QED BY <1>1, <1>2, <1>3, <1>4, <1>5

LEMMA PaymentsLength ==
  ASSUME NEW table \in [PaymentIds -> [income: DOMAIN Incomes, facts: Facts]]
  PROVE  /\ table \in Seq([income: DOMAIN Incomes, facts: Facts])
         /\ Len(table) = Len(Payments0)
<1>. DEFINE R == [income: DOMAIN Incomes, facts: Facts]
<1>1. table \in [1..Len(Payments0) -> R] /\ Len(Payments0) \in Nat
  BY CreditBounds
<1>. HIDE DEF R
<1>2. table \in Seq(R)
  BY <1>1, SeqDef
<1>3. 1..Len(table) = 1..Len(Payments0) /\ Len(table) \in Nat
  BY <1>1, <1>2, LenProperties
<1>4. Len(table) = Len(Payments0)
  BY <1>1, <1>3
<1>. QED BY <1>2, <1>4 DEF R

LEMMA PaymentTypes ==
  ASSUME CreditTypeOK
  PROVE  /\ payments \in Seq([income: DOMAIN Incomes, facts: Facts])
         /\ Len(payments) = Len(Payments0) /\ DOMAIN payments = PaymentIds
         /\ Len(payments) \in Nat /\ PaymentIds = 1..Len(payments)
         /\ \A p \in PaymentIds : /\ payments[p].income \in DOMAIN Incomes
                                  /\ payments[p].facts \in Facts
                                  /\ payments[p].facts.date \in Dates
                                  /\ payments[p].facts.usd \in Nat
                                  /\ YearOfPayment(p) \in Years
<1>1. /\ payments \in [1..Len(Payments0) -> [income: DOMAIN Incomes, facts: Facts]]
      /\ Len(Payments0) \in Nat /\ PaymentIds = 1..Len(Payments0)
  BY CreditBounds DEF CreditTypeOK
<1>2. payments \in Seq([income: DOMAIN Incomes, facts: Facts]) /\ Len(payments) = Len(Payments0)
  BY PaymentsLength DEF CreditTypeOK
<1>4. \A p \in PaymentIds : payments[p] \in [income: DOMAIN Incomes, facts: Facts]
  BY <1>1
<1>5. \A p \in PaymentIds : /\ payments[p].income \in DOMAIN Incomes
                            /\ payments[p].facts \in Facts
                            /\ payments[p].facts.date \in Dates
                            /\ payments[p].facts.usd \in Nat
  BY <1>4 DEF Facts
<1>6. \A p \in PaymentIds : YearOfPayment(p) \in Years
  BY <1>5, CreditBounds DEF YearOfPayment
<1>. QED BY <1>1, <1>2, <1>5, <1>6

(* The rounds of a loop on S, named for the provers. *)
Rounds(S) == [Nat -> [S -> S]]

LEMMA NextRound ==
  ASSUME NEW S, NEW s0 \in S, NEW step \in Rounds(S), NEW n \in Nat
  PROVE  /\ Iterate(step, s0, 0) = s0
         /\ Iterate(step, s0, n) \in S
         /\ Iterate(step, s0, n+1) = step[n+1][Iterate(step, s0, n)]
<1>1. step \in [Nat -> [S -> S]]
  BY DEF Rounds
<1>2. Iterate(step, s0, 0) = s0
  BY <1>1, IterateRounds
<1>3. \A m \in Nat : Iterate(step, s0, m) \in S
  BY <1>1, IterateRounds
<1>4. \A m \in Nat : Iterate(step, s0, m+1) = step[m+1][Iterate(step, s0, m)]
  BY <1>1, IterateRounds
<1>. QED BY <1>2, <1>3, <1>4

(* A computation that gets all its answers has added fetched rows only, and
   the rate of every payment of the year is known from then on. *)
LEMMA PricedRates ==
  ASSUME CreditTypeOK, NEW year, NEW down
  PROVE  /\ Priced(year, down).cache \in Seq(PtaxRate)
         /\ FetchedOnly(Priced(year, down).cache, cache)
         /\ Priced(year, down).answered =>
              \A p \in PaymentIds : YearOfPayment(p) = year =>
                Known(Priced(year, down).cache, payments[p].facts.date)
<1>. DEFINE S == [cache: Seq(PtaxRate), answered: BOOLEAN]
            step == [p \in Nat |-> [before \in S |->
                       IF p \in PaymentIds /\ before.answered
                            /\ payments[p].income \in IncomesOf(year)
                       THEN get_rate(before.cache, payments[p].facts.date, down)
                       ELSE before]]
            s0 == [cache |-> cache, answered |-> TRUE]
            at(n) == Iterate(step, s0, n)
            Reached == {n \in Nat :
              /\ FetchedOnly(at(n).cache, cache)
              /\ at(n).answered => \A p \in PaymentIds :
                   p <= n /\ YearOfPayment(p) = year =>
                     Known(at(n).cache, payments[p].facts.date)}
<1>1. cache \in Seq(PtaxRate) /\ s0 \in S
  BY DEF CreditTypeOK
<1>2. ASSUME NEW p \in PaymentIds, NEW before \in S
      PROVE  get_rate(before.cache, payments[p].facts.date, down) \in S
  BY PaymentTypes, LookupResult
<1>3. step \in [Nat -> [S -> S]]
  BY <1>2
<1>4. \A p \in PaymentIds : payments[p].income \in IncomesOf(year) <=> YearOfPayment(p) = year
  BY PaymentTypes DEF IncomesOf, YearOfPayment
<1>5. ASSUME NEW n \in Nat, NEW before \in S
      PROVE  step[n+1][before] = IF n+1 \in PaymentIds /\ before.answered
                                      /\ YearOfPayment(n+1) = year
                                 THEN get_rate(before.cache, payments[n+1].facts.date, down)
                                 ELSE before
  BY <1>4
<1>6. Priced(year, down) = at(Len(payments))
  BY DEF Priced
<1>. HIDE DEF step, S, s0
<1>7. at(0) = s0 /\ \A n \in Nat : at(n) \in S /\ at(n+1) = step[n+1][at(n)]
  <2>1. s0 \in S /\ step \in Rounds(S)
    BY <1>1, <1>3 DEF Rounds
  <2>2. 0 \in Nat
    OBVIOUS
  <2>. QED BY <2>1, <2>2, NextRound
<1>. HIDE DEF at
<1>8. 0 \in Reached
  <2>1. at(0).cache = cache
    BY <1>7 DEF s0
  <2>2. FetchedOnly(cache, cache)
    BY <1>1, CacheRows DEF FetchedOnly, Extends
  <2>3. \A p \in PaymentIds : ~ (p <= 0)
    BY CreditBounds
  <2>. QED BY <2>1, <2>2, <2>3
<1>9. ASSUME NEW n \in Nat, n \in Reached
      PROVE  n+1 \in Reached
  <2>. DEFINE c == at(n).cache
              c2 == at(n+1).cache
  <2>1. at(n) \in S /\ at(n+1) \in S /\ c \in Seq(PtaxRate) /\ c2 \in Seq(PtaxRate)
    <3>1. at(n) \in S /\ at(n+1) \in S
      BY <1>7
    <3>. QED BY <3>1 DEF S
  <2>2. FetchedOnly(c, cache)
        /\ (at(n).answered => \A p \in PaymentIds : p <= n /\ YearOfPayment(p) = year =>
                                Known(c, payments[p].facts.date))
    BY <1>9
  <2>3. \A p \in PaymentIds : p <= n+1 <=> p <= n \/ p = n+1
    BY CreditBounds
  <2>4. CASE n+1 \in PaymentIds /\ at(n).answered /\ YearOfPayment(n+1) = year
    <3>1. at(n+1) = get_rate(c, payments[n+1].facts.date, down)
      BY <1>5, <1>7, <2>1, <2>4
    <3>2. payments[n+1].facts.date \in Dates
      BY <2>4, PaymentTypes
    <3>3. FetchedOnly(c2, c)
          /\ (at(n+1).answered => Known(c2, payments[n+1].facts.date))
      BY <2>1, <3>1, <3>2, LookupResult
    <3>4. FetchedOnly(c2, cache)
      BY <1>1, <2>1, <2>2, <3>3, ExtendsTransitive DEF FetchedOnly
    <3>5. \A p \in PaymentIds : p <= n /\ YearOfPayment(p) = year =>
            Known(c2, payments[p].facts.date)
      BY <2>1, <2>2, <2>4, <3>3, KnownKept DEF FetchedOnly
    <3>. QED BY <2>3, <3>3, <3>4, <3>5
  <2>5. CASE ~ (n+1 \in PaymentIds /\ at(n).answered /\ YearOfPayment(n+1) = year)
    <3>1. at(n+1) = at(n)
      BY <1>5, <1>7, <2>1, <2>5
    <3>. QED BY <2>2, <2>3, <2>5, <3>1
  <2>. QED BY <2>4, <2>5
<1>. HIDE DEF Reached
<1>10. Nat \subseteq Reached
  BY <1>8, <1>9, SetInduction
<1>11. Len(payments) \in Reached /\ at(Len(payments)) \in S
  BY <1>7, <1>10, PaymentTypes
<1>12. \A p \in PaymentIds : p <= Len(payments)
  BY PaymentTypes
<1>. QED BY <1>6, <1>11, <1>12 DEF Reached, S

-------------------------------------------------------------------------------
(* What a step does to the rates. *)

(* A row that a screen is about to store is one of the central bank. *)
LookupsFetched ==
  \A s \in Screens : lookup[s] # NoRow => ~ lookup[s].manually_overridden

LEMMA ManualRowTyped ==
  ASSUME NEW d \in Dates, NEW rate \in ManualRates
  PROVE  /\ ManualRow(d, rate) \in PtaxRate
         /\ ManualRow(d, rate).requested = d /\ ManualRow(d, rate).manually_overridden
BY DEF ManualRow, PtaxRate, Rates

LEMMA DraftDates ==
  \A new \in PaymentDrafts : new \in Facts /\ new.date \in Dates
BY ForeignTaxAssumption DEF Facts

(* Rows are only ever added; a manual one takes the year of its date to be
   open. *)
LEMMA RowsAdded ==
  ASSUME CreditTypeOK, LookupsFetched, [Next]_creditVars
  PROVE  /\ cache' \in Seq(PtaxRate) /\ Extends(cache', cache)
         /\ \A k \in DOMAIN cache' \ DOMAIN cache :
              cache'[k].manually_overridden => Open(CalendarYear[cache'[k].requested])
<1>. DEFINE Good == /\ cache' \in Seq(PtaxRate) /\ Extends(cache', cache)
                    /\ \A k \in DOMAIN cache' \ DOMAIN cache :
                         cache'[k].manually_overridden => Open(CalendarYear[cache'[k].requested])
<1>. SUFFICES Good
  OBVIOUS
<1>1. cache \in Seq(PtaxRate) /\ Extends(cache, cache)
  BY CacheRows DEF CreditTypeOK, Extends
<1>2. ASSUME cache' = cache
      PROVE  Good
  BY <1>1, <1>2
<1>3. ASSUME NEW s \in Screens, StoreRate(s)
      PROVE  Good
  <2>1. lookup[s] \in PtaxRate /\ ~ lookup[s].manually_overridden /\ cache' = Stored(cache, lookup[s])
    BY <1>3 DEF StoreRate, CreditTypeOK, LookupsFetched
  <2>. QED BY <1>1, <2>1, StoredRow DEF FetchedOnly
<1>4. ASSUME NEW p \in PaymentIds, NEW new \in PaymentDrafts, NEW rate \in ManualRates, NEW down,
             EditPaymentAndRate(p, new, rate, down)
      PROVE  Good
  <2>. DEFINE before == get_rate(cache, new.date, down)
              row == ManualRow(new.date, rate)
              accepted == before.answered /\ Open(CalendarYear[new.date])
  <2>1. new.date \in Dates
    BY DraftDates
  <2>2. before.cache \in Seq(PtaxRate) /\ FetchedOnly(before.cache, cache)
    BY <1>1, <2>1, LookupResult
  <2>3. row \in PtaxRate /\ row.requested = new.date
    BY <2>1, ManualRowTyped
  <2>4. cache' = IF accepted THEN Append(before.cache, row) ELSE before.cache
    BY <1>4 DEF EditPaymentAndRate
  <2>. DEFINE c2 == before.cache
  <2>5. CASE ~ accepted
    BY <2>2, <2>4, <2>5 DEF FetchedOnly
  <2>6. CASE accepted
    <3>1. cache' = Append(c2, row) /\ Open(CalendarYear[new.date])
      BY <2>4, <2>6
    <3>. HIDE DEF before, row, accepted
    <3>2. /\ Append(c2, row) \in Seq(PtaxRate) /\ Len(Append(c2, row)) = Len(c2) + 1
          /\ \A i \in 1..Len(c2) : Append(c2, row)[i] = c2[i]
          /\ Append(c2, row)[Len(c2) + 1] = row
      BY <2>2, <2>3, AppendProperties
    <3>3. /\ DOMAIN c2 = 1..Len(c2) /\ Len(c2) \in Nat
          /\ DOMAIN Append(c2, row) = 1..(Len(c2) + 1)
          /\ DOMAIN cache = 1..Len(cache) /\ Len(cache) \in Nat
      BY <1>1, <2>2, <3>2, CacheRows
    <3>4. Extends(Append(c2, row), c2)
      BY <3>2, <3>3 DEF Extends
    <3>5. Extends(Append(c2, row), cache)
      BY <1>1, <2>2, <3>2, <3>4, ExtendsTransitive DEF FetchedOnly
    <3>6. ASSUME NEW k \in DOMAIN Append(c2, row) \ DOMAIN cache,
                 Append(c2, row)[k].manually_overridden
          PROVE  Open(CalendarYear[Append(c2, row)[k].requested])
      <4>1. CASE k \in DOMAIN c2
        BY <2>2, <3>2, <3>3, <3>6, <4>1 DEF FetchedOnly
      <4>2. CASE k \notin DOMAIN c2
        <5>1. k = Len(c2) + 1
          BY <3>3, <3>6, <4>2
        <5>. QED BY <2>3, <3>1, <3>2, <5>1
      <4>. QED BY <4>1, <4>2
    <3>. QED BY <3>1, <3>2, <3>5, <3>6
  <2>. QED BY <2>5, <2>6
<1>5. ASSUME NEW y, NEW down, CloseYear(y, down)
      PROVE  Good
  <2>1. cache' = Priced(y, down).cache
    BY <1>5 DEF CloseYear
  <2>. QED BY <2>1, PricedRates DEF FetchedOnly
<1>6. CASE UNCHANGED creditVars
  BY <1>2, <1>6 DEF creditVars
<1>7. CASE Next
  <2>1. \/ cache' = cache
        \/ \E s \in Screens : StoreRate(s)
        \/ \E p \in PaymentIds, new \in PaymentDrafts, rate \in ManualRates, down \in Outages :
             EditPaymentAndRate(p, new, rate, down)
        \/ \E y \in Years, down \in Outages : CloseYear(y, down)
    BY <1>7 DEF Next, AskRate, EditPayment, RecordRefund, DeactivateRefund, ReopenYear
  <2>. HIDE DEF Good
  <2>. QED BY <1>2, <1>3, <1>4, <1>5, <2>1
<1>. QED BY <1>6, <1>7

-------------------------------------------------------------------------------
(* Types. *)

LEMMA InitTyped ==
  ASSUME Init
  PROVE  CreditTypeOK /\ LookupsFetched
<1>1. cache \in Seq(PtaxRate) /\ untold \subseteq PaymentIds /\ refunds \subseteq DOMAIN RefundDrafts
  BY EmptySeq DEF Init
<1>2. lookup \in [Screens -> PtaxRate \cup {NoRow}] /\ LookupsFetched
  BY DEF Init, LookupsFetched
<1>3. payments \in [PaymentIds -> [income: DOMAIN Incomes, facts: Facts]]
  BY CreditBounds DEF Init
<1>4. Closed \subseteq Years
  BY DEF Init, Closed
<1>. QED BY <1>1, <1>2, <1>3, <1>4 DEF CreditTypeOK

(* What a step does to a payment: only its facts change, to those of a draft,
   and only while the year of its income is open. *)
LEMMA PaymentsStep ==
  ASSUME CreditTypeOK, [Next]_creditVars
  PROVE  /\ payments' \in [PaymentIds -> [income: DOMAIN Incomes, facts: Facts]]
         /\ \A p \in PaymentIds : /\ payments'[p].income = payments[p].income
                                  /\ YearOfPayment(p)' = YearOfPayment(p)
         /\ \A p \in PaymentIds : payments'[p] # payments[p] => Open(YearOfPayment(p))
         /\ payments' # payments => assessment' = assessment
<1>. DEFINE Good == /\ payments' \in [PaymentIds -> [income: DOMAIN Incomes, facts: Facts]]
                    /\ \A p \in PaymentIds : payments'[p].income = payments[p].income
                    /\ \A p \in PaymentIds : payments'[p] # payments[p] => Open(YearOfPayment(p))
                    /\ payments' # payments => assessment' = assessment
<1>0. payments \in [PaymentIds -> [income: DOMAIN Incomes, facts: Facts]]
  BY DEF CreditTypeOK
<1>1. ASSUME payments' = payments
      PROVE  Good
  BY <1>0, <1>1
<1>2. ASSUME NEW p \in PaymentIds, NEW new \in PaymentDrafts, Open(YearOfPayment(p)),
             payments' = [payments EXCEPT ![p].facts = new], assessment' = assessment
      PROVE  Good
  BY <1>0, <1>2, DraftDates
<1>3. \/ payments' = payments
      \/ \E p \in PaymentIds, new \in PaymentDrafts :
           /\ Open(YearOfPayment(p)) /\ assessment' = assessment
           /\ payments' = [payments EXCEPT ![p].facts = new]
  <2>1. CASE UNCHANGED creditVars
    BY <2>1 DEF creditVars, facts
  <2>2. CASE Next
    BY <2>2 DEF Next, AskRate, StoreRate, EditPayment, EditPaymentAndRate, RecordRefund,
                DeactivateRefund, CloseYear, ReopenYear, facts
  <2>. QED BY <2>1, <2>2
<1>4. Good
  <2>. HIDE DEF Good
  <2>. QED BY <1>1, <1>2, <1>3
<1>5. \A p \in PaymentIds : YearOfPayment(p)' = YearOfPayment(p)
  BY <1>4 DEF YearOfPayment
<1>. QED BY <1>4, <1>5

(* A refund is recorded or deactivated while its year is open. *)
LEMMA RefundsStep ==
  ASSUME CreditTypeOK, [Next]_creditVars
  PROVE  /\ refunds' \subseteq DOMAIN RefundDrafts
         /\ \A j \in DOMAIN RefundDrafts : ~ Open(YearOfRefund(j)) =>
              (j \in refunds' <=> j \in refunds)
         /\ refunds' # refunds => assessment' = assessment
<1>1. \/ refunds' = refunds
      \/ \E j \in DOMAIN RefundDrafts :
           /\ Open(YearOfRefund(j)) /\ assessment' = assessment
           /\ refunds' = refunds \cup {j} \/ refunds' = refunds \ {j}
  <2>1. CASE UNCHANGED creditVars
    BY <2>1 DEF creditVars, facts
  <2>2. CASE Next
    BY <2>2 DEF Next, AskRate, StoreRate, EditPayment, EditPaymentAndRate, RecordRefund,
                DeactivateRefund, CloseYear, ReopenYear, facts
  <2>. QED BY <2>1, <2>2
<1>2. refunds \subseteq DOMAIN RefundDrafts
  BY DEF CreditTypeOK
<1>. QED BY <1>1, <1>2

(* A closed year keeps its assessment until it is reopened; a year that is
   closed was open, and nothing else is closed by the same step. *)
LEMMA AssessmentStep ==
  ASSUME [Next]_creditVars
  PROVE  \/ assessment' = assessment
         \/ \E y \in Years, down \in Outages :
              CloseYear(y, down) /\ Closed' = Closed \cup {y}
              /\ (\A x \in Closed : assessment'[x] = assessment[x])
         \/ /\ payments' = payments /\ refunds' = refunds /\ cache' = cache
            /\ Closed' \subseteq Closed /\ \A x \in Closed' : assessment'[x] = assessment[x]
<1>1. CASE UNCHANGED creditVars
  BY <1>1 DEF creditVars
<1>2. ASSUME NEW y \in Years, NEW down \in Outages, CloseYear(y, down)
      PROVE  Closed' = Closed \cup {y} /\ \A x \in Closed : assessment'[x] = assessment[x]
  <2>. DEFINE priced == Priced(y, down)
              new == [result |-> compute(y, priced.cache), computed_at |-> Len(priced.cache)]
  <2>1. y \notin Closed
        /\ assessment' = [x \in Closed \cup {y} |-> IF x = y THEN new ELSE assessment[x]]
    BY <1>2 DEF CloseYear, Open
  <2>. HIDE DEF new
  <2>. QED BY <2>1 DEF Closed
<1>3. ASSUME NEW y \in Years, ReopenYear(y)
      PROVE  /\ payments' = payments /\ refunds' = refunds /\ cache' = cache
             /\ Closed' \subseteq Closed /\ \A x \in Closed' : assessment'[x] = assessment[x]
  BY <1>3 DEF ReopenYear, Closed, facts
<1>4. CASE Next
  <2>1. \/ assessment' = assessment
        \/ \E y \in Years, down \in Outages : CloseYear(y, down)
        \/ \E y \in Years : ReopenYear(y)
    BY <1>4 DEF Next, AskRate, StoreRate, EditPayment, EditPaymentAndRate, RecordRefund,
                DeactivateRefund
  <2>. QED BY <1>2, <1>3, <2>1
<1>. QED BY <1>1, <1>4

(* What a screen is about to store is a fetched row. *)
LEMMA LookupStep ==
  ASSUME CreditTypeOK, LookupsFetched, [Next]_creditVars
  PROVE  lookup' \in [Screens -> PtaxRate \cup {NoRow}] /\ LookupsFetched'
<1>. DEFINE Rows == PtaxRate \cup {NoRow}
<1>0. lookup \in [Screens -> Rows]
  BY DEF CreditTypeOK
<1>1. ASSUME NEW s \in Screens, NEW row \in Rows, row = NoRow \/ ~ row.manually_overridden,
             lookup' = [lookup EXCEPT ![s] = row]
      PROVE  lookup' \in [Screens -> Rows] /\ LookupsFetched'
  <2>. HIDE DEF Rows
  <2>. QED BY <1>0, <1>1 DEF LookupsFetched
<1>2. ASSUME NEW s \in Screens, NEW d \in Dates, NEW down, AskRate(s, d, down)
      PROVE  lookup' \in [Screens -> Rows] /\ LookupsFetched'
  <2>1. Fetched(d, down) \in Rows /\ ~ Fetched(d, down).manually_overridden
        /\ lookup' = [lookup EXCEPT ![s] = Fetched(d, down)]
    BY <1>2, FetchedRow DEF AskRate
  <2>. QED BY <1>1, <2>1
<1>3. ASSUME NEW s \in Screens, StoreRate(s)
      PROVE  lookup' \in [Screens -> Rows] /\ LookupsFetched'
  <2>1. NoRow \in Rows /\ lookup' = [lookup EXCEPT ![s] = NoRow]
    BY <1>3 DEF StoreRate
  <2>. QED BY <1>1, <2>1
<1>4. ASSUME lookup' = lookup
      PROVE  lookup' \in [Screens -> Rows] /\ LookupsFetched'
  BY <1>0, <1>4 DEF LookupsFetched
<1>5. \/ lookup' = lookup
      \/ \E s \in Screens, d \in Dates, down \in Outages : AskRate(s, d, down)
      \/ \E s \in Screens : StoreRate(s)
  <2>1. CASE UNCHANGED creditVars
    BY <2>1 DEF creditVars
  <2>2. CASE Next
    BY <2>2 DEF Next, EditPayment, EditPaymentAndRate, RecordRefund, DeactivateRefund,
                CloseYear, ReopenYear
  <2>. QED BY <2>1, <2>2
<1>. HIDE DEF Rows
<1>6. lookup' \in [Screens -> Rows] /\ LookupsFetched'
  BY <1>2, <1>3, <1>4, <1>5
<1>. QED BY <1>6 DEF Rows

LEMMA TypesKept ==
  ASSUME CreditTypeOK, LookupsFetched, [Next]_creditVars
  PROVE  CreditTypeOK' /\ LookupsFetched'
<1>1. untold' \subseteq PaymentIds
  <2>1. untold \subseteq PaymentIds
    BY DEF CreditTypeOK
  <2>2. CASE UNCHANGED creditVars
    BY <2>1, <2>2 DEF creditVars, facts
  <2>3. CASE Next
    BY <2>1, <2>3 DEF Next, AskRate, StoreRate, EditPayment, EditPaymentAndRate, RecordRefund,
                      DeactivateRefund, CloseYear, ReopenYear, facts
  <2>. QED BY <2>2, <2>3
<1>2. Closed' \subseteq Years
  BY AssessmentStep DEF CreditTypeOK, Closed
<1>. QED BY <1>1, <1>2, RowsAdded, PaymentsStep, RefundsStep, LookupStep DEF CreditTypeOK

-------------------------------------------------------------------------------
(* The rate in use, the classification and the refunds. *)

LEMMA RateInUseKept ==
  ASSUME CreditTypeOK, LookupsFetched, [Next]_creditVars, NEW d, Known(cache, d)
  PROVE  /\ Known(cache', d)
         /\ RateFor(cache', d) # RateFor(cache, d) =>
              \E k \in RowsFor(cache', d, TRUE) :
                k \notin DOMAIN cache /\ Open(CalendarYear[d])
<1>1. cache \in Seq(PtaxRate) /\ cache' \in Seq(PtaxRate) /\ Extends(cache', cache)
  BY RowsAdded DEF CreditTypeOK
<1>2. Known(cache', d)
  BY <1>1, KnownKept
<1>3. ASSUME RateFor(cache', d) # RateFor(cache, d)
      PROVE  \E k \in RowsFor(cache', d, TRUE) : k \notin DOMAIN cache /\ Open(CalendarYear[d])
  <2>1. PICK k \in DOMAIN cache' \ DOMAIN cache : k \in RowsFor(cache', d, TRUE)
    BY <1>1, <1>3, RateKept
  <2>2. cache'[k].requested = d /\ cache'[k].manually_overridden
    BY <1>1, <2>1, CacheRows DEF RowsFor
  <2>. QED BY <2>1, <2>2, RowsAdded
<1>. QED BY <1>2, <1>3

LEMMA ClassifiedKept ==
  ASSUME CreditTypeOK, ClosedPaymentsClassified, [Next]_creditVars
  PROVE  ClosedPaymentsClassified'
<1>. SUFFICES ASSUME NEW p \in PaymentIds, YearOfPayment(p)' \in Closed'
              PROVE  ~ exige_classificacao(payments'[p].facts)
  BY DEF ClosedPaymentsClassified
<1>1. YearOfPayment(p)' = YearOfPayment(p)
      /\ (payments'[p] # payments[p] => YearOfPayment(p) \notin Closed)
      /\ (payments' # payments => assessment' = assessment)
  BY PaymentsStep DEF Open
<1>2. CASE YearOfPayment(p) \in Closed
  BY <1>1, <1>2 DEF ClosedPaymentsClassified
<1>3. CASE YearOfPayment(p) \notin Closed
  <2>1. PICK y \in Years, down \in Outages : CloseYear(y, down) /\ Closed' = Closed \cup {y}
    BY <1>1, <1>3, AssessmentStep DEF Closed
  <2>2. y = YearOfPayment(p) /\ checar_credito_exterior(y) /\ payments' = payments
    BY <1>1, <1>3, <2>1 DEF CloseYear, facts
  <2>. QED BY <2>2 DEF checar_credito_exterior
<1>. QED BY <1>2, <1>3

LEMMA RefundsKept ==
  ASSUME CreditTypeOK, RefundKeepsAYearOpen, [Next]_creditVars
  PROVE  RefundKeepsAYearOpen'
<1>. SUFFICES ASSUME NEW j \in refunds',
                     Incomes[RefundDrafts[j].income].year < YearOfRefund(j),
                     Incomes[RefundDrafts[j].income].year \in Closed',
                     YearOfRefund(j) \in Closed'
              PROVE  FALSE
  BY DEF RefundKeepsAYearOpen
<1>. DEFINE origin == Incomes[RefundDrafts[j].income].year
<1>1. j \in DOMAIN RefundDrafts /\ origin \in Nat /\ YearOfRefund(j) \in Nat
  <2>1. j \in DOMAIN RefundDrafts
    BY RefundsStep
  <2>. QED BY <2>1, CreditBounds
<1>2. CASE {origin, YearOfRefund(j)} \subseteq Closed
  <2>1. j \in refunds
    BY <1>1, <1>2, RefundsStep DEF Open
  <2>. QED BY <1>2, <2>1 DEF RefundKeepsAYearOpen
<1>3. CASE ~ ({origin, YearOfRefund(j)} \subseteq Closed)
  <2>1. PICK y \in Years, down \in Outages : CloseYear(y, down) /\ Closed' = Closed \cup {y}
    BY <1>3, AssessmentStep DEF Closed
  <2>2. refunds' = refunds /\ checar_restituicoes_retroativas(y) /\ \A x \in Closed : x <= y
    BY <2>1 DEF CloseYear, facts
  <2>3. CASE YearOfRefund(j) = y
    <3>1. origin >= y \/ Open(origin)
      BY <2>2, <2>3 DEF checar_restituicoes_retroativas
    <3>2. origin < y
      BY <2>3
    <3>3. origin \notin Closed
      BY <1>1, <3>1, <3>2, <2>3 DEF Open
    <3>. QED BY <1>1, <2>1, <3>2, <3>3
  <2>4. CASE YearOfRefund(j) # y
    <3>1. YearOfRefund(j) \in Closed /\ origin = y
      BY <1>3, <2>1, <2>4
    <3>. QED BY <1>1, <2>2, <3>1
  <2>. QED BY <2>3, <2>4
<1>. QED BY <1>2, <1>3

-------------------------------------------------------------------------------
(* A computation reads the payments and the refunds of its year, and the
   rates of the dates of those payments: nothing else. *)
LEMMA SameComputation ==
  ASSUME CreditTypeOK, CreditTypeOK', NEW y, NEW rates,
         \A p \in PaymentIds : payments'[p].income = payments[p].income,
         \A p \in PaymentIds : YearOfPayment(p) = y =>
           /\ payments'[p] = payments[p]
           /\ RateFor(cache', payments[p].facts.date) = RateFor(rates, payments[p].facts.date),
         \A j \in DOMAIN RefundDrafts : YearOfRefund(j) = y => (j \in refunds' <=> j \in refunds)
  PROVE  compute(y, cache)' = compute(y, rates)
<1>1. Len(payments') = Len(payments)
  BY PaymentsLength DEF CreditTypeOK
<1>2. refunds \subseteq DOMAIN RefundDrafts /\ refunds' \subseteq DOMAIN RefundDrafts
  BY DEF CreditTypeOK
<1>3. ASSUME NEW i \in IncomesOf(y)
      PROVE  /\ gross_brl(i)' = gross_brl(i)
             /\ credit_potential(i, y, cache)' = credit_potential(i, y, rates)
             /\ fineEligible(i, y, cache)' = fineEligible(i, y, rates)
             /\ fineIneligible(i, y, cache)' = fineIneligible(i, y, rates)
  <2>1. PaymentsOf(i)' = PaymentsOf(i)
    BY DEF PaymentsOf
  <2>2. \A p \in PaymentsOf(i) :
          /\ payments'[p] = payments[p]
          /\ RateFor(cache', payments[p].facts.date) = RateFor(rates, payments[p].facts.date)
    BY DEF PaymentsOf, YearOfPayment, IncomesOf
  <2>3. gross_brl(i)' = gross_brl(i)
    <3>. DEFINE f == [p \in PaymentsOf(i) |-> payments[p].facts.usd]
                g == [p \in PaymentsOf(i) |-> payments'[p].facts.usd]
    <3>1. f = g
      BY <2>2
    <3>2. gross_brl(i) = Quantized((Incomes[i].net + Total(f, Len(payments)))
                                   * Incomes[i].fx * Incomes[i].share, 100)
      BY DEF gross_brl
    <3>3. gross_brl(i)' = Quantized((Incomes[i].net + Total(g, Len(payments)))
                                    * Incomes[i].fx * Incomes[i].share, 100)
      BY <1>1, <2>1 DEF gross_brl
    <3>. HIDE DEF f, g
    <3>. QED BY <3>1, <3>2, <3>3
  <2>4. \A p \in PaymentsOf(i) : withheld_brl(p, cache)' = withheld_brl(p, rates)
    BY <2>2 DEF withheld_brl
  <2>5. ASSUME NEW eligible \in BOOLEAN
        PROVE  fineWithheld(i, cache, eligible)' = fineWithheld(i, rates, eligible)
    <3>. DEFINE P == {q \in PaymentsOf(i) : is_eligible(payments[q].facts) = eligible}
                P2 == {q \in PaymentsOf(i) : is_eligible(payments'[q].facts) = eligible}
                f == [p \in P |-> withheld_brl(p, rates)]
                g == [p \in P |-> withheld_brl(p, cache)']
    <3>1. P2 = P
      BY <2>2
    <3>2. f = g
      BY <2>4
    <3>3. fineWithheld(i, rates, eligible) = 100 * Total(f, Len(payments))
      BY DEF fineWithheld
    <3>4. fineWithheld(i, cache, eligible)' = 100 * Total(g, Len(payments))
      <4>1. fineWithheld(i, cache, eligible)'
              = 100 * Total([p \in P2 |-> withheld_brl(p, cache)'], Len(payments'))
        BY <2>1 DEF fineWithheld
      <4>. HIDE DEF P, P2
      <4>. QED BY <1>1, <3>1, <4>1
    <3>. HIDE DEF f, g, P, P2
    <3>. QED BY <3>2, <3>3, <3>4
  <2>6. fineRefund(i, y)' = fineRefund(i, y)
    <3>. DEFINE J == {k \in refunds : RefundDrafts[k].income = i /\ YearOfRefund(k) = y}
                J2 == {k \in refunds' : RefundDrafts[k].income = i /\ YearOfRefund(k) = y}
    <3>1. J2 = J
      BY <1>2
    <3>2. fineRefund(i, y) = Incomes[i].share * Total([j \in J |-> RefundDrafts[j].brl],
                                                      Len(RefundDrafts))
      BY DEF fineRefund
    <3>3. fineRefund(i, y)' = Incomes[i].share * Total([j \in J2 |-> RefundDrafts[j].brl],
                                                       Len(RefundDrafts))
      BY DEF fineRefund, YearOfRefund
    <3>. HIDE DEF J, J2
    <3>. QED BY <3>1, <3>2, <3>3
  <2>7. fineEligible(i, y, cache)' = fineEligible(i, y, rates)
    BY <2>5, <2>6 DEF fineEligible
  <2>8. fineIneligible(i, y, cache)' = fineIneligible(i, y, rates)
    BY <2>5, <2>6 DEF fineIneligible
  <2>9. credit_potential(i, y, cache)' = credit_potential(i, y, rates)
    BY <2>3, <2>7 DEF credit_potential
  <2>. QED BY <2>3, <2>7, <2>8, <2>9
<1>. DEFINE income == [i \in IncomesOf(y) |-> gross_brl(i)]
            income2 == [i \in IncomesOf(y) |-> gross_brl(i)']
            potential == [i \in IncomesOf(y) |-> credit_potential(i, y, rates)]
            potential2 == [i \in IncomesOf(y) |-> credit_potential(i, y, cache)']
<1>4. income2 = income /\ potential2 = potential
  BY <1>3
<1>. DEFINE n == Len(Incomes)
            tax(f) == 100 * Quantized(Larger(Total(f, n) - Losses[y], 0) * 15, 100)
            credit(f, g) == Smaller(Total(g, n), tax(f))
            detail == [i \in IncomesOf(y) |->
                         [gross    |-> gross_brl(i),
                          withheld |-> fineEligible(i, y, rates) + fineIneligible(i, y, rates),
                          used     |-> Used(potential, credit(income, potential))[i]]]
            detail2 == [i \in IncomesOf(y) |->
                         [gross    |-> gross_brl(i)',
                          withheld |-> fineEligible(i, y, cache)' + fineIneligible(i, y, cache)',
                          used     |-> Used(potential2, credit(income2, potential2))[i]]]
<1>5. compute(y, rates) =
        [taxable |-> Larger(Total(income, n) - Losses[y], 0), tax |-> tax(income),
         credit  |-> credit(income, potential),
         due     |-> tax(income) - credit(income, potential), detail |-> detail]
  BY DEF compute
<1>6. compute(y, cache)' =
        [taxable |-> Larger(Total(income2, n) - Losses[y], 0), tax |-> tax(income2),
         credit  |-> credit(income2, potential2),
         due     |-> tax(income2) - credit(income2, potential2), detail |-> detail2]
  BY DEF compute, IncomesOf
<1>7. detail2 = detail
  <2>. HIDE DEF income, income2, potential, potential2, tax, credit
  <2>. QED BY <1>3, <1>4
<1>. HIDE DEF income, income2, potential, potential2, detail, detail2, tax, credit, n
<1>. QED BY <1>4, <1>5, <1>6, <1>7

(* A year is computed with rates that are in the table. *)
ComputedInTime == \A y \in Closed : assessment[y].computed_at \in 0..Len(cache)

LEMMA ComputedInTimeKept ==
  ASSUME CreditTypeOK, LookupsFetched, ComputedInTime, [Next]_creditVars
  PROVE  ComputedInTime'
<1>. SUFFICES ASSUME NEW y \in Closed'
              PROVE  assessment'[y].computed_at \in 0..Len(cache')
  BY DEF ComputedInTime
<1>1. cache \in Seq(PtaxRate) /\ cache' \in Seq(PtaxRate) /\ Extends(cache', cache)
  BY RowsAdded DEF CreditTypeOK
<1>2. Len(cache) \in Nat /\ Len(cache') \in Nat /\ Len(cache) <= Len(cache')
  BY <1>1, CacheRows DEF Extends
<1>3. CASE y \in Closed /\ assessment'[y] = assessment[y]
  BY <1>2, <1>3 DEF ComputedInTime
<1>4. CASE ~ (y \in Closed /\ assessment'[y] = assessment[y])
  <2>1. PICK z \in Years, down \in Outages : CloseYear(z, down) /\ Closed' = Closed \cup {z}
                                            /\ \A x \in Closed : assessment'[x] = assessment[x]
    BY <1>4, AssessmentStep DEF Closed
  <2>2. y = z
    BY <1>4, <2>1
  <2>3. assessment'[y].computed_at = Len(cache')
    BY <2>1, <2>2 DEF CloseYear
  <2>. QED BY <1>2, <2>3
<1>. QED BY <1>3, <1>4

LEMMA ReproducibleKept ==
  ASSUME CreditTypeOK, CreditTypeOK', LookupsFetched, ComputedInTime,
         ClosedCreditReproducible, [Next]_creditVars
  PROVE  ClosedCreditReproducible'
<1>. SUFFICES ASSUME NEW y \in Closed'
              PROVE  \/ AllKnown(y)' /\ compute(y, cache)' = assessment'[y].result
                     \/ \E p \in PaymentIds, k \in assessment'[y].computed_at + 1..Len(cache') :
                          /\ YearOfPayment(p)' = y
                          /\ k \in RowsFor(cache', payments'[p].facts.date, TRUE)
  BY DEF ClosedCreditReproducible
<1>1. cache \in Seq(PtaxRate) /\ cache' \in Seq(PtaxRate) /\ Extends(cache', cache)
  BY RowsAdded DEF CreditTypeOK
<1>2. /\ DOMAIN cache = 1..Len(cache) /\ DOMAIN cache' = 1..Len(cache')
      /\ Len(cache) \in Nat /\ Len(cache') \in Nat /\ Len(cache) <= Len(cache')
      /\ \A k \in DOMAIN cache : cache'[k] = cache[k]
  BY <1>1, CacheRows DEF Extends
<1>3. \A p \in PaymentIds : /\ payments'[p].income = payments[p].income
                            /\ YearOfPayment(p)' = YearOfPayment(p)
  BY PaymentsStep
<1>4. CASE y \in Closed /\ assessment'[y] = assessment[y]
  <2>1. assessment[y].computed_at \in 0..Len(cache)
    BY <1>4 DEF ComputedInTime
  <2>2. \A p \in PaymentIds : YearOfPayment(p) = y => payments'[p] = payments[p]
    BY <1>4, PaymentsStep DEF Open
  <2>3. \A j \in DOMAIN RefundDrafts : YearOfRefund(j) = y => (j \in refunds' <=> j \in refunds)
    BY <1>4, RefundsStep DEF Open
  <2>4. CASE \E p \in PaymentIds, k \in assessment[y].computed_at + 1..Len(cache) :
               YearOfPayment(p) = y /\ k \in RowsFor(cache, payments[p].facts.date, TRUE)
    <3>1. PICK p \in PaymentIds, k \in assessment[y].computed_at + 1..Len(cache) :
               YearOfPayment(p) = y /\ k \in RowsFor(cache, payments[p].facts.date, TRUE)
      BY <2>4
    <3>2. payments'[p] = payments[p] /\ YearOfPayment(p)' = y
      BY <1>3, <2>2, <3>1
    <3>3. k \in DOMAIN cache /\ cache[k].requested = payments[p].facts.date
          /\ cache[k].manually_overridden = TRUE
      BY <3>1 DEF RowsFor
    <3>4. k \in RowsFor(cache', payments'[p].facts.date, TRUE)
      BY <1>2, <3>2, <3>3 DEF RowsFor
    <3>5. k \in assessment'[y].computed_at + 1..Len(cache')
      BY <1>2, <1>4, <2>1, <3>1
    <3>. QED BY <3>2, <3>4, <3>5
  <2>5. CASE AllKnown(y) /\ compute(y, cache) = assessment[y].result
    <3>1. \A p \in PaymentIds : YearOfPayment(p) = y => Known(cache, payments[p].facts.date)
      BY <2>5 DEF AllKnown
    <3>2. AllKnown(y)'
      <4>1. \A p \in PaymentIds : YearOfPayment(p)' = y => Known(cache', payments'[p].facts.date)
        BY <1>1, <1>3, <2>2, <3>1, KnownKept
      <4>. QED BY <4>1 DEF AllKnown
    <3>3. CASE \A p \in PaymentIds : YearOfPayment(p) = y =>
                 RateFor(cache', payments[p].facts.date) = RateFor(cache, payments[p].facts.date)
      <4>1. compute(y, cache)' = compute(y, cache)
        BY <1>3, <2>2, <2>3, <3>3, SameComputation
      <4>. QED BY <1>4, <2>5, <3>2, <4>1
    <3>4. CASE \E p \in PaymentIds : /\ YearOfPayment(p) = y
                 /\ RateFor(cache', payments[p].facts.date) # RateFor(cache, payments[p].facts.date)
      <4>1. PICK p \in PaymentIds : /\ YearOfPayment(p) = y
                 /\ RateFor(cache', payments[p].facts.date) # RateFor(cache, payments[p].facts.date)
        BY <3>4
      <4>2. PICK k \in RowsFor(cache', payments[p].facts.date, TRUE) : k \notin DOMAIN cache
        BY <3>1, <4>1, RateInUseKept
      <4>3. k \in 1..Len(cache') /\ k \notin 1..Len(cache)
        BY <1>2, <4>2 DEF RowsFor
      <4>4. k \in assessment'[y].computed_at + 1..Len(cache')
        BY <1>2, <1>4, <2>1, <4>3
      <4>. QED BY <1>3, <2>2, <4>1, <4>2, <4>4
    <3>. QED BY <3>3, <3>4
  <2>. QED BY <1>4, <2>4, <2>5 DEF ClosedCreditReproducible
<1>5. CASE ~ (y \in Closed /\ assessment'[y] = assessment[y])
  <2>1. PICK z \in Years, down \in Outages : CloseYear(z, down) /\ Closed' = Closed \cup {z}
                                            /\ \A x \in Closed : assessment'[x] = assessment[x]
    BY <1>5, AssessmentStep DEF Closed
  <2>2. CloseYear(y, down)
    BY <1>5, <2>1
  <2>. DEFINE rates == Priced(y, down).cache
  <2>3. /\ cache' = rates /\ payments' = payments /\ refunds' = refunds
        /\ assessment'[y].result = compute(y, rates) /\ Priced(y, down).answered
    BY <2>2 DEF CloseYear, facts
  <2>4. \A p \in PaymentIds : YearOfPayment(p) = y => Known(rates, payments[p].facts.date)
    BY <2>3, PricedRates
  <2>. HIDE DEF rates
  <2>5. AllKnown(y)'
    <3>1. \A p \in PaymentIds : YearOfPayment(p)' = y => Known(cache', payments'[p].facts.date)
      BY <1>3, <2>3, <2>4
    <3>. QED BY <3>1 DEF AllKnown
  <2>6. compute(y, cache)' = compute(y, rates)
    <3>1. \A p \in PaymentIds : YearOfPayment(p) = y =>
            /\ payments'[p] = payments[p]
            /\ RateFor(cache', payments[p].facts.date) = RateFor(rates, payments[p].facts.date)
      BY <2>3
    <3>2. \A j \in DOMAIN RefundDrafts : YearOfRefund(j) = y => (j \in refunds' <=> j \in refunds)
      BY <2>3
    <3>. QED BY <1>3, <3>1, <3>2, SameComputation
  <2>. QED BY <2>3, <2>5, <2>6
<1>. QED BY <1>4, <1>5

-------------------------------------------------------------------------------
(* What a computation returns. *)

(* What is left of a credit after the first n incomes, and what those use of
   it: no more than their potential, and all of the credit when they have
   that much. *)
LEMMA CreditGivenOut ==
  ASSUME NEW potential, DOMAIN potential \subseteq Nat \ {0},
         \A i \in DOMAIN potential : potential[i] \in Nat,
         NEW total \in Nat
  PROVE  /\ DOMAIN Used(potential, total) = DOMAIN potential
         /\ \A i \in DOMAIN potential : Used(potential, total)[i] \in 0..potential[i]
         /\ \A n \in Nat : Total(Used(potential, total), n) = Smaller(total, Total(potential, n))
<1>. DEFINE step == [i \in Nat |-> [left \in Int |->
                       IF i \in DOMAIN potential THEN Larger(left - potential[i], 0) ELSE left]]
            left(n) == Iterate(step, total, n)
            used == Used(potential, total)
<1>1. step \in [Nat -> [Int -> Int]]
  BY DEF Larger
<1>2. \A n \in Nat, l \in Int :
        step[n+1][l] = IF n+1 \in DOMAIN potential THEN Larger(l - potential[n+1], 0) ELSE l
  OBVIOUS
<1>3. \A i \in DOMAIN potential : used[i] = Smaller(potential[i], left(i - 1))
  BY DEF Used, Left
<1>4. DOMAIN used = DOMAIN potential
  BY DEF Used
<1>. HIDE DEF step
<1>5. left(0) = total /\ \A n \in Nat : left(n) \in Int /\ left(n+1) = step[n+1][left(n)]
  <2>. DEFINE S == Int
  <2>1. total \in S /\ step \in Rounds(S)
    BY <1>1 DEF Rounds
  <2>2. 0 \in Nat
    OBVIOUS
  <2>. HIDE DEF S
  <2>3. left(0) = total /\ \A n \in Nat : left(n) \in S /\ left(n+1) = step[n+1][left(n)]
    BY <2>1, <2>2, NextRound
  <2>. QED BY <2>3 DEF S
<1>. HIDE DEF left, used
<1>6. \A n \in Nat : Total(potential, n) \in Nat
  BY TotalNonNegative
<1>7. /\ Total(potential, 0) = 0
      /\ \A n \in Nat : Total(potential, n+1) =
           Total(potential, n) + (IF n+1 \in DOMAIN potential THEN potential[n+1] ELSE 0)
  BY TotalRounds
<1>8. \A n \in Nat : left(n) = Larger(total - Total(potential, n), 0)
  <2>. DEFINE T == {n \in Nat : left(n) = Larger(total - Total(potential, n), 0)}
  <2>1. 0 \in T
    BY <1>5, <1>7 DEF Larger
  <2>2. ASSUME NEW n \in Nat, n \in T
        PROVE  n+1 \in T
    <3>. DEFINE P == Total(potential, n)
    <3>1. left(n) = Larger(total - P, 0) /\ P \in Nat /\ left(n) \in Int
      BY <1>5, <1>6, <2>2
    <3>2. left(n+1) = IF n+1 \in DOMAIN potential THEN Larger(left(n) - potential[n+1], 0)
                      ELSE left(n)
      BY <1>2, <1>5
    <3>3. Total(potential, n+1) = P + (IF n+1 \in DOMAIN potential THEN potential[n+1] ELSE 0)
      BY <1>7
    <3>. HIDE DEF P
    <3>4. left(n+1) = Larger(total - Total(potential, n+1), 0)
      <4>1. CASE n+1 \in DOMAIN potential
        <5>1. potential[n+1] \in Nat
          BY <4>1
        <5>. QED BY <3>1, <3>2, <3>3, <4>1, <5>1 DEF Larger
      <4>2. CASE n+1 \notin DOMAIN potential
        BY <3>1, <3>2, <3>3, <4>2 DEF Larger
      <4>. QED BY <4>1, <4>2
    <3>. QED BY <3>4
  <2>. HIDE DEF T
  <2>3. Nat \subseteq T
    BY <2>1, <2>2, SetInduction
  <2>. QED BY <2>3 DEF T
<1>9. ASSUME NEW i \in DOMAIN potential
      PROVE  used[i] \in 0..potential[i]
  <2>1. i - 1 \in Nat /\ potential[i] \in Nat
    OBVIOUS
  <2>2. left(i - 1) \in Int /\ left(i - 1) >= 0
    BY <1>5, <1>6, <1>8, <2>1 DEF Larger
  <2>. QED BY <1>3, <2>1, <2>2 DEF Smaller
<1>10. /\ Total(used, 0) = 0
       /\ \A n \in Nat : /\ Total(used, n) \in Int
                         /\ Total(used, n+1) =
                              Total(used, n) + (IF n+1 \in DOMAIN used THEN used[n+1] ELSE 0)
  <2>1. \A i \in DOMAIN used : used[i] \in Int
    BY <1>4, <1>9
  <2>. QED BY <2>1, TotalRounds
<1>11. \A n \in Nat : Total(used, n) = Smaller(total, Total(potential, n))
  <2>. DEFINE T == {n \in Nat : Total(used, n) = Smaller(total, Total(potential, n))}
  <2>1. 0 \in T
    BY <1>7, <1>10 DEF Smaller
  <2>2. ASSUME NEW n \in Nat, n \in T
        PROVE  n+1 \in T
    <3>. DEFINE P == Total(potential, n)
                U == Total(used, n)
    <3>1. U = Smaller(total, P) /\ P \in Nat /\ left(n) = Larger(total - P, 0)
      BY <1>6, <1>8, <2>2
    <3>2. Total(potential, n+1) = P + (IF n+1 \in DOMAIN potential THEN potential[n+1] ELSE 0)
      BY <1>7
    <3>3. Total(used, n+1) = U + (IF n+1 \in DOMAIN potential THEN used[n+1] ELSE 0)
      BY <1>4, <1>10
    <3>. HIDE DEF P, U
    <3>4. CASE n+1 \in DOMAIN potential
      <4>1. used[n+1] = Smaller(potential[n+1], left(n)) /\ potential[n+1] \in Nat
        <5>1. (n+1) - 1 = n
          OBVIOUS
        <5>. QED BY <1>3, <3>4, <5>1
      <4>2. Total(used, n+1) = Smaller(total, Total(potential, n+1))
        BY <3>1, <3>2, <3>3, <3>4, <4>1 DEF Smaller, Larger
      <4>. QED BY <4>2
    <3>5. CASE n+1 \notin DOMAIN potential
      <4>1. Total(used, n+1) = Smaller(total, Total(potential, n+1))
        BY <3>1, <3>2, <3>3, <3>5 DEF Smaller
      <4>. QED BY <4>1
    <3>. QED BY <3>4, <3>5
  <2>. HIDE DEF T
  <2>3. Nat \subseteq T
    BY <2>1, <2>2, SetInduction
  <2>. QED BY <2>3 DEF T
<1>. QED BY <1>4, <1>9, <1>11 DEF used

(* The amounts that the computation of an income is made of. *)
LEMMA IncomeAmounts ==
  ASSUME CreditTypeOK, NEW y \in Years, NEW rates \in Seq(PtaxRate),
         \A p \in PaymentIds : YearOfPayment(p) = y => Known(rates, payments[p].facts.date),
         NEW i \in IncomesOf(y)
  PROVE  /\ gross_brl(i) \in Nat /\ Quantized(gross_brl(i) * 15, 100) \in Nat
         /\ fineEligible(i, y, rates) \in Nat /\ fineIneligible(i, y, rates) \in Nat
         /\ credit_potential(i, y, rates) \in Nat
         /\ credit_potential(i, y, rates) <= fineEligible(i, y, rates)
         /\ credit_potential(i, y, rates) <= 100 * Quantized(gross_brl(i) * 15, 100)
<1>1. /\ i \in DOMAIN Incomes /\ Incomes[i].net \in Nat /\ Incomes[i].fx \in Nat
      /\ Incomes[i].share \in Nat /\ Incomes[i].year = y
  <2>1. i \in DOMAIN Incomes /\ Incomes[i].year = y
    BY DEF IncomesOf
  <2>2. Incomes[i].net \in Nat /\ Incomes[i].fx \in Nat /\ Incomes[i].share \in 0..100
    BY <2>1, CreditBounds
  <2>3. 0..100 \subseteq Nat
    OBVIOUS
  <2>. QED BY <2>1, <2>2, <2>3, Zenon
<1>2. \A p \in PaymentsOf(i) : /\ payments[p].facts.usd \in Nat
                               /\ RateFor(rates, payments[p].facts.date) \in Nat
                               /\ payments[p].income = i
  <2>1. \A p \in PaymentsOf(i) : /\ p \in PaymentIds /\ YearOfPayment(p) = y
                                 /\ payments[p].income = i
    BY <1>1 DEF PaymentsOf, YearOfPayment
  <2>. QED BY <2>1, PaymentTypes, RateForNatural
<1>3. gross_brl(i) \in Nat
  <2>. DEFINE f == [p \in PaymentsOf(i) |-> payments[p].facts.usd]
  <2>1. \A p \in DOMAIN f : f[p] \in Nat
    BY <1>2
  <2>2. gross_brl(i) = Quantized((Incomes[i].net + Total(f, Len(payments)))
                                 * Incomes[i].fx * Incomes[i].share, 100)
    BY DEF gross_brl
  <2>. HIDE DEF f
  <2>3. Total(f, Len(payments)) \in Nat
    BY <2>1, PaymentTypes, TotalNonNegative
  <2>. DEFINE received == Incomes[i].net + Total(f, Len(payments))
  <2>4. received \in Nat
    BY <1>1, <2>3
  <2>. HIDE DEF received
  <2>5. received * Incomes[i].fx \in Nat
    BY <1>1, <2>4, ProductNatural
  <2>6. received * Incomes[i].fx * Incomes[i].share \in Nat
    BY <1>1, <2>5, ProductNatural
  <2>. QED BY <2>2, <2>6, CentsNatural DEF received
<1>4. Quantized(gross_brl(i) * 15, 100) \in Nat
  <2>1. gross_brl(i) * 15 \in Nat
    BY <1>3
  <2>. QED BY <2>1, CentsNatural
<1>5. \A p \in PaymentsOf(i) : withheld_brl(p, rates) \in Nat
  <2>. TAKE p \in PaymentsOf(i)
  <2>. DEFINE usd == payments[p].facts.usd
              rate == RateFor(rates, payments[p].facts.date)
  <2>1. withheld_brl(p, rates) = Quantized(usd * rate * Incomes[i].share, 100)
    BY <1>2 DEF withheld_brl
  <2>2. usd \in Nat /\ rate \in Nat
    BY <1>2
  <2>. HIDE DEF usd, rate
  <2>3. usd * rate \in Nat
    BY <2>2, ProductNatural
  <2>4. usd * rate * Incomes[i].share \in Nat
    BY <1>1, <2>3, ProductNatural
  <2>. QED BY <2>1, <2>4, CentsNatural
<1>6. ASSUME NEW eligible \in BOOLEAN
      PROVE  fineWithheld(i, rates, eligible) \in Nat
  <2>. DEFINE f == [p \in {q \in PaymentsOf(i) : is_eligible(payments[q].facts) = eligible} |->
                      withheld_brl(p, rates)]
  <2>1. \A p \in DOMAIN f : f[p] \in Nat
    BY <1>5
  <2>2. fineWithheld(i, rates, eligible) = 100 * Total(f, Len(payments))
    BY DEF fineWithheld
  <2>. HIDE DEF f
  <2>3. Total(f, Len(payments)) \in Nat
    BY <2>1, PaymentTypes, TotalNonNegative
  <2>. QED BY <2>2, <2>3
<1>7. fineRefund(i, y) \in Nat
  <2>. DEFINE f == [j \in {k \in refunds : RefundDrafts[k].income = i /\ YearOfRefund(k) = y} |->
                      RefundDrafts[j].brl]
  <2>1. \A j \in DOMAIN f : f[j] \in Nat
    BY CreditBounds DEF CreditTypeOK
  <2>2. fineRefund(i, y) = Incomes[i].share * Total(f, Len(RefundDrafts))
    BY DEF fineRefund
  <2>. HIDE DEF f
  <2>3. Total(f, Len(RefundDrafts)) \in Nat
    BY <2>1, CreditBounds, TotalNonNegative
  <2>. QED BY <1>1, <2>2, <2>3, ProductNatural
<1>8. fineWithheld(i, rates, TRUE) \in Nat /\ fineWithheld(i, rates, FALSE) \in Nat
  BY <1>6
<1>9. fineEligible(i, y, rates) \in Nat
  BY <1>7, <1>8, LargerNatural, Zenon DEF fineEligible
<1>10. fineIneligible(i, y, rates) \in Nat
  <2>. DEFINE remaining == Larger(fineRefund(i, y) - fineWithheld(i, rates, TRUE), 0)
  <2>2. remaining \in Nat
    BY <1>7, <1>8, LargerNatural, Zenon
  <2>3. fineIneligible(i, y, rates) = Larger(fineWithheld(i, rates, FALSE) - remaining, 0)
    BY DEF fineIneligible
  <2>. HIDE DEF remaining
  <2>. QED BY <1>8, <2>2, <2>3, LargerNatural, Zenon
<1>11. credit_potential(i, y, rates)
         = Smaller(fineEligible(i, y, rates), 100 * Quantized(gross_brl(i) * 15, 100))
  BY DEF credit_potential
<1>. QED BY <1>3, <1>4, <1>9, <1>10, <1>11 DEF Smaller

LEMMA ComputationBounded ==
  ASSUME CreditTypeOK, NEW y \in Years, NEW rates \in Seq(PtaxRate),
         \A p \in PaymentIds : YearOfPayment(p) = y => Known(rates, payments[p].facts.date)
  PROVE  LET a == compute(y, rates)
         IN  /\ 0 <= a.credit /\ a.credit <= a.tax
             /\ Total([i \in DOMAIN a.detail |-> a.detail[i].used], Len(Incomes)) = a.credit
             /\ \A i \in DOMAIN a.detail :
                  /\ a.detail[i].used \in 0..a.detail[i].withheld
                  /\ a.detail[i].used <= 100 * Quantized(a.detail[i].gross * 15, 100)
<1>. DEFINE n == Len(Incomes)
            gross == [i \in IncomesOf(y) |-> gross_brl(i)]
            taxable == Larger(Total(gross, n) - Losses[y], 0)
            tax == 100 * Quantized(taxable * 15, 100)
            potential == [i \in IncomesOf(y) |-> credit_potential(i, y, rates)]
            credit == Smaller(Total(potential, n), tax)
            used == Used(potential, credit)
            detail == [i \in IncomesOf(y) |->
                         [gross    |-> gross_brl(i),
                          withheld |-> fineEligible(i, y, rates) + fineIneligible(i, y, rates),
                          used     |-> used[i]]]
            a == compute(y, rates)
<1>1. a = [taxable |-> taxable, tax |-> tax, credit |-> credit, due |-> tax - credit,
           detail |-> detail]
  BY DEF compute
<1>2. IncomesOf(y) \subseteq Nat \ {0} /\ n \in Nat
  BY CreditBounds DEF IncomesOf
<1>3. \A i \in IncomesOf(y) : gross[i] \in Nat /\ potential[i] \in Nat
  BY IncomeAmounts
<1>4. DOMAIN gross = IncomesOf(y) /\ DOMAIN potential = IncomesOf(y)
      /\ DOMAIN detail = IncomesOf(y)
  OBVIOUS
<1>. HIDE DEF gross, potential
<1>5. Total(gross, n) \in Nat /\ Total(potential, n) \in Nat
  BY <1>2, <1>3, <1>4, TotalNonNegative
<1>6. tax \in Nat
  <2>1. Losses[y] \in Nat
    BY CreditBounds
  <2>2. taxable \in Nat
    BY <1>5, <2>1 DEF Larger
  <2>. HIDE DEF taxable
  <2>3. Quantized(taxable * 15, 100) \in Nat
    BY <2>2, CentsNatural
  <2>. QED BY <2>3
<1>. HIDE DEF tax, n
<1>7. credit \in Nat /\ credit <= tax /\ credit <= Total(potential, n)
  BY <1>5, <1>6 DEF Smaller
<1>. HIDE DEF credit
<1>8. /\ DOMAIN used = IncomesOf(y)
      /\ \A i \in IncomesOf(y) : used[i] \in 0..potential[i]
      /\ Total(used, n) = credit
  <2>1. /\ DOMAIN used = DOMAIN potential
        /\ \A i \in DOMAIN potential : used[i] \in 0..potential[i]
        /\ \A m \in Nat : Total(used, m) = Smaller(credit, Total(potential, m))
    BY <1>2, <1>3, <1>4, <1>7, CreditGivenOut
  <2>2. Total(used, n) = Smaller(credit, Total(potential, n))
    BY <1>2, <2>1
  <2>. QED BY <1>4, <1>5, <1>7, <2>1, <2>2 DEF Smaller
<1>9. [i \in DOMAIN detail |-> detail[i].used] = used
  <2>. DEFINE listed == [i \in DOMAIN detail |-> detail[i].used]
  <2>1. used = [i \in IncomesOf(y) |-> used[i]]
    BY <1>4 DEF Used
  <2>2. \A i \in IncomesOf(y) : detail[i].used = used[i]
    OBVIOUS
  <2>. HIDE DEF used, detail
  <2>. QED BY <1>4, <2>1, <2>2
<1>10. ASSUME NEW i \in IncomesOf(y)
       PROVE  /\ detail[i].used \in 0..detail[i].withheld
              /\ detail[i].used <= 100 * Quantized(detail[i].gross * 15, 100)
  <2>1. detail[i] = [gross    |-> gross_brl(i),
                     withheld |-> fineEligible(i, y, rates) + fineIneligible(i, y, rates),
                     used     |-> used[i]]
    OBVIOUS
  <2>2. potential[i] = credit_potential(i, y, rates)
    BY DEF potential
  <2>3. used[i] \in 0..potential[i]
    BY <1>8
  <2>. HIDE DEF detail, used
  <2>. QED BY <2>1, <2>2, <2>3, IncomeAmounts
<1>. HIDE DEF a, detail, used
<1>. QED BY <1>1, <1>4, <1>7, <1>8, <1>9, <1>10 DEF a, n

LEMMA BoundedKept ==
  ASSUME CreditTypeOK, CreditBounded, [Next]_creditVars
  PROVE  CreditBounded'
<1>. DEFINE Bounded(a) ==
       /\ 0 <= a.credit /\ a.credit <= a.tax
       /\ Total([i \in DOMAIN a.detail |-> a.detail[i].used], Len(Incomes)) = a.credit
       /\ \A i \in DOMAIN a.detail :
            /\ a.detail[i].used \in 0..a.detail[i].withheld
            /\ a.detail[i].used <= 100 * Quantized(a.detail[i].gross * 15, 100)
<1>1. \A y \in Closed : Bounded(assessment[y].result)
  BY DEF CreditBounded
<1>2. ASSUME NEW y \in Closed'
      PROVE  Bounded(assessment'[y].result)
  <2>1. CASE y \in Closed /\ assessment'[y] = assessment[y]
    BY <1>1, <2>1
  <2>2. CASE ~ (y \in Closed /\ assessment'[y] = assessment[y])
    <3>1. PICK z \in Years, down \in Outages : CloseYear(z, down) /\ Closed' = Closed \cup {z}
                                            /\ \A x \in Closed : assessment'[x] = assessment[x]
      BY <2>2, AssessmentStep DEF Closed
    <3>2. y \in Years /\ CloseYear(y, down)
      BY <2>2, <3>1
    <3>3. assessment'[y].result = compute(y, Priced(y, down).cache) /\ Priced(y, down).answered
      BY <3>2 DEF CloseYear
    <3>4. /\ Priced(y, down).cache \in Seq(PtaxRate)
          /\ \A p \in PaymentIds : YearOfPayment(p) = y =>
               Known(Priced(y, down).cache, payments[p].facts.date)
      BY <3>3, PricedRates
    <3>5. Bounded(compute(y, Priced(y, down).cache))
      BY <3>2, <3>4, ComputationBounded
    <3>. HIDE DEF Bounded
    <3>. QED BY <3>3, <3>5
  <2>. QED BY <2>1, <2>2
<1>. QED BY <1>2 DEF CreditBounded, Closed

-------------------------------------------------------------------------------
(* The inductive invariant.  What a closed year recomputes to depends on the
   rates in the table: it is kept only because a screen can store fetched
   rows alone, which come after the rows that answer already, and because
   the snapshot was computed with rows that are still there. *)
CreditSafety ==
  /\ CreditTypeOK
  /\ LookupsFetched
  /\ ComputedInTime
  /\ CreditBounded
  /\ ClosedCreditReproducible
  /\ ClosedPaymentsClassified
  /\ RefundKeepsAYearOpen

LEMMA CreditInit == Init => CreditSafety
<1>. SUFFICES ASSUME Init PROVE CreditSafety
  OBVIOUS
<1>1. CreditTypeOK /\ LookupsFetched
  BY InitTyped
<1>2. Closed = {} /\ refunds = {}
  BY DEF Init, Closed
<1>. QED BY <1>1, <1>2 DEF CreditSafety, ComputedInTime, CreditBounded, ClosedCreditReproducible,
                           ClosedPaymentsClassified, RefundKeepsAYearOpen

LEMMA CreditStep == CreditSafety /\ [Next]_creditVars => CreditSafety'
BY TypesKept, ComputedInTimeKept, BoundedKept, ReproducibleKept, ClassifiedKept, RefundsKept
   DEF CreditSafety

(* Every state the program reaches satisfies the invariant, whatever the
   calendar, the quotes, the incomes, the payments and the refunds, and
   however many screens look up rates at a time. *)
THEOREM CreditAlwaysSafe == Spec => []CreditSafety
BY CreditInit, CreditStep, PTL DEF Spec

(* Types: rows of the table and of the screens, payments of recorded incomes,
   assessments of known years. *)
THEOREM CreditTyped == Spec => []CreditTypeOK
<1>1. CreditSafety => CreditTypeOK
  BY DEF CreditSafety
<1>. QED BY <1>1, CreditAlwaysSafe, PTL

(* TaxEngine.compute never gives more credit than tax, than was withheld and
   not refunded, or than 15% of an income, and what the incomes use adds up
   to the credit of the year. *)
THEOREM CreditIsBounded == Spec => []CreditBounded
<1>1. CreditSafety => CreditBounded
  BY DEF CreditSafety
<1>. QED BY <1>1, CreditAlwaysSafe, PTL

(* The snapshot of a closed year is what TaxEngine.compute returns now, with
   the rates of now, unless a rate was entered for a payment of it since. *)
THEOREM ClosedCreditRecomputes == Spec => []ClosedCreditReproducible
<1>1. CreditSafety => ClosedCreditReproducible
  BY DEF CreditSafety
<1>. QED BY <1>1, CreditAlwaysSafe, PTL

(* No payment of a year still needs the classification that
   checar_credito_exterior asks for as long as the year is closed. *)
THEOREM ClosedYearsClassified == Spec => []ClosedPaymentsClassified
<1>1. CreditSafety => ClosedPaymentsClassified
  BY DEF CreditSafety
<1>. QED BY <1>1, CreditAlwaysSafe, PTL

(* No order of closings, reopenings and refunds closes both the year of an
   income and a later year that an active refund of it is in. *)
THEOREM RefundsKeepAYearOpen == Spec => []RefundKeepsAYearOpen
<1>1. CreditSafety => RefundKeepsAYearOpen
  BY DEF CreditSafety
<1>. QED BY <1>1, CreditAlwaysSafe, PTL

(* PtaxService.get_rate answers a date with the same rate as long as the user
   enters no rate for it, whatever any number of screens fetch in between. *)
THEOREM RateStaysInUse == Spec => RateInUseStable
<1>. DEFINE Stable == \A d \in Dates : Known(cache, d) =>
              /\ Known(cache', d)
              /\ RateFor(cache', d) # RateFor(cache, d) =>
                   /\ Open(CalendarYear[d])
                   /\ RowsFor(cache', d, TRUE) # RowsFor(cache, d, TRUE)
<1>1. CreditSafety /\ [Next]_creditVars => [Stable]_creditVars
  <2>. SUFFICES ASSUME CreditSafety, [Next]_creditVars, NEW d \in Dates, Known(cache, d)
                PROVE  /\ Known(cache', d)
                       /\ RateFor(cache', d) # RateFor(cache, d) =>
                            /\ Open(CalendarYear[d])
                            /\ RowsFor(cache', d, TRUE) # RowsFor(cache, d, TRUE)
    OBVIOUS
  <2>1. RowsFor(cache, d, TRUE) \subseteq DOMAIN cache
    BY DEF RowsFor
  <2>. QED BY <2>1, RateInUseKept DEF CreditSafety
<1>. HIDE DEF Stable
<1>2. Spec => [][Stable]_creditVars
  BY <1>1, CreditAlwaysSafe, PTL DEF Spec
<1>. QED BY <1>2 DEF RateInUseStable, Stable
================================================================================
