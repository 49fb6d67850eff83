------------------------------ MODULE ForeignTax ------------------------------
(***************************************************************************)
(* Tax paid abroad and the credit it gives: the payments and their audited *)
(* corrections, refunds, the rates they are priced at and the credit that  *)
(* a closed year keeps, after ledger/foreign_tax_forms.py, foreign_tax.py, *)
(* engine.py, validator.py and fx/service.py.                              *)
(*                                                                         *)
(*   cache      the rates of purchase (module Ptax)                        *)
(*   lookup     the row each screen is about to store: fetching a rate     *)
(*              takes long, and a screen has no transaction                *)
(*   payments   ForeignTaxPayment in id order                              *)
(*   untold     the payments altered without a ForeignTaxPaymentAudit row  *)
(*   refunds    the WITHHOLDING_REFUND events that are active              *)
(*   assessment AnnualAssessment of the closed years; the rates stored by  *)
(*              then stand for the time it was computed at                 *)
(*                                                                         *)
(* The incomes are recorded and stay as they are, as do the losses that    *)
(* are set against them (module AnnualClosing is about those).  BRL        *)
(* amounts are cents, the ones named `fine' hundredths of a cent.          *)
(***************************************************************************)
EXTENDS Ptax

CONSTANTS
  Incomes,       \* the incomes, in the order the engine takes them
  Losses,        \* the losses available in each year
  PaymentDrafts, \* what may be declared of a payment
  Payments0,     \* the payments recorded with the incomes
  RefundDrafts,  \* the refunds that may be recorded
  Outages,       \* the dates for which the central bank may fail to answer
  Screens,       \* the screens that may be looking up rates
  MaxRates       \* bound on the rates stored

Years == DOMAIN Losses
PaymentIds == DOMAIN Payments0

Facts == [usd: Nat \ {0}, date: Dates, country: {"US", "DE"},
          jurisdiction: {"FEDERAL", "STATE", "UNKNOWN"},
          tax_type: {"WITHHOLDING_INCOME_TAX", "OTHER", "UNKNOWN"},
          evidence: {"BROKER_STATEMENT", "UNKNOWN"},
          recoverability: {"NON_RECOVERABLE", "RECOVERABLE", "UNKNOWN"}]

ASSUME ForeignTaxAssumption ==
  /\ MaxRates \in Nat /\ Losses \in [Years -> Nat] /\ Years \subseteq Nat
  /\ Incomes \in Seq([year: Years, net: Nat, fx: Nat, share: 0..100])
  /\ PaymentDrafts \subseteq Facts
  /\ Payments0 \in Seq([income: DOMAIN Incomes, facts: Facts])
  /\ Outages \subseteq SUBSET Published
  /\ RefundDrafts \in Seq([income: DOMAIN Incomes, date: Dates, brl: Nat])

VARIABLES cache, lookup, payments, untold, refunds, assessment

facts == <<payments, untold, refunds>>
creditVars == <<cache, lookup, facts, assessment>>

Closed == DOMAIN assessment
Open(year) == year \notin Closed

NoRow == [requested |-> 0]
NoRate == 0

-------------------------------------------------------------------------------
(* The credit, after ForeignTaxCreditService and TaxEngine.compute. *)

(* Facts that nobody has classified yet. *)
exige_classificacao(f) ==
  "UNKNOWN" \in {f.jurisdiction, f.tax_type, f.evidence, f.recoverability}

is_eligible(f) ==
  /\ ~ exige_classificacao(f)
  /\ f.recoverability # "RECOVERABLE"
  /\ f.jurisdiction = "FEDERAL"
  /\ f.country = "US"
  /\ f.tax_type = "WITHHOLDING_INCOME_TAX"

PaymentsOf(i) == {p \in PaymentIds : payments[p].income = i}
IncomesOf(year) == {i \in DOMAIN Incomes : Incomes[i].year = year}

(* The gross income: what was received and what was withheld from it. *)
gross_brl(i) ==
  LET withheld == Total([p \in PaymentsOf(i) |-> payments[p].facts.usd], Len(payments))
  IN  Quantized((Incomes[i].net + withheld) * Incomes[i].fx * Incomes[i].share, 100)

(* The tax of a payment at the rate of its own date. *)
withheld_brl(p, rates) ==
  LET f == payments[p].facts
  IN  Quantized(f.usd * RateFor(rates, f.date) * Incomes[payments[p].income].share, 100)

fineWithheld(i, rates, eligible) ==
  100 * Total([p \in {q \in PaymentsOf(i) : is_eligible(payments[q].facts) = eligible} |->
                 withheld_brl(p, rates)], Len(payments))

YearOfRefund(j) == CalendarYear[RefundDrafts[j].date]

fineRefund(i, year) ==
  Incomes[i].share *
    Total([j \in {k \in refunds : RefundDrafts[k].income = i /\ YearOfRefund(k) = year} |->
             RefundDrafts[j].brl], Len(RefundDrafts))

(* The refunds of the year come off the eligible tax first. *)
fineEligible(i, year, rates) ==
  Larger(fineWithheld(i, rates, TRUE) - fineRefund(i, year), 0)

fineIneligible(i, year, rates) ==
  LET remaining == Larger(fineRefund(i, year) - fineWithheld(i, rates, TRUE), 0)
  IN  Larger(fineWithheld(i, rates, FALSE) - remaining, 0)

(* At most 15% of the income. *)
credit_potential(i, year, rates) ==
  Smaller(fineEligible(i, year, rates), 100 * Quantized(gross_brl(i) * 15, 100))

(* Mutant: every income gives its potential. *)
UsedWithoutLimit(potential, total) == potential

(* The credit of the year is given out in the order of the incomes: what is
   left of it after the first n, and what each of them uses. *)
Left(potential, total, n) ==
  Iterate([i \in Nat |-> [left \in Int |->
             IF i \in DOMAIN potential THEN Larger(left - potential[i], 0) ELSE left]],
          total, n)

Used(potential, total) ==
  [i \in DOMAIN potential |-> Smaller(potential[i], Left(potential, total, i - 1))]

compute(year, rates) ==
  LET n         == Len(Incomes)
      income    == Total([i \in IncomesOf(year) |-> gross_brl(i)], n)
      taxable   == Larger(income - Losses[year], 0)
      tax       == 100 * Quantized(taxable * 15, 100)
      potential == [i \in IncomesOf(year) |-> credit_potential(i, year, rates)]
      credit    == Smaller(Total(potential, n), tax)
      used      == Used(potential, credit)
  IN  [taxable |-> taxable, tax |-> tax, credit |-> credit, due |-> tax - credit,
       detail  |-> [i \in IncomesOf(year) |->
                      [gross    |-> gross_brl(i),
                       withheld |-> fineEligible(i, year, rates) + fineIneligible(i, year, rates),
                       used     |-> used[i]]]]

(* The computation looks up the rate of every payment of the year in turn;
   the first error ends it. *)
Priced(year, down) ==
  Iterate([p \in Nat |-> [before \in [cache: Seq(PtaxRate), answered: BOOLEAN] |->
             IF p \in PaymentIds /\ before.answered /\ payments[p].income \in IncomesOf(year)
             THEN get_rate(before.cache, payments[p].facts.date, down) ELSE before]],
          [cache |-> cache, answered |-> TRUE], Len(payments))

-------------------------------------------------------------------------------
(* Rates. *)

(* A screen asks for a rate.  One that is known, or that nobody quotes,
   changes nothing; another one is fetched. *)
AskRate(s, date, down) ==
  /\ lookup[s] = NoRow
  /\ ~ Known(cache, date) /\ Quoted(date, down) # {}
  /\ Len(cache) < MaxRates
  /\ lookup' = [lookup EXCEPT ![s] = Fetched(date, down)]
  /\ UNCHANGED <<cache, facts, assessment>>

(* Mutant: the row that is there is replaced. *)
StoreRateReplacing(s) ==
  /\ lookup[s] # NoRow
  /\ cache' = Append(SelectSeq(cache, LAMBDA row : row.effective # lookup[s].effective),
                     lookup[s])
  /\ lookup' = [lookup EXCEPT ![s] = NoRow]
  /\ UNCHANGED <<facts, assessment>>

(* It is stored, or the screen fails on the unique constraint. *)
StoreRate(s) ==
  /\ lookup[s] # NoRow
  /\ cache' = Stored(cache, lookup[s])
  /\ lookup' = [lookup EXCEPT ![s] = NoRow]
  /\ UNCHANGED <<facts, assessment>>

-------------------------------------------------------------------------------
(* Payments and refunds. *)

YearOfPayment(p) == Incomes[payments[p].income].year

(* Mutants: the year of the payment is guarded instead of the income's; the
   form makes a new row that belongs to no income. *)
EditPaymentOfItsYear(p, new) ==
  /\ Open(CalendarYear[payments[p].facts.date])
  /\ payments' = [payments EXCEPT ![p].facts = new]
  /\ UNCHANGED <<cache, lookup, untold, refunds, assessment>>

EditPaymentAsNew(p, new) ==
  /\ Open(YearOfPayment(p))
  /\ payments' = [payments EXCEPT ![p] = [income |-> 0, facts |-> new]]
  /\ UNCHANGED <<cache, lookup, untold, refunds, assessment>>

(* ForeignTaxPaymentForm.save without a manual rate. *)
EditPayment(p, new) ==
  /\ Open(YearOfPayment(p))
  /\ payments' = [payments EXCEPT ![p].facts = new]
  /\ UNCHANGED <<cache, lookup, untold, refunds, assessment>>

(* With one: the payment is saved, the rate in force is looked up, the
   manual one is stored unless the year of its date is closed, and only
   then is the audit row written. *)
EditPaymentAndRate(p, new, rate, down) ==
  LET before   == get_rate(cache, new.date, down)
      accepted == before.answered /\ Open(CalendarYear[new.date])
  IN  /\ Open(YearOfPayment(p))
      /\ Len(cache) + 1 < MaxRates
      /\ payments' = [payments EXCEPT ![p].facts = new]
      /\ untold' = IF accepted \/ new = payments[p].facts THEN untold ELSE untold \cup {p}
      /\ cache' = IF accepted THEN Append(before.cache, ManualRow(new.date, rate))
                              ELSE before.cache
      /\ UNCHANGED <<lookup, refunds, assessment>>

(* EventService.record of a WITHHOLDING_REFUND: of the year it is traded in. *)
RecordRefund(j) ==
  /\ j \notin refunds
  /\ Open(YearOfRefund(j))
  /\ refunds' = refunds \cup {j}
  /\ UNCHANGED <<cache, lookup, payments, untold, assessment>>

DeactivateRefund(j) ==
  /\ j \in refunds
  /\ Open(YearOfRefund(j))
  /\ refunds' = refunds \ {j}
  /\ UNCHANGED <<cache, lookup, payments, untold, assessment>>

-------------------------------------------------------------------------------
(* Closing. *)

(* Mutant: only a refund of an income that is still to come is refused. *)
restituicoes_de_anos_posteriores(year) ==
  \A j \in refunds : YearOfRefund(j) = year => Incomes[RefundDrafts[j].income].year <= year

(* No refund of the year is of an income of an earlier year that is closed. *)
checar_restituicoes_retroativas(year) ==
  \A j \in refunds :
    LET origin == Incomes[RefundDrafts[j].income].year
    IN  YearOfRefund(j) = year => origin >= year \/ Open(origin)

(* Mutant: whether the tax can be recovered is left out. *)
credito_sem_recuperabilidade(year) ==
  \A p \in PaymentIds :
    YearOfPayment(p) = year =>
      "UNKNOWN" \notin {payments[p].facts.jurisdiction, payments[p].facts.tax_type}

(* Every payment of the year is classified. *)
checar_credito_exterior(year) ==
  \A p \in PaymentIds : YearOfPayment(p) = year => ~ exige_classificacao(payments[p].facts)

(* CloseYearView: the rates it fetches stay only if the year is closed. *)
CloseYear(year, down) ==
  LET priced == Priced(year, down)
  IN  /\ Open(year)
      /\ checar_restituicoes_retroativas(year)
      /\ checar_credito_exterior(year)
      /\ \A y \in Closed : y <= year
      /\ priced.answered /\ Len(priced.cache) <= MaxRates
      /\ cache' = priced.cache
      /\ assessment' = [y \in Closed \cup {year} |->
            IF y = year THEN [result      |-> compute(year, priced.cache),
                              computed_at |-> Len(priced.cache)]
                        ELSE assessment[y]]
      /\ UNCHANGED <<lookup, facts>>

ReopenYear(year) ==
  /\ year \in Closed
  /\ \A y \in Closed : y <= year
  /\ assessment' = [y \in Closed \ {year} |-> assessment[y]]
  /\ UNCHANGED <<cache, lookup, facts>>

Init ==
  /\ cache = <<>>
  /\ lookup = [s \in Screens |-> NoRow]
  /\ payments = Payments0
  /\ untold = {}
  /\ refunds = {}
  /\ assessment = [y \in {} |-> <<>>]

Next ==
  \/ \E s \in Screens, d \in Dates, down \in Outages : AskRate(s, d, down)
  \/ \E s \in Screens : StoreRate(s)
  \/ \E p \in PaymentIds, new \in PaymentDrafts : EditPayment(p, new)
  \/ \E p \in PaymentIds, new \in PaymentDrafts, rate \in ManualRates, down \in Outages :
       EditPaymentAndRate(p, new, rate, down)
  \/ \E j \in DOMAIN RefundDrafts : RecordRefund(j) \/ DeactivateRefund(j)
  \/ \E y \in Years, down \in Outages : CloseYear(y, down)
  \/ \E y \in Years : ReopenYear(y)

Spec == Init /\ [][Next]_creditVars

-------------------------------------------------------------------------------
(* Type invariant. *)
CreditTypeOK ==
  /\ cache \in Seq(PtaxRate)
  /\ lookup \in [Screens -> PtaxRate \cup {NoRow}]
  /\ payments \in [PaymentIds -> [income: DOMAIN Incomes, facts: Facts]]
  /\ untold \subseteq PaymentIds
  /\ refunds \subseteq DOMAIN RefundDrafts
  /\ Closed \subseteq Years

(* The credit of a closed year is no more than its tax, and it is made up of
   what each income gives: no more than was withheld and not refunded, and
   no more than 15% of the income, after losses, refunds and the order in
   which the limit of the year runs out. *)
CreditBounded ==
  \A y \in Closed :
    LET a == assessment[y].result
    IN  /\ 0 <= a.credit /\ a.credit <= a.tax
        /\ Total([i \in DOMAIN a.detail |-> a.detail[i].used], Len(Incomes)) = a.credit
        /\ \A i \in DOMAIN a.detail :
             /\ a.detail[i].used \in 0..a.detail[i].withheld
             /\ a.detail[i].used <= 100 * Quantized(a.detail[i].gross * 15, 100)

(* A rate that has been answered for a date is answered again, whatever is
   fetched for other dates and at the same time, until the user enters one
   for that date, which takes its year to be open. *)
RateInUseStable ==
  [][\A d \in Dates : Known(cache, d) =>
       /\ Known(cache', d)
       /\ RateFor(cache', d) # RateFor(cache, d) =>
            /\ Open(CalendarYear[d])
            /\ RowsFor(cache', d, TRUE) # RowsFor(cache, d, TRUE)]_creditVars

AllKnown(year) ==
  \A p \in PaymentIds : YearOfPayment(p) = year => Known(cache, payments[p].facts.date)

(* A closed year recomputes to its snapshot, without asking for a rate, unless
   the user has entered, since it was closed, a rate for the date of one of
   its payments.  (That is possible when the date is in a later year that is
   open: a rate is guarded by the year of its date, not by those it prices.) *)
ClosedCreditReproducible ==
  \A y \in Closed :
    \/ AllKnown(y) /\ compute(y, cache) = assessment[y].result
    \/ \E p \in PaymentIds, k \in assessment[y].computed_at + 1..Len(cache) :
         /\ YearOfPayment(p) = y
         /\ k \in RowsFor(cache, payments[p].facts.date, TRUE)

(* No closed year has a payment that nobody has classified: what the closing
   checked is not undone while it is closed. *)
ClosedPaymentsClassified ==
  \A p \in PaymentIds : YearOfPayment(p) \in Closed => ~ exige_classificacao(payments[p].facts)

(* A refund of an income of an earlier year keeps one of the two years open:
   they are never both closed while it is active, in whatever order they are
   closed and reopened.  The retification the check asks for does not help. *)
RefundKeepsAYearOpen ==
  \A j \in refunds :
    LET origin == Incomes[RefundDrafts[j].income].year
    IN  origin < YearOfRefund(j) => ~ {origin, YearOfRefund(j)} \subseteq Closed

(* What the form says: the alteration of a payment is registered in the
   audit trail.  It fails when the rate that comes with it is refused or the
   rate before it cannot be fetched. *)
AlterationsAudited == untold = {}

(* While the central bank answers, a date it has a quote for is answered.
   It fails: the row of a Friday that was fetched for the Saturday is in the
   way of the Friday's own. *)
QuotedRateServed ==
  \A d \in Dates : Quoted(d, {}) # {} => get_rate(cache, d, {}).answered
===============================================================================
