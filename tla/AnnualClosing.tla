---------------------------- MODULE AnnualClosing ----------------------------
(***************************************************************************)
(* The annual closing: financial events, the loss ledger and the snapshots *)
(* of closed years, with the handlers that change them.  Each handler is   *)
(* one action: it runs alone here (module EventRequests lets the steps of  *)
(* two requests interleave).                                               *)
(*                                                                         *)
(*   events     FinancialEvent, in id order                                *)
(*   openings   OpeningPosition                                            *)
(*   loss, comp LossRecord and LossCompensation (module LossLedger)        *)
(*   lastLossId the last id given to a LossRecord                          *)
(*   assessment AnnualAssessment: a year is closed when it has a row       *)
(***************************************************************************)
EXTENDS LossLedger

CONSTANTS
  LastYear,      \* the years with a confirmed TaxRule are 1..LastYear
  Accounts,      \* brokerage accounts, one asset in each
  Share,         \* ownership_share of each account, in percent
  Drafts,        \* what the forms and the importer may submit as an event
  OpeningDrafts, \* what the opening-position form may submit
  Openings0,     \* the opening positions there are at first
  MaxEvents,     \* bound on the number of events
  MaxAmount      \* the largest amount that fits a column, in cents

Years == 1..LastYear
EventIds == 1..MaxEvents
Amounts == -MaxAmount..MaxAmount

Types == {"BUY", "SELL", "DIVIDEND"}

OpeningPositions == [account: Accounts, date: Nat, qty: Nat, cost: Nat]

(* taxFactsValid: whether the withheld tax the draft declares, if any, makes
   a valid ForeignTaxPayment. *)
DraftEvents == [type: Types, account: Accounts, trade: Nat, receipt: Nat,
                qty: Nat, brl: Nat, taxFactsValid: BOOLEAN]

ASSUME BoundsAssumption ==
  /\ LastYear \in Nat /\ MaxEvents \in Nat /\ MaxAmount \in Nat

(* The date that stands for no limit comes after every year. *)
ASSUME ForeverAssumption == 100 * LastYear + 99 <= Forever

ASSUME InputsAssumption ==
  /\ Share \in [Accounts -> 0..100]
  /\ Openings0 \subseteq OpeningPositions /\ OpeningDrafts \subseteq OpeningPositions
  /\ Drafts \subseteq DraftEvents
  /\ \A d \in Drafts : YearOf(d.trade) \in Years /\ YearOf(d.receipt) \in Years

VARIABLES events, openings, loss, comp, lastLossId, assessment

vars == <<events, openings, loss, comp, lastLossId, assessment>>

Event == [type: Types, account: Accounts, trade: Nat, receipt: Nat,
          qty: Nat, brl: Nat, active: BOOLEAN, corrects: 0..MaxEvents]

LossRecord == [id: Nat, amount: Amounts, remaining: Amounts]

Snapshot == [income: Amounts, loss: Amounts, taxable: Amounts, carryforward: Amounts]

Closed == DOMAIN assessment

(* assert_fiscal_year_open *)
Open(year) == year \notin Closed

-------------------------------------------------------------------------------
(* The tax computation of a year, TaxEngine.compute: nothing is written. *)

Attributed(account, brl) == Quantized(brl * Share[account], 100)

Sales(year) ==
  {i \in DOMAIN events : /\ events[i].active /\ events[i].type = "SELL"
                         /\ YearOf(events[i].trade) = year}

Incomes(year) ==
  {i \in DOMAIN events : /\ events[i].active /\ events[i].type = "DIVIDEND"
                         /\ YearOf(events[i].receipt) = year}

resultados_alienacao(year) ==
  [i \in Sales(year) |-> Attributed(events[i].account, realized(events, openings, i))]

(* Losses of the earlier years: the balances of the ledger when the year
   begins or, when the ledger knows no loss of an earlier year, what the
   snapshot of the year before carries forward. *)
loss_inherited(year) ==
  IF open_records_at_start_of(events, loss, comp, year) # {}
  THEN available_at_start_of(events, loss, comp, year)
  ELSE IF (\E e \in DOMAIN loss : Origin(events, e) <= year - 1) \/ Open(year - 1)
       THEN 0
       ELSE assessment[year - 1].carryforward

compute(year) ==
  LET gain   == resultados_alienacao(year)
      income == Total([i \in Sales(year) |-> Larger(gain[i], 0)], Len(events))
                + Total([i \in Incomes(year) |->
                           Attributed(events[i].account, events[i].brl)], Len(events))
      losses == Total([i \in Sales(year) |-> Larger(-gain[i], 0)], Len(events))
      available == losses + loss_inherited(year)
  IN  [income       |-> income,
       loss         |-> losses,
       taxable      |-> Larger(income - available, 0),
       carryforward |-> Larger(available - income, 0)]

-------------------------------------------------------------------------------
(* Handlers of the ledger. *)

NewEvent(d, original) ==
  [type |-> d.type, account |-> d.account, trade |-> d.trade, receipt |-> d.receipt,
   qty |-> d.qty, brl |-> d.brl, active |-> TRUE, corrects |-> original]

(* The checks of EventService.record before it writes anything: the year of
   the new event is open, and a sale finds its units in the custody of all
   dates, in which an event under correction still counts. *)
Admitted(d) ==
  /\ Len(events) < MaxEvents
  /\ Open(ano_fiscal_de(d))
  /\ d.type = "SELL" => position(events, openings, d.account) >= d.qty

RecordEvent(d) ==
  /\ Admitted(d)
  /\ d.taxFactsValid
  /\ events' = Append(events, NewEvent(d, 0))
  /\ UNCHANGED <<openings, loss, comp, lastLossId, assessment>>

(* A correction deactivates the original and commits, then creates the
   substitute; when the tax facts are not valid the second part fails. *)
CorrectEvent(i, d) ==
  LET deactivated == [events EXCEPT ![i].active = FALSE]
  IN  /\ events[i].active
      /\ Admitted(d)
      /\ Open(ano_fiscal_de(events[i]))
      /\ events' = IF d.taxFactsValid THEN Append(deactivated, NewEvent(d, i))
                                      ELSE deactivated
      /\ UNCHANGED <<openings, loss, comp, lastLossId, assessment>>

(* Mutant: the year of an income is taken from its trade date. *)
DeactivateEventOfTradeYear(i) ==
  /\ events[i].active
  /\ Open(YearOf(events[i].trade))
  /\ events' = [events EXCEPT ![i].active = FALSE]
  /\ UNCHANGED <<openings, loss, comp, lastLossId, assessment>>

DeactivateEvent(i) ==
  /\ events[i].active
  /\ Open(ano_fiscal_de(events[i]))
  /\ events' = [events EXCEPT ![i].active = FALSE]
  /\ UNCHANGED <<openings, loss, comp, lastLossId, assessment>>

(* Mutant: only the years after the reference date are looked up. *)
SaveOpeningOfClosedYear(o) ==
  /\ \A y \in Closed : y <= YearOf(o.date)
  /\ \A p \in openings : p.account # o.account \/ p.date # o.date
  /\ openings' = openings \cup {o}
  /\ UNCHANGED <<events, loss, comp, lastLossId, assessment>>

(* OpeningPosition.save: no year from the reference date on is closed, and
   the account has no opening of the same date. *)
SaveOpening(o) ==
  /\ \A y \in Closed : y < YearOf(o.date)
  /\ \A p \in openings : p.account # o.account \/ p.date # o.date
  /\ openings' = openings \cup {o}
  /\ UNCHANGED <<events, loss, comp, lastLossId, assessment>>

-------------------------------------------------------------------------------
(* Handlers of the closing. *)

(* Every sale of the year finds its units in the custody of its date. *)
checar_vendas_acima_da_custodia(year) ==
  \A i \in Sales(year) : events[i].qty <= custody_before(events, openings, i)

(* Mutants: the closing relies on the year being open, so that nothing has to
   go back to the ledger first or no snapshot is there to be replaced. *)
CloseTransactionReturningNothing(year) ==
  LET result == compute(year)
      gain   == resultados_alienacao(year)
      synced == Synced(events, loss, comp, gain, year, lastLossId)
  IN  /\ checar_vendas_acima_da_custodia(year)
      /\ ~ SyncBlocked(loss, comp, gain)
      /\ \A y \in Closed : y <= year
      /\ loss' = Consumed(events, synced, year, result.income)
      /\ comp' = Compensated(events, synced, comp, year, result.income)
      /\ lastLossId' = lastLossId + Cardinality(NewLosses(loss, gain))
      /\ assessment' = [y \in Closed \cup {year} |-> IF y = year THEN result ELSE assessment[y]]
      /\ UNCHANGED <<events, openings>>

CloseTransactionKeepingSnapshot(year) ==
  LET result  == compute(year)
      gain    == resultados_alienacao(year)
      cleared == Cleared(comp, year)
      synced  == Synced(events, Returned(loss, comp, year), cleared, gain, year, lastLossId)
  IN  /\ checar_vendas_acima_da_custodia(year)
      /\ ~ SyncBlocked(loss, cleared, gain)
      /\ \A y \in Closed : y <= year
      /\ loss' = Consumed(events, synced, year, result.income)
      /\ comp' = Compensated(events, synced, cleared, year, result.income)
      /\ lastLossId' = lastLossId + Cardinality(NewLosses(loss, gain))
      /\ assessment' = [y \in Closed \cup {year} |-> IF y \in Closed THEN assessment[y] ELSE result]
      /\ UNCHANGED <<events, openings>>

(* The transaction of CloseYearView: the checks, the computation, the update
   of the loss ledger and the snapshot.  A sync or a compensation that fails,
   or a value that does not fit its column, undoes it all. *)
CloseTransaction(year) ==
  LET result   == compute(year)
      gain     == resultados_alienacao(year)
      cleared  == Cleared(comp, year)
      synced   == Synced(events, Returned(loss, comp, year), cleared, gain, year, lastLossId)
      consumed == Consumed(events, synced, year, result.income)
  IN  /\ checar_vendas_acima_da_custodia(year)
      /\ ~ SyncBlocked(loss, cleared, gain)
      /\ \A y \in Closed : y <= year
      /\ result \in Snapshot
      /\ synced \in [DOMAIN synced -> LossRecord]
      /\ loss' = consumed
      /\ comp' = Compensated(events, synced, cleared, year, result.income)
      /\ lastLossId' = lastLossId + Cardinality(NewLosses(loss, gain))
      /\ assessment' = [y \in Closed \cup {year} |-> IF y = year THEN result ELSE assessment[y]]
      /\ UNCHANGED <<events, openings>>

(* CloseYearView: a year that is closed is not closed again. *)
CloseYear(year) == Open(year) /\ CloseTransaction(year)

(* Mutant: the snapshot goes, the compensations of the year stay. *)
ReopenTransactionOfSnapshot(year) ==
  /\ assessment' = [y \in Closed \ {year} |-> assessment[y]]
  /\ UNCHANGED <<events, openings, loss, comp, lastLossId>>

(* The transaction of ReopenYearView: the compensations of the year go back
   to their records and the snapshot is deleted. *)
ReopenTransaction(year) ==
  /\ loss' = Returned(loss, comp, year)
  /\ comp' = Cleared(comp, year)
  /\ assessment' = [y \in Closed \ {year} |-> assessment[y]]
  /\ UNCHANGED <<events, openings, lastLossId>>

(* ReopenYearView: not while a later year is closed. *)
ReopenYear(year) ==
  /\ \A y \in Closed : y <= year
  /\ ReopenTransaction(year)

-------------------------------------------------------------------------------
Init ==
  /\ events = <<>>
  /\ openings = Openings0
  /\ loss = [e \in {} |-> <<>>]
  /\ comp = [e \in EventIds |-> [y \in Years |-> 0]]
  /\ lastLossId = 0
  /\ assessment = [y \in {} |-> <<>>]

Next ==
  \/ \E d \in Drafts : RecordEvent(d)
  \/ \E i \in DOMAIN events, d \in Drafts : CorrectEvent(i, d)
  \/ \E i \in DOMAIN events : DeactivateEvent(i)
  \/ \E o \in OpeningDrafts : SaveOpening(o)
  \/ \E y \in Years : CloseYear(y)
  \/ \E y \in Years : ReopenYear(y)

Spec == Init /\ [][Next]_vars

-------------------------------------------------------------------------------
(* Type invariant: every row fits the columns of its table, and a LossRecord
   points to an event that exists. *)
TypeOK ==
  /\ events \in Seq(Event) /\ Len(events) <= MaxEvents
  /\ openings \subseteq OpeningPositions
  /\ DOMAIN loss \subseteq DOMAIN events /\ loss \in [DOMAIN loss -> LossRecord]
  /\ comp \in [EventIds -> [Years -> 0..MaxAmount]]
  /\ lastLossId \in Nat
  /\ Closed \subseteq Years /\ assessment \in [Closed -> Snapshot]

(* A loss is spent once: what remains of a LossRecord and all that was
   compensated with it make up its amount, over any sequence of closings,
   reopenings and corrections (remaining_brl is kept by increments). *)
LossConservation ==
  \A e \in DOMAIN loss :
    /\ loss[e].remaining >= 0
    /\ loss[e].remaining + Total(comp[e], LastYear) = loss[e].amount

(* Every compensation is of a closed year, not before the year the loss
   originates in, and its LossRecord still exists: no reopening leaves one
   behind and no sync deletes a record that is in use. *)
CompensationsOfClosedYears ==
  \A e \in EventIds, y \in Years :
    comp[e][y] > 0 => /\ y \in Closed
                      /\ e \in DOMAIN loss
                      /\ Origin(events, e) <= y

(* FIFO over the years: when a closed year consumed a loss, every older loss
   that is still valid had been used up by the end of that year. *)
FifoOrder ==
  \A f \in DOMAIN loss, y \in Closed :
    comp[f][y] > 0 =>
      \A e \in DOMAIN loss :
        events[e].active /\ Older(events, loss, e, f)
          => Total(comp[e], y) = loss[e].amount

(* The snapshot and the ledger agree: the losses that reduced the tax base
   of a closed year (computed from the historical balances) are those the
   ledger consumed for that year (computed from the operational balances). *)
TaxBaseBackedByLedger ==
  \A y \in Closed :
    assessment[y].income - assessment[y].taxable =
      Total([e \in EventIds |-> comp[e][y]], MaxEvents)

AllClosedUpTo(year) == \A y \in 1..year : y \in Closed

(* No account that sold in the year has an opening dated after the year. *)
NoOpeningAfter(year) ==
  \A o \in openings, i \in Sales(year) :
    o.account = events[i].account => YearOf(o.date) <= year

(* A year closed after all the years before it can be recomputed at any time
   and gives its snapshot again, whatever is recorded, corrected, closed and
   reopened since: unless an account that sold in the year has an opening
   dated after it, which OpeningPosition.save lets through and which then is
   the opening of every sale (OpeningsSpareClosedYears). *)
ClosedPrefixReproducible ==
  \A y \in Closed :
    AllClosedUpTo(y) /\ NoOpeningAfter(y) => compute(y) = assessment[y]

(* The sales of a year closed after all the years before it stay covered by
   the custody of their dates, whatever openings and corrections come after:
   what the closing validated once remains valid. *)
ClosedSalesCovered ==
  \A y \in Closed : AllClosedUpTo(y) => checar_vendas_acima_da_custodia(y)

(* When all the years up to the last closed one are closed, the loss it
   carries forward is the balance the ledger offers to the next closing. *)
CarryforwardIsLedgerBalance ==
  \A y \in Closed :
    AllClosedUpTo(y) /\ (\A z \in Closed : z <= y) =>
      assessment[y].carryforward =
        Total([e \in open_records(events, loss, y) |-> loss[e].remaining], MaxEvents)

(* What the manual says without the premise: no closed year recomputes to
   anything but its snapshot.  It fails: events are only guarded by the
   closing of their own fiscal year. *)
ClosedYearReproducible == \A y \in Closed : compute(y) = assessment[y]

(* A correction that deactivates an event leaves a new version of it. *)
CorrectionKeepsAVersion ==
  [][\A i \in DOMAIN events, d \in Drafts :
       CorrectEvent(i, d) => \E j \in DOMAIN events' : events'[j].corrects = i]_vars

(* An opening position that is accepted changes the result of no closed
   year. *)
OpeningsSpareClosedYears ==
  [][\A o \in OpeningDrafts : SaveOpening(o) =>
       \A y \in Closed : compute(y)' = compute(y)]_vars

(* What closing a year promises (module SealedYears): its events are its
   facts, and the snapshot, the compensations of the year and the amounts of
   the losses that originate in it are sealed. *)
FactsOf(year) ==
  LET ids == {i \in DOMAIN events : events[i].active /\ ano_fiscal_de(events[i]) = year}
  IN  [i \in ids |-> events[i]]

SealedBy(year) ==
  [snapshot |-> assessment[year],
   consumed |-> [e \in EventIds |-> comp[e][year]],
   losses   |-> LET of == {e \in DOMAIN loss : Origin(events, e) = year}
                IN  [e \in of |-> loss[e].amount]]

Promise == INSTANCE SealedYears WITH
             Years   <- Years,
             NoFacts <- [i \in {} |-> i],
             facts   <- [y \in Years |-> FactsOf(y)],
             sealed  <- [y \in Closed |-> SealedBy(y)]

(* The closing implements its promise. *)
ClosingSealsYears == Promise!Spec
===============================================================================
