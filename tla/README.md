# FiscoAtlas: verification of the fiscal core

FiscoAtlas computes the Brazilian annual tax of investments held abroad for a
single user. It is a Django application that runs locally, over an encrypted
SQLite database. Its core promise is historical: a year that was closed keeps
its numbers, a loss is set against income once, in FIFO order, and corrections
never change what was closed. Around it are the parts that feed it (statements,
rates, taxes paid abroad), those that show it (report, memória, the declaration
of capitals) and those that guard it (vault, audit trail, backup). This
directory holds TLA+ models of them, TLC runs over small instances and proofs of
the central theorems for TLAPS.

Contents: [inventory](#1-the-system), [plan](#2-plan),
[modules and code](#3-modules-and-code), [runs](#4-what-the-runs-check),
[proofs](#5-what-is-proved), [disagreements found](#6-where-code-and-text-disagree),
[limits](#7-what-is-not-modelled-and-assumptions).

## 1. The system

State is in database tables; every change is an HTTP request handled by a view.
Only some handlers open a transaction (`CloseYearView`, `ReopenYearView`,
`EventService.record` around its last write, the importer); elsewhere every
statement commits by itself (`ATOMIC_REQUESTS` is not set in
`config/settings.py`). The server may handle two requests at once, and some
requests wait for the central bank's PTAX service over HTTP between their
checks and their writes.

| Component | State | Operations | Correct when |
|---|---|---|---|
| Event service (`ledger/service.py`, `ledger/views.py`) | `FinancialEvent`, `ForeignTaxPayment` | record, correct (deactivate the original, create a substitute), deactivate, edit a tax payment | a fact of a closed year never changes; a correction leaves exactly one valid version; no sale without custody |
| Position and cost (`ledger/position.py`) | none (reads events and openings) | custody and average cost up to a date; result of each sale | the sale's cost is the average cost of what preceded it, also after splits and transfers |
| Opening positions (`ledger/models.py`) | `OpeningPosition` | create, at most one per account, asset and date | closed years do not depend on openings that come later |
| Broker transfers (`ledger/service.py`) | pairs of `FinancialEvent` | record both ends | units and cost move whole, in pairs |
| Accounts and ownership (`ledger/models.py`, `ledger/ownership.py`) | `BrokerAccount` | edit share, ownership, remuneration | structural fields of an account that took part in a closed year are frozen |
| Tax engine (`fiscal/engine.py`) | none (computes) | `compute`, `save_snapshot` | base = income less losses of the year and inherited losses; each rule applied once |
| Loss ledger (`fiscal/losses.py`) | `LossRecord`, `LossCompensation` | `sync_year`, `apply_compensation`, `revert_compensations` | balance + compensations = amount; FIFO across years; a reopening returns exactly what was consumed |
| Closing and reopening (`fiscal/views.py`) | `AnnualAssessment` | close, reopen | descending reopening, no double closing, the snapshot agrees with the ledger |
| Closing guards (`fiscal/closing.py`) | none | `ano_fiscal_de`, `assert_*` | every mutation of a fact is guarded by the years it affects |
| Validator and reconciliation (`fiscal/validator.py`, `fiscal/reconciliation.py`) | `DocumentedBalance`, `ImportIssue` | checks before a closing | no year closes with open issues, uncovered sales or unreconciled balances |
| Foreign tax credit (`fiscal/foreign_tax.py`) | `ForeignTaxPayment` | eligibility, credit | credit bounded per income and by the tax of the year; refunds reduce it |
| PTAX (`fx/service.py`) | `PtaxRate` | get (cache or fetch), override | a date keeps the rate it was given; a fallback date never blocks another |
| Statement import (`ledger/importers`) | `ImportBatch`, `ImportIssue` | import, resolve, ignore | a file is imported once; unsupported rows block the closing until resolved |
| Cash ledger (`ledger/cash.py`) | none | balance at a date | equal to the documents; a transfer makes no cash |
| Report and memória (`fiscal/report.py`, `fiscal/memoria.py`) | none (recomputed when asked for) | assets at 31/12, result of each sale | agree with what the year was taxed with |
| Capitals abroad (`fiscal/cbe.py`, `fiscal/valuation_views.py`) | `AssetValuation`, `Profile` | value an asset, decide per base date | nothing is decided on unvalued custody; the past stays what it was |
| DARF (`fiscal/darf.py`), high income | none | instalments, thresholds | pure arithmetic over one snapshot |
| Vault and lock (`security/`) | `SecuritySettings`, key in process memory, session cookie, database file | setup, unlock, lock, auto-lock, regenerate recovery | one key whatever races and crashes; no screen without it; its owner is let in |
| Audit chain (`security/audit.py`) | `SecurityAuditLog` | append, verify | tampering is found out; nothing else breaks the chain without a reason |
| Documents and backup (`security/documents.py`, `backup_encrypted`) | file and `EncryptedDocument`, archive | store, read, back up | a stored document can be read; a backup holds every document |

How they interact: the views call the services directly. A closing calls
reconciliation, validator, engine and loss ledger in one transaction; the engine
calls `PositionService.realized` for every sale and reads the loss ledger; the
guards of the event service read `AnnualAssessment`. So the year's numbers
depend on three tables with different guards: events (guarded by their own
fiscal year), openings (guarded by every later closed year) and the loss ledger
(changed by closings only).

What is hard here is mostly not parallelism but *long sequences of legal calls*:
close, correct, reopen, close again, with balances kept by increments in one
table and by rows in another, and with two different notions of balance
(operational, and historical at the start of a year). Then come requests whose
check and write are apart (PTAX fetch, correction in two commits, pre-check
outside the transaction), several derivations of one fact by separate code (the
engine, the report and the memória each walk the events), and crash points in
the vault setup, in uploads and between an audit row and its hash. The full
list, each at its line, is under `hazards` in `PROJECT.json`.

## 2. Plan

Done, in order of importance:

1. **Iteration, Position, LossLedger, AnnualClosing**: the fiscal core as one
   state machine, **SealedYears** its abstract specification.
2. **EventRequests**: the same handlers cut at their commits and at the PTAX
   fetch, several requests at a time, on the same tables.
3. **Ptax, ForeignTax**: rates, tax paid abroad, credit, refunds, and the closing
   as far as it concerns them.
4. **StatementImport, Reconciliation**: what enters the ledger and what has to
   agree with documents before a year closes.
5. **AnnualReport, Capitals**: what is shown of a year and declared of it.
6. **VaultLock, AuditTrail**: setup and session with crashes, hash chain,
   documents, backup.
7. **Theorems**: every safety property of the runs that pass, and for most
   of the disagreements of section 6 a theorem that says what excludes them
   ([section 5](#5-what-is-proved)).

Left: the cost that transfers carry over, splits and cash in lieu in Position;
the guard on structural fields of an account; DARF.

No theorem of the plan is left: what a passing run checks and no theorem states is
the liveness property `LetIn`.

## 3. Modules and code

* **Iteration** – a Python `for` over an ordered queryset as a function over the
  naturals (`Iterate`), sums (`Total`), `min`/`max`, and `Quantized`, which is
  `Decimal.quantize` to the cent, half to even.
* **Position** – `PositionService`: `position`, custody at a date, `realized`,
  and the year and rounding helpers. Quantities are units, amounts are cents,
  a date is `100*year + day`. Each account holds one asset, as every query of the
  service is by account and asset.
* **LossLedger** – `fiscal/losses.py` as operators on its two tables.
  `loss[e]` is the record whose source event is `e` (the code keeps at most one
  per event), `comp[e][y]` its compensation of year `y`. A loop with a running
  remainder (`apply_compensation`) is written in closed form: before a record
  there is left of the income what the older records did not cover.
* **AnnualClosing** – the state machine. `events`, `openings`, `loss`, `comp`
  and `assessment` are the tables, `lastLossId` the sequence of `LossRecord`
  ids. Actions:

  | Action | Code |
  |---|---|
  | `RecordEvent` | `EventService.record` of a new event |
  | `CorrectEvent` | `EventCorrectView` and `record` with `corrects`, including the half-way failure |
  | `DeactivateEvent` | `EventDeactivateView` |
  | `SaveOpening` | `OpeningPosition.save` with `full_clean` |
  | `CloseYear` | `CloseYearView`: checks, `compute`, `save_snapshot` (return, sync, consume, snapshot) |
  | `ReopenYear` | `ReopenYearView` |

  A closing is one transaction, so a failure in any part is the whole action
  disabled. `CloseTransaction` and `ReopenTransaction` are what the views do
  inside `transaction.atomic`; the views' own checks come before it.
* **EventRequests** – the same handlers, cut into the steps between which other
  requests get in. `request[r]` is what worker `r` (a thread of the server) read
  and checked and the step it takes next. Recording: checks (`StartRecord`),
  rate fetched or not (`RateArrives`, `RateUnavailable`), original saved as
  inactive (`DeactivateOriginal`), event created (`CreateEvent`). Deactivation
  and opening positions: guard, then write. Closing and reopening: check outside
  the transaction, then the transaction, atomic because SQLite serialises them;
  a transaction that loses (`database is locked`) or whose checks fail is
  `ClosingFails`.
* **SealedYears** – what closing promises: facts and seals of sealed years do
  not change, sealing goes up, unsealing comes down. `AnnualClosing!Promise`
  instantiates it; the facts of a year are its active events, its seal is the
  snapshot, the compensations of the year and the amounts of the losses that
  originate in it.
* **AnnualReport** (extends AnnualClosing, adds no state) – what is shown of a
  closed year. `bens` is the asset row of `ReportService`: `PositionService.position`
  up to 31/12, whose exact cost is a fraction `cost/per`, because `Decimal`
  divides without rounding to the cent there. `gain_brl` is the result column of
  `fiscal/memoria.py`: the average cost over the opening and the events *of the
  year*.
* **Ptax** – `PtaxRate` of one quote type as a sequence in id order, and
  `PtaxService` as operators: a lookup prefers the latest manual row, otherwise
  the first row of the requested date, otherwise asks the central bank for up to
  `Lookback` dates; a date it does not answer for is passed over. `Stored` has the
  unique constraint on effective dates.
* **ForeignTax** – tax paid abroad, over Ptax.

  | Action | Code |
  |---|---|
  | `AskRate`, `StoreRate` | a screen's `get_rate` around the HTTP call |
  | `EditPayment`, `EditPaymentAndRate` | `ForeignTaxPaymentForm.save` without and with a manual rate, with its failure in the middle |
  | `RecordRefund`, `DeactivateRefund` | `EventService` with a `WITHHOLDING_REFUND` |
  | `CloseYear`, `ReopenYear` | the views, with `checar_restituicoes_retroativas`, `checar_credito_exterior` and the credit part of `TaxEngine.compute` |

  `Priced` is the sequence of lookups of one computation: in a closing they are
  part of its transaction and stay only if it commits. `Used` hands the credit
  of the year out to its incomes, in id order; `Left` is what of it is left
  before one of them.
* **StatementImport** – the ledger of events as a broker's documents see it:
  `import_csv` (one file once, all lines or none, issues for lines of unknown
  kind), `resolve_imported`, `resolve_ignored`, the event form (`RecordEntry`,
  `CorrectEntry`, `DeactivateEntry`), `BrokerTransferService.record` (`Transfer`),
  and the balances `units` and `balance`. A date is a year. `InOrder` numbers the
  lines of a statement that become entries.
* **Reconciliation** (extends StatementImport) – `DocumentBalance`
  (`DocumentedBalanceView`), the checks of `ReconciliationService` and those of
  the validator on custody and lone transfer legs, `CloseYear`, `ReopenYear`.
* **Capitals** (extends StatementImport, with base dates for years) –
  `CbeService` (`cash_usd`, `posicoes`, `pendentes`, `status`),
  `BrokerAccount.historico_do_ano`, `AccountDeactivateView`, `AssetValuationView`.
* **VaultLock** – the handlers of the vault, cut at every look at a file or at the
  key in memory and at every write to them.

  | Action | Code |
  |---|---|
  | `StartSetup`, `CreateSettings`, `OpenVault` | `SetupView` and `VaultService.setup`: no row yet, the row, the key to memory |
  | `LookAtDatabase`, `TakeKey` | `_encrypt_main_database`: header and size, `get_vault_key` |
  | `CheckCopy`, `RemoveCopy` | `rekey_main_database`: an older copy is looked for, removed |
  | `ConnectSource`, `AttachCopy` | connection to the database; `ATTACH`, which makes an empty file |
  | `ExportCopy`, `ExportFails` | `sqlcipher_export` into what is attached |
  | `ReplaceDatabase`, `FinishSetup` | `shutil.move`; `bootstrap_pos_unlock` and the recovery key on the screen |
  | `UnlockWithPassword`, `UnlockWithRecovery`, `FinishUnlock` | `UnlockView` |
  | `Admitted`, `TurnAway`; `AskScreen`, `ViewScreen` | `VaultLockMiddleware`; any screen |
  | `AskLock`, `LockNow`, `ZeroMemory`, `ClearMemory` | `LockNowView` and `clear_vault_key`: zeros first, then `None` |
  | `AskRecovery`, `RegenerateRecovery`, `RewrapKey` | `RegenerateRecoveryView`: takes the key, then wraps it |
  | `GoIdle`, `Restart` | ten minutes without a request; a stop at any step, and `entrypoint.sh` |

  `CanMigrate` and `Migrate` are `bootstrap_pos_unlock`: once in the life of the
  process it opens the database with the key in memory, and fails if a lock has
  cleared it. Two setups use one path for their copies. `attached[r]` says where
  the file is by now that request `r` has attached: still at that path, moved over
  the database, or removed. `overlapped` is a history variable, on which no step depends:
  whether two setups have been encrypting at the same time. The session is a
  signed cookie: a request works on the copy it came with, and its response
  replaces what the browser holds.
* **AuditTrail** – `log_event` in three steps (`ReadLast`, `CreateRow`, `Seal`),
  `verify_chain` (`Verifies`), `DocumentListView` in two (`StoreFile`,
  `RecordDocument`), `Download`, the backup command in two, stops of the server
  and of the command, and rows edited or removed by hand. A hash is the sequence
  of the contents it was computed from.
* **MC...** – the values of the constants for TLC.
* **IterationProofs, AnnualClosingProofs, EventRequestsProofs, ForeignTaxProofs,
  ReconciliationProofs, CapitalsProofs, VaultLockProofs, AuditTrailProofs** – the
  theorems and their proofs.

## 4. What the runs check

| Run | Instance | Properties | Shows |
|---|---|---|---|
| `ledger` | 3 years, up to 4 events in a half-owned account that opens with 5 units for 58: a sale and a purchase of 4 units on one day of year 1, which corrections can put in the other order; a dividend traded in year 1 and received in year 2 (also with refused tax facts), a gain in year 3; an opening dated in year 3 that replaces the first, also when years 1 and 2 are closed | `TypeOK`, `LossConservation`, `CompensationsOfClosedYears`, `FifoOrder`, `TaxBaseBackedByLedger`, `CarryforwardIsLedgerBalance`, `ClosedSalesCovered`, `ClosedPrefixReproducible`, `AssetsExplained`, `ClosingSealsYears` | the two loss tables and the snapshots agree after any sequence of handlers; closed years keep facts, seals, custody; closed without a gap they recompute to their snapshots, unless an opening was dated after them, and the assets of accounts whose openings and purchases come first are explained by their results |
| `requests_ledger` | 2 workers, 2 years, up to 3 events (a loss in year 1, a gain in year 2, a purchase in year 1 that changes both, also with refused tax facts), a late opening | `RequestsOK`, `LossConservation`, `CompensationsOfClosedYears`, `TaxBaseBackedByLedger` | the loss ledger survives every interleaving, also those that break the guards |
| `credit` | 2 years of 2 dates, the second without a quote; 3 incomes, one of a half-owned account; federal, state and unclassified payments; refunds of the same and of the next year; outages; up to 3 rates and one manual one | `CreditTypeOK`, `CreditBounded`, `ClosedCreditReproducible`, `ClosedPaymentsClassified`, `RefundKeepsAYearOpen`, `RateInUseStable` | the credit stays within every limit; rates and payments do not move under closed years, but for the one case named |
| `imports` | 2 years, 2 accounts, 2 statements (a dividend and an unknown line; a purchase and a sale that may lack units), a dividend by hand, transfers of units and cash, 5 documents, up to 4 entries | `ReconciliationTypeOK`, `EveryLineAccountedFor`, `ClosedIncomesDeclared`, `ClosedUnitsDocumented`, `ClosedTransfersPaired`, `OpenIssuesOfClosedYears` | no line is lost or doubled; what a closing reconciled stays so |
| `capitals` | 3 base dates in 2 years, 2 joint accounts, up to 4 entries, valuations confirmed or not | `CapitalsTypeOK`, `TransfersKeepCash`, `ReportKeepsCapitals` | transfers make no capital; the report keeps what counted |
| `vault` | 2 browsers, 2 requests, the second of which sets the vault up with the password of the first or another, 3 keys, 2 locks, idle times or stops | `VaultTypeOK`, `OneVaultKey`, `LoneSetupsEncrypt`, `LetIn` | setups that race or die leave one key in use, or the zeros of a lock; a setup that encrypts alone has encrypted the database when it says so; who knows the password is let in as long as no zeros were written |
| `trail` | 2 requests and a backup, 3 rows, 2 documents, 1 row tampered with | `TrailTypeOK`, `BrokenForAReason`, `EditFoundOut`, `RemovalFoundOut`, `DocumentsHaveFiles`, `BackupsComplete` | tampering is found out; uploads and backups are complete under stops and races |
| `stale` | a cheap purchase and a loss in year 1, a gain in year 2, up to 3 events | `ClosedYearReproducible` | fails: see section 6 |
| `memoria` | the same | `MemoriaShowsResults` | fails: see section 6 |
| `requests_facts` | 2 workers | `ClosedYearsKeepFacts` | fails: see section 6 |
| `unaudited` | as `credit` | `AlterationsAudited` | fails: see section 6 |
| `setups_race` | as `vault` | `SetupEncrypts` | fails: see section 6 |

**The properties worth an argument.** `TaxBaseBackedByLedger`: the base is
computed from *historical* balances (amount less what earlier years consumed),
the ledger consumes *operational* balances (`remaining`). They agree because a
year may be closed only when no later one is; without that rule a closing would
pay tax on a base the ledger does not back. `CarryforwardIsLedgerBalance` is the
same question at the other end: what the user reads as loss to carry forward is
what the next closing finds. `FifoOrder` ranges over all closed years, so it also
covers losses that appear after a reopening. `ClosedPrefixReproducible` states
when a report (always recomputed by `ReportService`) shows the snapshot's
numbers: for years closed with all earlier ones closed, as long as no account that
sold in the year has an opening dated after it (`NoOpeningAfter`). The code does
not enforce this (section 6, "a later opening rewrites closed years"); `ledger`
reaches years with and without such an opening. Under two requests at a
time the guards can be passed by stale reads, yet the ledger stays consistent:
the transaction of a closing first gives back what an earlier closing of the
year consumed, and replaces the snapshot with the values it consumed for. The
mutants of `requests_ledger` take away exactly that and break it only in
interleavings.

`AssetsExplained` relates two walks over the same events that round at different
places: the assets a report shows may differ from opening plus purchases less
the cost used in the results, but by no more than half a cent for each sale (58
cents over five units make them differ). It has two premises that the code does not
enforce either. `OpeningsComeFirst`: an opening is dated up to the closed years and up
to the sales of its account in them, since the results start from every opening but the
assets of a year only from those up to its end. `PurchasesComeFirst`: the
purchases of a date have lower ids than its sales, which correcting one of them
undoes (section 6, "a corrected purchase"). Both cases occur in `ledger`.
`ClosedCreditReproducible`
holds up to one exception it states itself: a manual rate is guarded by the year
of its date, while a payment of the following year may price an income of a
closed one. `RefundKeepsAYearOpen` is what the validator's refusal amounts to: as
long as a refund of an earlier year's income is active, one of the two years
cannot be closed, and no correction of the earlier year lifts it.
`RateInUseStable` is what makes closed years independent of the central bank: an
outage makes a lookup fall back to an older date, the answer is stored, and
nothing fetched later changes it. `BrokenForAReason` lists the only ways a chain
can fail to verify; two of them (a fork, a stop between row and hash) are not
tampering. `OpenIssuesOfClosedYears` says exactly which issues may be open in a
closed year. `EveryLineAccountedFor` counts inactive entries too: a corrected
line stays the line's entry.

**Bounds.** `LastYear` (years with a tax rule): a loss, a year that partly uses
it and a year that gets the rest need three. `MaxEvents`: two losses for an
order, one income for each consuming year; a correction adds one event. Amounts
are chosen so that the attributed losses of year 1 are larger than the income of
year 2 and smaller than all: partial use, exhaustion and carry-over all occur.
`MaxAmount` (column width) is never reached in the runs; the theorems treat the
overflow as a failed closing. Sales, purchases and dividends are bounded by the
drafts; the tables are not otherwise restricted, and closings, reopenings and
corrections are unbounded in number. There is no symmetry to exploit: years and
events are ordered.

In `credit` two dates a year, one without a quote, give a weekend, a fallback
into the earlier year and a collision of effective dates; three rates
(`MaxRates`) fill a cache with a fetched, a colliding and a manual row. The losses
make the tax smaller than the potential credit, so that the cap is distributed.
In `imports` and `capitals` four entries (`MaxEntries`) allow an import, a pair
of legs and a correction; a file of two lines is the smallest that can fail in
the middle. In `vault` two requests, in two browsers, give every race of two
setups with each other, with locks and with new recovery keys; a race of three
requests is left to the theorems. `MaxKeys` 3 is the keys of two setups and one new
recovery key. Passwords are interchangeable, so the first setup is given one of them
and the second the same or the other (`SetupPasswords`); unlocking tries both.
`MaxDisturbances` bounds locks, idle times and stops together. In `trail` three
rows are the fewest in which a removed row has one before and one after it
(`MaxRows`, `MaxFiles`, `MaxTampering`).

Two workers give every pair of racing requests; the races found need no third.
Workers are symmetric (a set of model values none of which is named by the
specification), so `requests_ledger` uses symmetry, and so does `trail` for its
requests; the run with a liveness property and those that refute action
properties do not.

**Deadlock** is checked in every run: a reopening, another unlocking or a restart
is always possible, so no system here comes to an end.

**Fairness.** None in AnnualClosing: handlers run when the user submits
something, so nothing in the core must eventually happen, and none in
EventRequests. In VaultLock, `Fairness` assumes
weak fairness of the steps of requests under way, that somebody sets the vault
up, and strong fairness of each browser's screens and of its unlocking by
password: `LetIn` is about a user who keeps trying, and each try may find the
key gone again because another browser locked. A thread that serves a request keeps
running, because no step of these handlers waits for another one. No fairness is assumed of locks,
idle times or stops, which are bounded.

**Mutants.** Every property of a passing run has a mutant of a mapped definition
(a FIFO that takes the newest loss, a reopening that leaves compensations
behind, an import that looks the file up by account, a document whose row is
written before its file, a hash that is not carried on, an unlocking that asks
for the key of a plaintext database, ...) under which TLC finds it violated. They stand before
the definition they replace, marked as mutants. An unlocking that does not
reset the clock of the inactivity violates `LetIn` too, later in the search.

## 5. What is proved

Every theorem holds for all values of the constants that the named assumptions
allow: `BoundsAssumption`, `InputsAssumption` and `ForeverAssumption` (AnnualClosing:
bounds are naturals, shares are percentages, openings and drafts have the types the
forms enforce, drafts are dated in years that have a rule, the date that stands for
no limit comes after all years), `WorkersAssumption` (EventRequests: the server has
finitely many threads), `PtaxAssumption`, `ForeignTaxAssumption`, `ImportAssumption`,
`DocumentsAssumption`, `CapitalsAssumption`, `VaultAssumption` and `TrailAssumption`
(bounds and types of what is entered).
TLC evaluates each of them in a run.

A theorem is a temporal formula over all behaviours. Its proof names an inductive
invariant, shows that the initial state has it, and that each action keeps it.
The invariants below are stronger than the properties of the runs; what has to
be added, and why, is what each proof is about.

* **IterationProofs** – the lemmas on operators that all others use.
  `IterateRounds`: a loop over a typed state starts at its initial value, stays in
  its type, and round `n+1` is the body after round `n`. From it follow the
  algebra of `Total` (sums of integers are integers, split pointwise, change by
  what one item changes, are monotone), that the ranks of a finite total order
  number its members without gaps, that what FIFO consumption draws sums up to
  the smaller of demand and supply, and that `Quantized` is within half a unit of
  the fraction it rounds. `OrderInduction` is induction along a total order on a
  finite set, over a set of members instead of an operator.
* **AnnualClosingProofs** – `WalkInBooks` and `RealizedInt`: the cost walk visits
  existing events only and every sale has a result in whole cents; `WalkTotals`:
  after the walk the units and the cost are sums over the trades. The inductive
  invariant is `Safety == TypeOK /\ LossConservation /\
  CompensationsOfClosedYears`; none of the three is inductive alone.
  Conservation after a closing needs that the year being closed had no
  compensations (they belong to closed years only), and that a record that is
  dropped or rewritten by `sync_year` has none at all; that follows from
  `CompensationsOfClosedYears` with the rule that only years after the last
  closed one may be closed. Types of the compensations (`0..MaxAmount`) follow
  from conservation: what is consumed is at most what remained. Theorems:
  `TypeCorrect`, `LossesConserved`, `CompensationsBacked`. The lemmas on the
  transactions of closing and reopening do not assume that the year was still
  open, so that they serve EventRequests too.

  `ClosingImplementsPromise`: `Spec` implies `Promise!Spec`, the specification of
  SealedYears under the refinement mapping of `Promise`. Recording, correcting and
  deactivating map to `Edit` or to a stutter, by the guards on the fiscal year;
  `CloseYear` maps to `Seal`, using that all closed years precede it and that
  `Returned`, `Synced` and `Compensated` touch records and compensations of that
  year alone; `ReopenYear` maps to `Unseal`, or to a stutter when the year was
  open.

  For the closed years `ClosedLedger` is the inductive invariant: `Safety`; the
  dates of events are in years that have a rule (`EventYears`, so that "no year
  before this one is open" speaks of every earlier event); only sales have a loss
  record (`LossesOfSales`) and no two have the same id (`IdsOnce`, so that FIFO is
  a strict order); a year that carries a loss forward left a record behind
  (`CarriedLossesExist`, so that the short cut of a computation without records is
  right); what a closed year carries is the historical balance at the start of
  the next (`CarryforwardHistoric`); and the properties `FifoOrder`,
  `TaxBaseBackedByLedger`, `ClosedSalesCovered` themselves. The handlers of the
  ledger are handled at once: each is a `LedgerStep`, which touches no trade up to
  a closed year. A closing and a reopening touch nothing of the years before
  (`SparesEarlierYears`); and a closing establishes for its own year what the
  invariant says (`CloseConsumes`), by the sum of what `apply_compensation` draws.
  Theorems: `ConsumptionIsFifo`, `TaxBaseBacked`, `CarryforwardIsBalance`,
  `SalesStayCovered`, and `ClosedYearsRecompute`: what `compute` gives for a closed year
  depends on the trades and openings up to its end and on losses of the years
  before, and an opening that is entered later is either dated in a year that is
  not closed, when `NoOpeningAfter` does not hold, or of an account that did not
  sell.

  `AssetsStayExplained` has its two premises, `OpeningsComeFirst` and
  `PurchasesComeFirst`, inside the property. The proof compares the walk of the report
  with the exact costs used in the results, by induction along the order of the
  trades (`WalksAgree`): both hold the same units, and after each sale the costs
  are apart by at most half a cent more than before. The validator of the closing
  keeps those units from going below zero: with purchases first, the custody it
  adds up is at most that of the walk (`CustodyInOrder`).
* **EventRequestsProofs** – any number of threads. `RequestsSafety` is `Safety`, the
  types of what each request read, room for the events that requests under way
  may still create, and that the ids they keep exist (events are never removed).
  `BackedLedger` adds the parts of `ClosedLedger` that survive interleavings, and
  gives `TaxBaseBackedByLedger`: the transaction of a closing is right about its
  own year even if another request closed it first. `FifoOrder` and
  `CarryforwardIsLedgerBalance` are not among them: they fail (section 6).
  Theorems: `RequestsTyped`, `RacesConserveLosses`, `RacesBackCompensations`,
  `RacesBackTheTaxBase`.

  The other theorems say which overlaps the disagreements of section 6 come
  from. Each has a premise on the steps of the requests that the code does not
  enforce, and an inductive invariant that holds under it:
  - `ReopensTheLast` (no year is reopened under a later closed one):
    `OnlyReopeningsUndoFifo` gives `FifoOrder`, with closings of years already
    closed and stale recordings still allowed.
  - `TransactionsAlone` (the transaction of a closing or a reopening commits
    while no other request is under way): `ClosingsAloneKeepChecks`. The invariant is
    `ClosedLedger /\ StillChecked`, where `StillChecked` says that whatever a request
    checked before its wait is still true. Recordings may interleave with each
    other as they like: none of them closes a year or moves an event to another
    (`LedgerStep`). From it `ClosingsAloneKeepTheLedger` (`FifoOrder`,
    `CarryforwardIsLedgerBalance`, `ClosedSalesCovered`),
    `ClosingsAloneKeepClosedYears` (`ClosedYearsKeepFacts`, `ClosedYearsKeepSeals`)
    and `ClosingsAloneImplementPromise`: the interleaved handlers implement
    SealedYears, each closing at its commit; and `ClosingsAloneRecompute`
    (`ClosedPrefixReproducible`).
  - `CorrectionsApart` (no two corrections of one original are under way):
    `CorrectionsApartKeepOneVersion` gives `OneValidVersion`. The invariant `Versions`
    adds that an active event was never corrected and that the original is
    inactive before its substitute is created.

  TLC finds no violation of the conclusions or of their invariants in the
  instance of `requests_facts` when the premise restricts the steps, and it
  reaches closings, reopenings and corrections there: the premises are not
  empty. `RequestsAdvance`: a request is never put back, and has at most three steps
  left, so no retry or loop can hold it up.
* **ForeignTaxProofs** – `CreditSafety`: the properties of the run, with
  `LookupsFetched` (a row that a screen is about to store is one of the central
  bank, not a manual one) and `ComputedInTime` (a snapshot was computed from rows
  that are in the table). Theorems: `CreditTyped`, `CreditIsBounded`,
  `ClosedCreditRecomputes`, `ClosedYearsClassified` (no payment of a closed year is left
  to be classified), `RefundsKeepAYearOpen`, and
  the action property `RateStaysInUse`: rows are only appended, and a fetched row
  never comes before the one a date is answered from.
* **ReconciliationProofs** – `ReconciliationSafety`: the properties of the run, with
  `PairsTogether` (only transfers come in pairs, a new pair has a number of its
  own, and its legs are of one date), `SettledWithEntries` (an issue settled with
  an entry names an entry that exists) and `LinesOnce` (a line of an imported file
  is one entry or one issue, never both: `EveryLineAccountedFor` counts them). Theorems: `ReconciliationTypes`,
  `LinesAccountedFor`, `IncomesStayDeclared`, `TransfersStayPaired`,
  `UnitsStayDocumented`, `IssuesStaySettled`, and the action property
  `ClosedYearsKeepTheirEntries`.
* **CapitalsProofs** – entries are only appended or deactivated, and a valuation
  is entered once for an account and date, so that types are inductive
  (`CapitalsTyped`). `TransfersMakeNoCash` is an action property over sums: the
  balance of each account changes by its leg only, the legs cancel, and the
  total over any number of accounts changes by what the two change, before it
  is rounded. `ReportKeepsAccounts`: whether an account counts on 31/12 depends
  on its entries up to then, and an entry keeps its place (`SameEntriesSamePosition`).
  Two statements about the declaration that fail (section 6) are proved with the
  premise they lack: `ActiveAccountsStayDeclared` (no account is deactivated) and
  `DecisionsAreOnValuedCustody` (each account that opened with units has an entry
  of the asset). `LaterEntriesDecideNothing`: what is entered for a later date
  changes nothing that is declared of an earlier one.
* **VaultLockProofs** – any number of browsers and requests. Three invariants:
  - `VaultSafety`: `VaultTypeOK`; the database, its copy, the memory and the key
    that each request has taken are the key of the first row or the zeros
    (`InForce`, `SoundRequest`), and so is what the recovery key wraps; whoever
    opens the vault after creating the settings finds a row (`OpensAfterCreation`),
    since `OpenVault` takes its key from the first one. Theorems: `VaultTyped`,
    `VaultHasOneKey`.
  - `NoZerosTaken`, under the premise `TakesNoZeros` (no request takes the key
    between the two writes of a lock), which the code does not enforce:
    `LocksApartKeepOneKey` gives `OnlyVaultKey`, which fails without it (section 6).
  - `LoneSafety`: as long as no two setups have been encrypting at the same time, what
    a setup finds at each of its steps: a plaintext database until it is replaced,
    no copy when it connects, its own empty copy when it exports, a full one when it
    moves. Theorems: `SetupsEncrypt` (`LoneSetupsEncrypt`), and with it the action
    property `KeyOfVaultStays`: the password keeps unwrapping the same key, and
    without such an overlap an encrypted database is not replaced.
* **AuditTrailProofs** – `TrailSafety`: types, that a hash is computed from what
  the row said when it was made (`HashesOfOriginals`), what each step of an upload
  or a backup has done already (`StepsOfStorage`), and, as long as nobody has tampered with
  the log, that every hash extends that of an earlier row (`AppendedChain`). From
  the last one follows that only two appends that read the same last row can fork
  an untouched chain. Theorems: `TrailTyped`, `ChainBreaksForAReason`,
  `EditsAreFoundOut`, `RemovalsAreFoundOut`, `DocumentsReadable`,
  `BackupsHoldDocuments`.

**Only model-checked:** the liveness property `LetIn`, which needs fairness and
ENABLED and is out of the prover's reach. So is what a recursive definition computes for every input
(induction over data with an operator as parameter); the loops of the models are
therefore functions, about which `IterationProofs` argues by one induction over
the naturals on a set. No module declares a RECURSIVE operator.

## 6. Where code and text disagree

Shown by a run:

* **Closed years recompute to other numbers** (`stale`). An event is guarded
  by its own year only. Close year 2 with year 1 open, then buy in year 1: the
  average cost, hence the result of year 2, changes. The manual
  (`docs/manual/MANUAL_DO_SISTEMA.md:801`) says the numbers of a closed year are
  immutable and its report can be re-exported; the report recomputes.
* **The memória shows other results than the tax** (`memoria`). It walks the
  events of the year only (`fiscal/memoria.py:43-44`) from the opening position
  (`49-60`): purchases and sales of the years between are missing from its
  average cost, although `fiscal/memoria.py:25-26` calls it the audit of every
  result.
* **An event enters a closed year** (`requests_facts`). The year is looked up,
  then the rate is fetched, then the event is created: a closing in between is
  not noticed (`ledger/service.py:51`, `115`, `132`), although
  `fiscal/closing.py:3` excludes any change of a closed year's facts. Only
  closings and reopenings that overlap another request do this
  (`ClosingsAloneKeepClosedYears`).
* **A payment is altered without a trace** (`unaudited`). With a manual rate the
  payment is saved first (`ledger/foreign_tax_forms.py:61`), then the rate in
  force is looked up (`65`) and replaced (`68`); if either fails, no audit row is
  written, although the form (`:18`) says that alterations are registered. It
  invites a manual rate for when the central bank does not answer (`:23`), which
  is when the lookup fails.
* **Two setups leave the database unencrypted** (`setups_race`). Both use one path
  for their copies. The second removes the copy of the first
  (`security/database.py:15`) and attaches an empty file in its place (`18`), which
  the first moves over the database (`security/views.py:79`) before it reports the
  vault ready, although `security/views.py:68` calls the encryption idempotent
  and the manual (`:213`) says that the database is encrypted. Only setups that
  encrypt at the same time do this (`SetupsEncrypt`).

Stated as a property of a module, and false when TLC checks it in the instance
of the run named, or with the inputs described; no run of the project is kept for
them:

* **A correction can lose the event** (`CorrectionKeepsAVersion`, AnnualClosing,
  instance of `ledger`). `EventService.record` saves the deactivated original
  before the transaction that creates the substitute
  (`ledger/service.py:116-118`, `132`). If the tax payment is refused there, the
  fact is gone, although `CONTEXT.md:8` says it is never deleted.
* **A later opening rewrites closed years** (`OpeningsSpareClosedYears`,
  AnnualClosing). The guard lets an opening dated after the closed year pass
  (`fiscal/closing.py:57-58`), but `PositionService.realized` takes the opening of
  the latest date for every sale (`ledger/position.py:20`). Instance of `ledger`.
  `ClosedPrefixReproducible` and `AssetsExplained` state as a premise that there is
  no such opening.
* **A year is closed twice** (`ClosedYearsKeepSeals`, EventRequests,
  `requests_facts`). The look-up of `fiscal/views.py:55` is outside the
  transaction; the second closing replaces the seal of the first
  (`fiscal/views.py:52-54`). The look-up of a reopening (`98`) is outside its
  transaction too; `requests_ledger` shows that the ledger stays consistent, and
  `ClosingsAloneKeepClosedYears` that it takes overlapping transactions.
* **A reopening undoes the FIFO of later years** (`FifoOrder`, EventRequests).
  A reopening looks the later years up outside its transaction
  (`fiscal/views.py:98`). If years are closed in between, the reopened year gives
  back an old loss while a later closed year keeps the younger one it consumed;
  `CarryforwardIsLedgerBalance` fails with it, although `fiscal/losses.py:1`
  promises a FIFO over the years. Inputs: four years, with sales that lose in
  years 1 and 3 and gain in years 2 and 4; the reopening of year 2 starts when
  year 2 is the last closed one and ends when year 4 is closed. Nothing else
  breaks the order (`OnlyReopeningsUndoFifo`): looking again inside the
  transaction would be enough.
* **Two valid versions of one event** (`OneValidVersion`, EventRequests,
  `requests_facts`): a correction submitted twice; both read the original as
  active (`ledger/views.py:84`) and neither looks again when it deactivates it.
  It takes two corrections of the same event at once
  (`CorrectionsApartKeepOneVersion`).
* **A vault over a plaintext database** (`UnlockedOnlyEncrypted`, VaultLock,
  `vault`). A setup that ends between its settings row and the encryption leaves
  a vault that counts as configured; unlocking never encrypts, and the recovery
  key was never shown. `README.md:95` calls the file encrypted.
* **The zeros of a lock are taken for the key** (`OnlyVaultKey`, VaultLock,
  `vault`). `clear_vault_key` overwrites the key by zeros before it drops it
  (`security/state.py:22`). A new recovery key (`security/views.py:142`) or the
  export of a setup (`78`) that asks for the key in between gets the zeros: the
  recovery key then unwraps something else than the VaultKey, although
  `security/vault.py:116` speaks of wrapping the VaultKey anew, or the database is
  encrypted with zeros. It takes that overlap (`LocksApartKeepOneKey`).
* **A date that has a quote is refused** (`QuotedRateServed`, ForeignTax,
  `credit`). The cache is searched by requested date and unique by effective
  date: once the Friday's rate was fetched for the Saturday, asking for the
  Friday fails on the constraint (`fx/service.py:22`), against the fallback the
  manual describes (`MANUAL_DO_SISTEMA.md:884`).
* **The newest rows can be removed unnoticed** (`AnyRemovalFoundOut`, AuditTrail,
  `trail`), although `security/audit.py:40` says that `verify_chain` tells
  whether any event was altered or removed.
* **Reconciled units may differ from the documents** (`ClosedUnitsEqualDocuments`,
  Reconciliation): units below zero pass where the document lists none
  (`fiscal/reconciliation.py:129`, against its lines 11-13). Inputs: a unit is
  transferred from `a1` to `a2` in year 2, then from `a2` back to `a1` in year 1.
* **The cash of a closed year can change** (`ClosedCashDocumented`,
  Reconciliation): an income traded in the year and received in the next belongs
  to the next for the guards, but counts in the cash of its trade date
  (`ledger/cash.py:24`). Inputs: those of `imports`, with a dividend traded in year
  1 and received in year 2 among the drafts.
* **Deactivating an account rewrites past declarations**
  (`DeclarationKeepsCapitals`, Capitals, `capitals`): `fiscal/cbe.py:117` looks at
  active accounts only, while `ledger/models.py:109` says that a deactivation
  does not erase an account's fiscal past. Nothing else removes an account from
  a declaration (`ActiveAccountsStayDeclared`).
* **Opening positions are not valued** (`DecidedOnValuedCustody`, Capitals,
  `capitals`): units that are only in an opening position are not looked for, so
  that a decision is made without their value (`fiscal/cbe.py:16-18`;
  `ledger/views.py:122-124` calls such units real custody). Units that have an
  entry are never overlooked (`DecisionsAreOnValuedCustody`).
* **A corrected purchase comes after the sale it covers** (`AssetsExplained`,
  AnnualReport). The substitute of a corrected event has a new id. The validator
  adds up the custody of a date whatever the ids (`fiscal/validator.py:81-84`); the
  cost walk takes the events of a date in the order of their ids
  (`ledger/position.py:116`). So correcting a purchase puts it behind a sale of its
  day, which then takes its cost from a custody that goes below zero. The year
  closes, though the validator says that a sale without custody cannot be
  computed (`fiscal/validator.py:85-91`). Inputs: an opening of 3 units for 29, a
  sale of one, then on one day a purchase of 7 for 70 and a sale of 7, then the
  purchase corrected. The results and the assets are then more than rounding
  apart. `AssetsExplained` excludes it by its premise `PurchasesComeFirst`; without
  that premise it fails.

Met while reading, with no property: the manual (`:117`) and `fiscal/darf.py:8-10`
say that a DARF below the minimum is carried to the next period, and no code
carries it; a valuation that was not confirmed, and a documented balance that
was entered wrong, can be neither changed nor replaced by any form; a dividend
line without a quantity ends in a division by zero (`ledger/importers/schwab.py:121`);
a manual rate entered with an event is committed before the checks that follow
(`ledger/service.py:111`); the database rows of documents are in no backup; no
view calls the transfer service (as the manual, `:398`, says).

## 7. What is not modelled, and assumptions

* Legacy rows that no code writes any more: loss records without a source event,
  events and openings without an account.
* One asset per account: no query of the core mixes assets, and documented
  positions are compared asset by asset.
* USD amounts and fees of events in AnnualClosing: an event carries its BRL
  amount, fixed when it is recorded; rates are in ForeignTax. There the incomes
  and the losses set against them are fixed.
* The closing is modelled three times, each time with the checks on the data of
  its module (custody; credit, refunds and rates; documents, issues and
  transfers). The checks only disable a closing, so that every behaviour of the
  code is one of each model, and the properties hold a fortiori. The checks for
  the tax residence, for assets of unknown kind and for events without a rate
  are in none.
* In StatementImport and Reconciliation dates are years, and splits, cash in
  lieu, interest, deposits and fees are left out; the columns of a statement are
  reduced to kind, date, units and amount. Overlapping statements are two files.
* In Capitals no year is closed and nothing is imported: it is about what is
  computed of an open ledger. The high-income module has no state and is left out.
* In AnnualReport the dividend rows of the memória, the USD columns and the PDF.
* In VaultLock key derivation and wrapping are ideal: a secret unwraps exactly
  what it wrapped. A file is absent, empty, plaintext or encrypted with a key: one
  that was exported in part counts as encrypted, and journals are left out. Looking at
  a file's header and size is one step, and so is reading the settings row and setting
  the key when unlocking. Migrations are atomic and succeed once the file opens. An
  export from a source that was empty when it was opened may fill the copy or leave it
  empty. `change_password` and `recover` are called by no view.
  Sessions grow old only while no request is under way.
* In AuditTrail SHA-256 is injective and row contents are unique by their time;
  the audit events of a request are appended one at a time, as if by requests of
  their own.
* Reads that follow one another without a write, a commit or a wait between them
  are one step in EventRequests; two requests that record an event are never
  cut between the look-up of the year and that of the custody.
* Components listed in `PROJECT.json` as `not_modelled`: DARF arithmetic,
  configuration, driver glue, generated migrations and documentation tooling.
